--------------------------- MODULE MCRegionTable ---------------------------
(* Country inference on the indicator of every row of the table.           *)
EXTENDS Regions

VARIABLE row

LowerCase(word) == word

Init == row \in DOMAIN RegionTable
Next == UNCHANGED row
Spec == Init /\ [][Next]_row

(* The quickstart asks that "the row's placement respects the specificity  *)
(* ordering (more specific before more general)" and the table's comment   *)
(* that specific forms precede general ones: a display name that is just   *)
(* the indicator of a row is inferred as the country of that row.          *)
EveryIndicatorCounts ==
  InferCountry(RegionTable[row].indicator) = RegionTable[row].code
=============================================================================
