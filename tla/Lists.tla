------------------------------- MODULE Lists -------------------------------
(***************************************************************************)
(* Selecting from a sequence and sorting one, defined from sets and        *)
(* functions (SelectSeq and SetToSortSeq are not, and no prover can expand *)
(* them).                                                                  *)
(***************************************************************************)
EXTENDS Naturals, Sequences, FiniteSets, SequencesExt

Map(Op(_), s) == [i \in DOMAIN s |-> Op(s[i])]

(* The elements of s at the positions in I, in their order.                *)
KeepAt(s, I) == FlattenSeq([i \in DOMAIN s |-> IF i \in I THEN <<s[i]>> ELSE <<>>])

Filter(s, Test(_)) == KeepAt(s, {i \in DOMAIN s : Test(s[i])})

(* The elements of a set, each after the ones that before[i] says precede  *)
(* it; before is a strict total order, so their number gives the place.    *)
RankedBy(before) ==
  [k \in 1..Cardinality(DOMAIN before) |->
     CHOOSE i \in DOMAIN before : Cardinality(before[i]) = k - 1]

(* The elements of s, stably ordered by Less (sort.SliceStable).           *)
SliceStable(s, Less(_, _)) ==
  LET Earlier(i, j) == Less(s[i], s[j]) \/ (~Less(s[j], s[i]) /\ i < j)
      order == RankedBy([i \in DOMAIN s |-> {j \in DOMAIN s : Earlier(j, i)}])
  IN  [k \in DOMAIN s |-> s[order[k]]]
=============================================================================
