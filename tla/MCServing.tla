----------------------------- MODULE MCServing -----------------------------
(***************************************************************************)
(* An instance of Serving for TLC: a row on the default interval, one that *)
(* is never refreshed and a disabled one, and one request at a time.       *)
(***************************************************************************)
EXTENDS Serving, TLC

CONSTANTS a, n, d, r

MixedRows == {a, n, d}
MixedEnabled == {a, n}
MixedRefresh == a :> 0 @@ n :> -1 @@ d :> 0
MixedStale == a :> 0 @@ n :> 0 @@ d :> 0
MixedOrder == <<n, a>>

OneRequest == {r}
=============================================================================
