--------------------------- MODULE MCCoordinator ---------------------------
(***************************************************************************)
(* An instance of Coordinator for TLC: one row with the default TTL and    *)
(* window.  The sources do not touch each other's state; what they share,  *)
(* the Ready channel, is checked with several rows in MCServing.           *)
(***************************************************************************)
EXTENDS CoordinatorInv, TLC

CONSTANT a

OneRow == {a}
OneRefresh == a :> 0
OneStale == a :> 0
=============================================================================
