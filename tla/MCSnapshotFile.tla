--------------------------- MODULE MCSnapshotFile ---------------------------
(***************************************************************************)
(* Instances of SnapshotFile for TLC: a long and a short snapshot.         *)
(***************************************************************************)
EXTENDS SnapshotFile, TLC

CONSTANTS long, short

Texts == {long, short}
TextLength == long :> 3 @@ short :> 2
=============================================================================
