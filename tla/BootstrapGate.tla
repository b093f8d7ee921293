--------------------------- MODULE BootstrapGate ---------------------------
(***************************************************************************)
(* What the coordinator promises the HTTP handlers, with fetching, timing  *)
(* and persistence left out: per source a bootstrap status that only moves *)
(* forward within one life of the process, whether a payload is held, and  *)
(* a gate that opens once and not before every status is settled, unless   *)
(* the process is already stopping.                                        *)
(***************************************************************************)
CONSTANTS
  Sources, Enabled,
  Pinned    \* sources whose payload, once held, is never given up

VARIABLES
  alive, stopping, open,
  status,   \* "pending", "succeeded" or "failed", per source
  held      \* a payload is held for the source

gateVars == <<alive, stopping, open, status, held>>

Unsettled == [s \in Sources |-> IF s \in Enabled THEN "pending" ELSE "succeeded"]

Init ==
  /\ ~alive /\ ~stopping /\ ~open
  /\ status = Unsettled
  /\ held = [s \in Sources |-> FALSE]

\* A life begins with whatever payloads the previous ones left behind.
Begin ==
  /\ ~alive /\ alive'
  /\ ~stopping' /\ ~open'
  /\ status' = Unsettled
  /\ held' \in [Sources -> BOOLEAN]

End ==
  /\ alive /\ ~alive'
  /\ ~stopping' /\ ~open'
  /\ status' = Unsettled
  /\ held' = [s \in Sources |-> FALSE]

Stop ==
  /\ alive /\ ~stopping /\ stopping'
  /\ UNCHANGED <<alive, open, status, held>>

Obtain(s) ==
  /\ alive /\ s \in Enabled
  /\ held' = [held EXCEPT ![s] = TRUE]
  /\ UNCHANGED <<alive, stopping, open, status>>

\* A source turns green only while its payload is held: at the end of its
\* bootstrap, or later if that had failed.
TurnGreen(s) ==
  /\ alive /\ s \in Enabled
  /\ status[s] # "succeeded" /\ held[s]
  /\ status' = [status EXCEPT ![s] = "succeeded"]
  /\ UNCHANGED <<alive, stopping, open, held>>

GiveUp(s) ==
  /\ alive /\ ~open /\ s \in Enabled
  /\ status[s] = "pending"
  /\ status' = [status EXCEPT ![s] = "failed"]
  /\ UNCHANGED <<alive, stopping, open, held>>

\* A payload is given up only after the bootstrap of its source.
Lose(s) ==
  /\ alive /\ s \in Enabled \ Pinned
  /\ status[s] # "pending"
  /\ held' = [held EXCEPT ![s] = FALSE]
  /\ UNCHANGED <<alive, stopping, open, status>>

Open ==
  /\ alive /\ ~open /\ open'
  /\ stopping \/ \A s \in Enabled : status[s] # "pending"
  /\ UNCHANGED <<alive, stopping, status, held>>

Next ==
  \/ Begin \/ End \/ Stop \/ Open
  \/ \E s \in Sources : Obtain(s) \/ TurnGreen(s) \/ GiveUp(s) \/ Lose(s)

Spec == Init /\ [][Next]_gateVars
=============================================================================
