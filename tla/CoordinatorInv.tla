--------------------------- MODULE CoordinatorInv ---------------------------
(***************************************************************************)
(* The inductive invariant behind the safety properties of Coordinator:    *)
(* what each position of a source's goroutine implies about its bootstrap  *)
(* state, its outcome, its payload and the payload's age.                  *)
(***************************************************************************)
EXTENDS Coordinator

\* Only a running process has goroutines, and only for its enabled rows.
Lifecycle ==
  /\ ready => up /\ \A s \in Enabled : done[s]
  /\ \A s \in Sources : (pc[s] = "off") <=> (~up \/ s \notin Enabled)

\* Where the goroutine is and what it has recorded.
Control(s) ==
  /\ pc[s] \in {"off", "attempt", "delay", "release"} => ~done[s]
  /\ pc[s] \in {"wait", "hold", "exited"} => done[s]
  /\ pc[s] = "exited" => cancelled
  /\ pc[s] = "delay" => attempt[s] < MaxAttempts
  /\ pc[s] = "hold" => RefreshDisabled(s)
  /\ done[s] /\ RefreshDisabled(s) => pc[s] \in {"hold", "exited"}
  /\ s \in Enabled /\ ~done[s] /\ pc[s] # "release" => boot[s] = "pending"
  /\ pc[s] = "release" => boot[s] # "pending"
  /\ done[s] /\ pc[s] # "exited" => boot[s] # "pending"

\* What the last refresh left in the cache.
Result(s) ==
  /\ pc[s] = "persist" => Has(s) /\ ~lastFailed[s] /\ outcome[s] = "success"
  /\ pc[s] = "ok" => Has(s)
  /\ pc[s] = "err" => IF lastFailed[s] THEN outcome[s] = "error"
                      ELSE Has(s) /\ outcome[s] = "success"
  /\ s \in Enabled /\ pc[s] # "persist" /\ outcome[s] = "success" => Has(s)

\* How long a goroutine stays where it is, and where its ticker stands.
Timing(s) ==
  /\ pc[s] = "fetch" => elapsed[s] <= FetchTimeout
  /\ pc[s] \in {"persist", "ok", "err", "release", "wait"} => elapsed[s] <= Latency
  /\ HasTicker(s) => tick[s] \in 1..TtlFor(s)

\* A nil error of refresh vouches for a payload this young.
YoungBound(s) == Larger(FetchTimeout + Latency, FetchTtlFor(s) - 1)

\* The age of the payload, position by position, after a fresh result ...
Young(s) ==
  /\ pc[s] = "persist" => mem[s].age <= FetchTimeout + elapsed[s]
  /\ pc[s] = "err" /\ ~lastFailed[s] => mem[s].age <= FetchTimeout + Latency + elapsed[s]
  /\ pc[s] = "ok" => mem[s].age <= YoungBound(s) + elapsed[s]
  /\ pc[s] = "release" /\ boot[s] = "succeeded"
       => Has(s) /\ mem[s].age <= YoungBound(s) + Latency + elapsed[s]

\* ... when a fetch is needed or has failed ...
Expired(s) ==
  /\ pc[s] = "fetch" /\ Has(s) => mem[s].age >= FetchTtlFor(s)
  /\ pc[s] = "err" /\ lastFailed[s] /\ Has(s) => mem[s].age >= FetchTtlFor(s)

\* ... and while a green source goes round the ticker loop.
Aging(s) ==
  done[s] /\ ~RefreshDisabled(s) /\ ~cancelled /\ boot[s] = "succeeded" /\ Has(s) =>
    /\ pc[s] = "wait" /\ ~tickC[s] => mem[s].age <= KeepBound(s) + TtlFor(s) - tick[s]
    /\ pc[s] = "wait" /\ tickC[s] => mem[s].age <= KeepBound(s) + TtlFor(s) + elapsed[s]
    /\ pc[s] = "fetch" => mem[s].age <= KeepBound(s) + TtlFor(s) + Latency + elapsed[s]
    /\ pc[s] = "err" /\ lastFailed[s] =>
         mem[s].age <= KeepBound(s) + TtlFor(s) + Latency + FetchTimeout + elapsed[s]

\* The snapshot on disk is older than the fetch under way.
Snapshot(s) ==
  disk[s] # NoPayload =>
    /\ Has(s) => mem[s].age <= disk[s].age
    /\ pc[s] = "fetch" => elapsed[s] <= disk[s].age

\* What refresh, runSteady and the ticker maintain together; none of the
\* safety properties of Coordinator is inductive without it.
IndInv ==
  /\ TypeOK
  /\ Lifecycle
  /\ \A s \in Sources : /\ Control(s) /\ Result(s) /\ Timing(s)
                        /\ Young(s) /\ Expired(s) /\ Aging(s) /\ Snapshot(s)
=============================================================================
