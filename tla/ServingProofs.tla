--------------------------- MODULE ServingProofs ---------------------------
(***************************************************************************)
(* Proofs about Serving, for any number of requests and sources.  The      *)
(* handlers lock nothing across their reads, so each proof is about what   *)
(* the coordinator cannot undo while a request is in flight: within one    *)
(* life of the process Ready stays closed, a green source stays green and  *)
(* the payload of a source that is never refreshed stays as it is.         *)
(***************************************************************************)
EXTENDS Serving, CoordinatorProofs, SequenceTheorems

\* A source that is never refreshed and turned green has its payload.
Kept == \A s \in Sources : RefreshDisabled(s) /\ done[s] /\ boot[s] = "succeeded" => Has(s)

\* Handlers only read: the composed system is the coordinator, interleaved.
LEMMA StepOfCoordinator == [ServingNext]_sysVars => [Next]_vars
BY Zenon DEF ServingNext, SystemStep, Listen, Shutdown, Arrive, HandlerStep, CheckReady, CheckAll,
       WalkBodies, WalkAgain, WalkHeaders, Respond, HealthAll, HealthStates, sysVars, vars

\* The composition has the coordinator's behaviours and no others.
THEOREM ServingIsCoordinator == ServingSpec => Spec
<1>1. ServingInit => Init
  BY DEF ServingInit
<1>2. QED
  BY <1>1, StepOfCoordinator, PTL DEF ServingSpec, Spec

\* The goroutine of a source that is never refreshed, once released, only exits.
LEMMA HeldGoroutine ==
  ASSUME IndInv, NEW s \in Sources, RefreshDisabled(s), done[s], GoroutineStep(s)
  PROVE  StopSteady(s)
<1>1. pc[s] \in {"hold", "exited"}
  BY DEF IndInv, Control
<1>2. QED
  BY <1>1, Zenon
  DEF GoroutineStep, AbandonBootstrap, Attempt, FetchOk, FetchFail, PersistOk,
      PersistFail, BootstrapOk, BootstrapRetry, BootstrapGiveUp, DelayOver, Release,
      Wake, SteadyOk, SteadyErr, At

\* A goroutine touches the cache entry and the state of its own source only.
LEMMA OtherSource ==
  ASSUME IndInv, NEW s \in Sources, NEW t \in Sources, s # t, GoroutineStep(t)
  PROVE  mem'[s] = mem[s] /\ boot'[s] = boot[s] /\ done'[s] = done[s]
BY Zenon DEF GoroutineStep, AbandonBootstrap, Attempt, FetchOk, FetchFail, PersistOk,
      PersistFail, BootstrapOk, BootstrapRetry, BootstrapGiveUp, DelayOver, Release,
      Wake, SteadyOk, SteadyErr, StopSteady, Set, MarkFailed, MarkBootstrap, Drop,
      cacheVars, IndInv, TypeOK, CacheTypeOK

\* Within one life of the process the payload of a released source that is
\* never refreshed keeps its content.
LEMMA PinnedStays ==
  ASSUME IndInv, [Next]_vars, up, up', NEW s \in Sources, RefreshDisabled(s), done[s]
  PROVE  Get(s)' = Get(s)
<1>1. CASE Startup \/ Exit
  BY <1>1 DEF Startup, Exit
<1>2. CASE Cancel \/ SignalReady \/ UNCHANGED vars
  BY <1>2 DEF Cancel, SignalReady, vars, Get, Has
<1>3. CASE Advance
  <2>1. mem[s] \in Payload \cup {NoPayload} /\ mem'[s] = Older(mem[s])
    BY <1>3 DEF Advance, AgeCache, IndInv, TypeOK, CacheTypeOK
  <2>2. mem[s] # NoPayload => mem'[s].body = mem[s].body
    BY <2>1 DEF Older, Payload
  <2>3. QED
    BY <2>1, <2>2, OlderFacts DEF Get, Has
<1>4. ASSUME NEW t \in Sources, GoroutineStep(t) PROVE Get(s)' = Get(s)
  <2>1. CASE t = s
    BY <1>4, <2>1, HeldGoroutine DEF StopSteady, Get, Has
  <2>2. CASE t # s
    BY <1>4, <2>2, OtherSource DEF Get, Has
  <2>3. QED
    BY <2>1, <2>2
<1>5. QED
  BY <1>1, <1>2, <1>3, <1>4 DEF Next

\* Within one life of the process Ready stays closed and green stays green.
LEMMA VerdictStays ==
  ASSUME IndInv, [Next]_vars, up, up'
  PROVE  /\ ready => ready'
         /\ \A s \in Sources : boot[s] = "succeeded" => boot'[s] = "succeeded"
         /\ \A s \in Sources : done[s] => done'[s]
<1>1. CASE Startup \/ Exit
  BY <1>1 DEF Startup, Exit
<1>2. CASE Cancel \/ SignalReady \/ Advance \/ UNCHANGED vars
  <2>1. Cancel => boot' = boot /\ done' = done /\ (ready => ready')
    BY DEF Cancel
  <2>2. SignalReady => boot' = boot /\ done' = done /\ ready'
    BY DEF SignalReady
  <2>3. Advance => boot' = boot /\ done' = done /\ (ready => ready')
    BY DEF Advance
  <2>4. UNCHANGED vars => boot' = boot /\ done' = done /\ (ready => ready')
    BY DEF vars
  <2>5. boot' = boot /\ done' = done /\ (ready => ready')
    BY <1>2, <2>1, <2>2, <2>3, <2>4
  <2>6. QED
    BY <2>5
<1>3. ASSUME NEW t \in Sources, GoroutineStep(t)
      PROVE  /\ ready' = ready
             /\ \A s \in Sources : boot[s] = "succeeded" => boot'[s] = "succeeded"
             /\ \A s \in Sources : done[s] => done'[s]
  <2>1. BootstrapGiveUp(t) => boot[t] = "pending"
    BY DEF BootstrapGiveUp, At, IndInv, Lifecycle, Control
  <2>2. QED
    BY <1>3, <2>1, Zenon
    DEF GoroutineStep, AbandonBootstrap, Attempt, FetchOk, FetchFail, PersistOk,
      PersistFail, BootstrapOk, BootstrapRetry, BootstrapGiveUp, DelayOver, Release,
      Wake, SteadyOk, SteadyErr, StopSteady, MarkBootstrap, IndInv, TypeOK
<1>4. QED
  BY <1>1, <1>2, <1>3 DEF Next

\* Kept is inductive: bootstrapAndRun releases a green source with its payload.
LEMMA KeptStep ==
  ASSUME IndInv, Kept, [Next]_vars
  PROVE  Kept'
<1> SUFFICES ASSUME NEW s \in Sources, RefreshDisabled(s), done'[s], boot'[s] = "succeeded"
             PROVE  Has(s)'
  BY DEF Kept, RefreshDisabled
<1>1. CASE Startup \/ Exit
  BY <1>1 DEF Startup, Exit, Fresh
<1>2. CASE ~Startup /\ ~Exit /\ done[s]
  <2>1. boot[s] = "succeeded"
    <3>1. CASE Cancel \/ SignalReady \/ Advance \/ UNCHANGED vars
      BY <3>1 DEF Cancel, SignalReady, Advance, vars
    <3>2. ASSUME NEW t \in Sources, GoroutineStep(t) PROVE boot'[s] = boot[s]
      <4>1. CASE t = s
        BY <1>2, <3>2, <4>1, HeldGoroutine DEF StopSteady
      <4>2. CASE t # s
        BY <3>2, <4>2, OtherSource
      <4>3. QED
        BY <4>1, <4>2
    <3>3. QED
      BY <1>2, <3>1, <3>2 DEF Next
  <2>2. (up /\ up') \/ UNCHANGED vars
    <3>1. up
      BY <1>2 DEF IndInv, Lifecycle, Control
    <3>2. up' = up
      BY <1>2, Zenon DEF Next, Cancel, SignalReady, Advance, GoroutineStep, AbandonBootstrap, Attempt,
        FetchOk, FetchFail, PersistOk, PersistFail, BootstrapOk, BootstrapRetry,
        BootstrapGiveUp, DelayOver, Release, Wake, SteadyOk, SteadyErr, StopSteady, vars
    <3>3. QED
      BY <3>1, <3>2
  <2>3. Has(s) /\ Get(s)' = Get(s)
    BY <1>2, <2>1, <2>2, PinnedStays DEF Kept, vars, Get, Has
  <2>4. CASE Advance
    BY <2>3, <2>4, OlderFacts DEF Advance, AgeCache, Has, IndInv, TypeOK, CacheTypeOK
  <2>5. CASE Cancel \/ SignalReady \/ UNCHANGED vars
    BY <2>3, <2>5 DEF Cancel, SignalReady, vars, Has
  <2>6. ASSUME NEW t \in Sources, GoroutineStep(t) PROVE Has(s)'
    <3>1. CASE t = s
      BY <1>2, <2>3, <2>6, <3>1, HeldGoroutine DEF StopSteady, Has
    <3>2. CASE t # s
      BY <2>3, <2>6, <3>2, OtherSource DEF Has
    <3>3. QED
      BY <3>1, <3>2
  <2>7. QED
    BY <1>2, <2>4, <2>5, <2>6 DEF Next
<1>3. CASE ~Startup /\ ~Exit /\ ~done[s]
  <2>1. PICK t \in Sources : GoroutineStep(t)
    BY <1>3 DEF Next, Cancel, SignalReady, Advance, vars
  <2>2. t = s
    BY <1>3, <2>1, OtherSource
  <2>3. AbandonBootstrap(s) \/ Release(s)
    BY <1>3, <2>1, <2>2, Zenon
    DEF GoroutineStep, Attempt, FetchOk, FetchFail, PersistOk, PersistFail, BootstrapOk,
      BootstrapRetry, BootstrapGiveUp, DelayOver, Wake, SteadyOk, SteadyErr, StopSteady
  <2>4. ~AbandonBootstrap(s)
    BY <1>3, Zenon DEF AbandonBootstrap, At, IndInv, Lifecycle, Control
  <2>5. Has(s) /\ mem' = mem
    BY <2>3, <2>4, Zenon DEF Release, At, IndInv, Young
  <2>6. QED
    BY <2>5 DEF Has
<1>4. QED
  BY <1>1, <1>2, <1>3
-----------------------------------------------------------------------------
(* What a request in flight may rely on *)

PinnedRows == {s \in Enabled : RefreshDisabled(s)}

\* The answer agrees with what the request has found.
Answered(r) ==
  /\ at[r] \notin {"idle", "healthStates"} => reply[r] = "none"
  /\ at[r] = "healthStates" => reply[r] \in {"warming_up", "failed", "succeeded"}
  /\ at[r] = "healthStates" /\ reply[r] = "succeeded" => AllSucceeded
  /\ at[r] = "idle" /\ reply[r] = "succeeded" =>
       \A s \in Enabled : states[r][s] = "succeeded"
  /\ reply[r] = "ok" => \A s \in PinnedRows :
       body[r][s] # NoPayload /\ hdr[r][s] = body[r][s]

\* What Build has found for the sources that are never refreshed is what the
\* cache still holds: the rows the first walk is past, and then all of them.
Walked(r) ==
  /\ at[r] \in {"sub", "subAll"} => row[r] = 1
  /\ at[r] \in {"subAll", "healthAll"} => ready
  /\ at[r] \in {"bodies", "headers"} => ready /\ AllSucceeded
  /\ at[r] = "bodies" => \A i \in 1..(row[r] - 1) : RowOrder[i] \in PinnedRows =>
       body[r][RowOrder[i]] = Get(RowOrder[i])
  /\ at[r] = "headers" => \A s \in PinnedRows : body[r][s] = Get(s) /\ Get(s) # NoPayload
  /\ at[r] = "headers" => \A i \in 1..(row[r] - 1) : RowOrder[i] \in PinnedRows =>
       hdr[r][RowOrder[i]] = Get(RowOrder[i])

RequestTypeOK ==
  /\ listener \in {"closed", "open", "shut"}
  /\ at \in [Requests -> {"idle", "sub", "subAll", "bodies", "headers",
                          "health", "healthAll", "healthStates"}]
  /\ row \in [Requests -> 1..(Len(RowOrder) + 1)]
  /\ body \in [Requests -> [Sources -> Bodies \cup {NoPayload}]]
  /\ hdr \in [Requests -> [Sources -> Bodies \cup {NoPayload}]]
  /\ reply \in [Requests -> Replies]
  /\ states \in [Requests -> [Sources -> {"pending", "succeeded", "failed"}]]

\* The invariant of the composition: only a running process has a listener and
\* requests, and each request's findings still hold.
ServingInv ==
  /\ IndInv /\ Kept /\ RequestTypeOK
  /\ ~up => listener = "closed" /\ \A r \in Requests : at[r] = "idle" /\ reply[r] = "none"
  /\ \A r \in Requests : Answered(r) /\ Walked(r)

\* What Get returns is a content or nothing.
LEMMA GetType ==
  ASSUME IndInv, NEW s \in Sources
  PROVE  /\ Get(s) \in Bodies \cup {NoPayload}
         /\ RowOrder \in Seq(Enabled) /\ Len(RowOrder) \in Nat /\ Enabled \subseteq Sources
<1>1. mem[s] \in Payload \cup {NoPayload}
  BY DEF IndInv, TypeOK, CacheTypeOK
<1>2. QED
  BY <1>1, ServingAssumption, CoordinatorAssumption, LenProperties DEF Get, Has, Payload

\* Behind the open gate a source that is never refreshed has a payload.
LEMMA PinnedHas ==
  ASSUME IndInv, Kept, ready, AllSucceeded, NEW s \in PinnedRows
  PROVE  s \in Sources /\ done[s] /\ Has(s)
BY DurationFacts DEF PinnedRows, IndInv, Lifecycle, Kept, AllSucceeded

\* Where Get finds a payload it returns its content.
LEMMA GetSome ==
  ASSUME IndInv, NEW s \in Sources, Has(s)
  PROVE  Get(s) # NoPayload
BY ServingAssumption DEF Get, Has, IndInv, TypeOK, CacheTypeOK, Payload

\* The other requests do not notice a step of one.
LocalTo(r) ==
  \A q \in Requests \ {r} :
    /\ at'[q] = at[q] /\ row'[q] = row[q] /\ body'[q] = body[q] /\ hdr'[q] = hdr[q]
    /\ reply'[q] = reply[q] /\ states'[q] = states[q]

\* A step of one handler keeps the invariant if it does so for its request.
LEMMA RequestStep ==
  ASSUME ServingInv, UNCHANGED vars, up, listener' = listener, NEW r \in Requests,
         LocalTo(r), RequestTypeOK', Answered(r)', Walked(r)'
  PROVE  ServingInv'
<1>1. IndInv' /\ Kept'
  BY NextInv, KeptStep DEF ServingInv
<1>2. up' /\ ready' = ready /\ AllSucceeded' = AllSucceeded /\ mem' = mem
  BY DEF vars, AllSucceeded
<1>3. ASSUME NEW q \in Requests \ {r} PROVE Answered(q)' /\ Walked(q)'
  <2>1. Answered(q) /\ Walked(q)
    BY DEF ServingInv
  <2>2. /\ at'[q] = at[q] /\ row'[q] = row[q] /\ body'[q] = body[q] /\ hdr'[q] = hdr[q]
        /\ reply'[q] = reply[q] /\ states'[q] = states[q]
    BY <1>3 DEF LocalTo
  <2>3. \A s : Get(s)' = Get(s)
    BY <1>2 DEF Get, Has
  <2>4. Answered(q)'
    BY <1>2, <2>1, <2>2 DEF Answered, PinnedRows, RefreshDisabled
  <2>5. Walked(q)'
    BY <1>2, <2>1, <2>2, <2>3, Zenon DEF Walked, PinnedRows, RefreshDisabled
  <2>6. QED
    BY <2>4, <2>5
<1>4. QED
  BY <1>1, <1>2, <1>3 DEF ServingInv

\* A request that is in flight, or arrives, finds the process running.
LEMMA InFlight ==
  ASSUME ServingInv, NEW r \in Requests, at[r] # "idle" \/ listener # "closed"
  PROVE  up
BY DEF ServingInv

\* A new request starts with nothing found.
LEMMA ArriveStep ==
  ASSUME ServingInv, NEW r \in Requests, NEW handler \in {"sub", "health"},
         Arrive(r, handler)
  PROVE  ServingInv'
<1>1. up /\ UNCHANGED vars /\ listener' = listener
  BY InFlight DEF Arrive
<1>2. RequestTypeOK'
  BY LenProperties, ServingAssumption DEF Arrive, ServingInv, RequestTypeOK, Nothing, Replies
<1>3. LocalTo(r) /\ at'[r] = handler /\ reply'[r] = "none"
  BY DEF Arrive, LocalTo, ServingInv, RequestTypeOK
<1>4. row'[r] = 1
  BY DEF Arrive, ServingInv, RequestTypeOK
<1>5. Answered(r)' /\ Walked(r)'
  <2>1. Answered(r)'
    BY <1>3, <1>4 DEF Answered
  <2>2. Walked(r)'
    BY <1>3, <1>4 DEF Walked
  <2>3. QED
    BY <2>1, <2>2
<1>6. QED
  BY <1>1, <1>2, <1>3, <1>5, RequestStep

\* The select on Ready.
LEMMA CheckReadyStep ==
  ASSUME ServingInv, NEW r \in Requests, CheckReady(r)
  PROVE  ServingInv'
<1>1. up /\ UNCHANGED vars /\ listener' = listener
  BY InFlight DEF CheckReady
<1>2. RequestTypeOK'
  BY Zenon DEF CheckReady, Answer, ServingInv, RequestTypeOK, Replies
<1>3. LocalTo(r)
  BY DEF CheckReady, Answer, LocalTo, ServingInv, RequestTypeOK
<1>4. reply[r] = "none" /\ (at[r] = "sub" => row[r] = 1) /\ row'[r] = row[r]
  BY DEF CheckReady, ServingInv, Answered, Walked
<1>5. \/ at'[r] = "subAll" /\ at[r] = "sub" /\ ready /\ reply'[r] = "none"
      \/ at'[r] = "healthAll" /\ ready /\ reply'[r] = "none"
      \/ at'[r] \in {"idle", "healthStates"} /\ reply'[r] = "warming_up"
  BY <1>4 DEF CheckReady, Answer, ServingInv, RequestTypeOK
<1>6. Answered(r)' /\ Walked(r)'
  <2>1. Answered(r)'
    BY <1>1, <1>4, <1>5, Zenon DEF Answered, vars
  <2>2. Walked(r)'
    BY <1>1, <1>4, <1>5 DEF Walked, vars
  <2>3. QED
    BY <2>1, <2>2
<1>7. QED
  BY <1>1, <1>2, <1>3, <1>6, RequestStep

\* AllSucceeded opens the way to Build, whose first walk starts at row 1.
LEMMA CheckAllStep ==
  ASSUME ServingInv, NEW r \in Requests, CheckAll(r)
  PROVE  ServingInv'
<1>1. up /\ UNCHANGED vars /\ listener' = listener
  BY InFlight DEF CheckAll
<1>2. RequestTypeOK'
  BY Zenon DEF CheckAll, Answer, ServingInv, RequestTypeOK, Replies
<1>3. LocalTo(r)
  BY DEF CheckAll, Answer, LocalTo, ServingInv, RequestTypeOK
<1>4. reply[r] = "none" /\ ready /\ row'[r] = 1
  BY DEF CheckAll, ServingInv, Answered, Walked
<1>5. \/ at'[r] = "bodies" /\ AllSucceeded /\ reply'[r] = "none"
      \/ at'[r] = "idle" /\ reply'[r] = "failed"
  BY <1>4 DEF CheckAll, Answer, ServingInv, RequestTypeOK
<1>6. ready' /\ AllSucceeded' = AllSucceeded
  BY <1>1, <1>4 DEF vars, AllSucceeded
<1>7. Answered(r)' /\ Walked(r)'
  <2>1. Answered(r)'
    BY <1>4, <1>5, <1>6 DEF Answered
  <2>2. (1..(1 - 1)) = {}
    OBVIOUS
  <2>3. Walked(r)'
    BY <1>4, <1>5, <1>6, <2>2 DEF Walked
  <2>4. QED
    BY <2>1, <2>3
<1>8. QED
  BY <1>1, <1>2, <1>3, <1>7, RequestStep

\* The row a walk is at is an enabled source.
LEMMA RowFound ==
  ASSUME ServingInv, NEW r \in Requests, Walking(r)
  PROVE  /\ Row(r) \in Sources /\ row[r] \in 1..Len(RowOrder)
         /\ Len(RowOrder) \in Nat /\ row[r] + 1 \in 1..(Len(RowOrder) + 1)
<1>1. RowOrder \in Seq(Enabled) /\ Len(RowOrder) \in Nat /\ Enabled \subseteq Sources
  BY ServingAssumption, CoordinatorAssumption, LenProperties
<1>2. row[r] \in 1..Len(RowOrder)
  <2>1. row[r] \in 1..(Len(RowOrder) + 1) /\ row[r] <= Len(RowOrder)
    BY DEF ServingInv, RequestTypeOK, Walking
  <2>2. QED
    BY <1>1, <2>1
<1>3. RowOrder[row[r]] \in Enabled
  BY <1>1, <1>2, ElementOfSeq
<1>4. QED
  BY <1>1, <1>2, <1>3 DEF Row

\* Build's first walk finds what stays in the cache.
LEMMA WalkBodiesStep ==
  ASSUME ServingInv, NEW r \in Requests, WalkBodies(r)
  PROVE  ServingInv'
<1>1. up /\ UNCHANGED vars /\ listener' = listener
  BY InFlight DEF WalkBodies
<1>2. Row(r) \in Sources /\ Get(Row(r)) \in Bodies \cup {NoPayload}
  BY RowFound, GetType DEF WalkBodies, ServingInv
<1>3. RequestTypeOK'
  BY <1>2, RowFound DEF WalkBodies, ServingInv, RequestTypeOK
<1>4. LocalTo(r)
  BY DEF WalkBodies, LocalTo, ServingInv, RequestTypeOK
<1>5. /\ at[r] = "bodies" /\ at'[r] = "bodies" /\ reply'[r] = reply[r] /\ reply[r] = "none"
      /\ ready /\ AllSucceeded
  BY DEF WalkBodies, ServingInv, Answered, Walked
<1>6. ready' /\ AllSucceeded'
  BY <1>1, <1>5 DEF vars, AllSucceeded
<1>7. ASSUME NEW i \in 1..(row'[r] - 1), RowOrder[i] \in PinnedRows
      PROVE  body'[r][RowOrder[i]] = Get(RowOrder[i])
  <2>1. row'[r] = row[r] + 1 /\ row[r] \in 1..Len(RowOrder) /\ Len(RowOrder) \in Nat
    BY RowFound DEF WalkBodies, ServingInv, RequestTypeOK
  <2>2. body'[r] = [body[r] EXCEPT ![Row(r)] = Get(Row(r))]
    BY DEF WalkBodies, ServingInv, RequestTypeOK
  <2>3. RowOrder[i] \in Sources /\ body[r] \in [Sources -> Bodies \cup {NoPayload}]
    BY <1>7, CoordinatorAssumption DEF PinnedRows, ServingInv, RequestTypeOK
  <2>4. CASE RowOrder[i] = Row(r)
    BY <2>2, <2>3, <2>4
  <2>5. CASE RowOrder[i] # Row(r)
    <3>1. i \in 1..(row[r] - 1)
      BY <2>1, <2>5 DEF Row
    <3>2. body[r][RowOrder[i]] = Get(RowOrder[i])
      BY <1>5, <1>7, <3>1 DEF ServingInv, Walked
    <3>3. QED
      BY <2>2, <2>3, <2>5, <3>2
  <2>6. QED
    BY <2>4, <2>5
<1>8. \A s : Get(s)' = Get(s)
  BY <1>1 DEF vars, Get, Has
<1>9. Answered(r)' /\ Walked(r)'
  <2>1. Answered(r)'
    BY <1>5, <1>6, <1>7, <1>8, Zenon DEF Answered, PinnedRows, RefreshDisabled
  <2>2. Walked(r)'
    BY <1>5, <1>6, <1>7, <1>8, Zenon DEF Walked, PinnedRows, RefreshDisabled
  <2>3. QED
    BY <2>1, <2>2
<1>10. QED
  BY <1>1, <1>3, <1>4, <1>9, RequestStep

\* At the end of the first walk every source that is never refreshed has been
\* found, because the gate is open and the row order names every enabled row.
LEMMA WalkAgainStep ==
  ASSUME ServingInv, NEW r \in Requests, WalkAgain(r)
  PROVE  ServingInv'
<1>1. up /\ UNCHANGED vars /\ listener' = listener
  BY InFlight DEF WalkAgain
<1>2. RequestTypeOK'
  BY LenProperties, ServingAssumption DEF WalkAgain, ServingInv, RequestTypeOK
<1>3. LocalTo(r)
  BY DEF WalkAgain, LocalTo, ServingInv, RequestTypeOK
<1>4. /\ at[r] = "bodies" /\ at'[r] = "headers" /\ reply'[r] = reply[r] /\ reply[r] = "none"
      /\ row'[r] = 1 /\ body'[r] = body[r] /\ ready /\ AllSucceeded
  <2>1. /\ at[r] = "bodies" /\ at'[r] = "headers" /\ reply' = reply
        /\ row'[r] = 1 /\ body' = body
    BY DEF WalkAgain, ServingInv, RequestTypeOK
  <2>2. Answered(r) /\ Walked(r)
    BY DEF ServingInv
  <2>3. QED
    BY <2>1, <2>2 DEF Answered, Walked
<1>5. ready' /\ AllSucceeded' /\ \A s : Get(s)' = Get(s)
  BY <1>1, <1>4 DEF vars, AllSucceeded, Get, Has
<1>6. ASSUME NEW s \in PinnedRows PROVE body[r][s] = Get(s) /\ Get(s) # NoPayload
  <2>1. PICK i \in DOMAIN RowOrder : RowOrder[i] = s
    BY ServingAssumption DEF PinnedRows
  <2>2. Len(RowOrder) \in Nat /\ i \in 1..Len(RowOrder)
    BY ServingAssumption, LenProperties
  <2>3. i \in 1..(row[r] - 1)
    BY <2>2 DEF WalkAgain, Walking, ServingInv, RequestTypeOK
  <2>4. body[r][s] = Get(s)
    BY <1>4, <2>1, <2>3 DEF ServingInv, Walked
  <2>5. QED
    BY <1>4, <2>4, PinnedHas, GetSome DEF ServingInv
<1>7. Answered(r)' /\ Walked(r)'
  <2>1. Answered(r)'
    BY <1>4 DEF Answered
  <2>2. PinnedRows' = PinnedRows /\ (1..(row'[r] - 1)) = {}
    BY <1>4 DEF PinnedRows, RefreshDisabled
  <2>3. \A s \in PinnedRows : body'[r][s] = Get(s)' /\ Get(s)' # NoPayload
    BY <1>4, <1>5, <1>6, Zenon
  <2>4. Walked(r)'
    BY <1>4, <1>5, <2>2, <2>3, Zenon DEF Walked
  <2>5. QED
    BY <2>1, <2>4
<1>8. QED
  BY <1>1, <1>2, <1>3, <1>7, RequestStep

\* Build's second walk finds the same payloads again.
LEMMA WalkHeadersStep ==
  ASSUME ServingInv, NEW r \in Requests, WalkHeaders(r)
  PROVE  ServingInv'
<1> DEFINE found == IF body[r][Row(r)] = NoPayload THEN NoPayload ELSE Get(Row(r))
<1>1. up /\ UNCHANGED vars /\ listener' = listener
  BY InFlight DEF WalkHeaders
<1>2. Row(r) \in Sources /\ Get(Row(r)) \in Bodies \cup {NoPayload}
  BY RowFound, GetType DEF WalkHeaders, ServingInv
<1>3. RequestTypeOK'
  BY <1>2, RowFound DEF WalkHeaders, ServingInv, RequestTypeOK
<1>4. LocalTo(r)
  BY DEF WalkHeaders, LocalTo, ServingInv, RequestTypeOK
<1>5. /\ at[r] = "headers" /\ at'[r] = "headers" /\ reply'[r] = reply[r] /\ reply[r] = "none"
      /\ body' = body /\ ready /\ AllSucceeded
      /\ \A s \in PinnedRows : body[r][s] = Get(s) /\ Get(s) # NoPayload
  BY DEF WalkHeaders, ServingInv, Answered, Walked
<1>6. ready' /\ AllSucceeded' /\ \A s : Get(s)' = Get(s)
  BY <1>1, <1>5, Zenon DEF vars, AllSucceeded, Get, Has
<1>7. ASSUME NEW i \in 1..(row'[r] - 1), RowOrder[i] \in PinnedRows
      PROVE  hdr'[r][RowOrder[i]] = Get(RowOrder[i])
  <2>1. row'[r] = row[r] + 1 /\ row[r] \in 1..Len(RowOrder) /\ Len(RowOrder) \in Nat
    BY RowFound DEF WalkHeaders, ServingInv, RequestTypeOK
  <2>2. hdr'[r] = [hdr[r] EXCEPT ![Row(r)] = found]
    BY DEF WalkHeaders, ServingInv, RequestTypeOK
  <2>3. RowOrder[i] \in Sources /\ hdr[r] \in [Sources -> Bodies \cup {NoPayload}]
    BY <1>7, CoordinatorAssumption DEF PinnedRows, ServingInv, RequestTypeOK
  <2>4. CASE RowOrder[i] = Row(r)
    BY <1>5, <1>7, <2>2, <2>3, <2>4, Zenon
  <2>5. CASE RowOrder[i] # Row(r)
    <3>1. i \in 1..(row[r] - 1)
      BY <2>1, <2>5 DEF Row
    <3>2. hdr[r][RowOrder[i]] = Get(RowOrder[i])
      BY <1>5, <1>7, <3>1, Zenon DEF ServingInv, Walked
    <3>3. QED
      BY <2>2, <2>3, <2>5, <3>2, Zenon
  <2>6. QED
    BY <2>4, <2>5
<1>8. Answered(r)' /\ Walked(r)'
  <2>1. Answered(r)'
    BY <1>5, <1>6, <1>7, Zenon DEF Answered, PinnedRows, RefreshDisabled
  <2>2. Walked(r)'
    BY <1>5, <1>6, <1>7, Zenon DEF Walked, PinnedRows, RefreshDisabled
  <2>3. QED
    BY <2>1, <2>2
<1>9. QED
  BY <1>1, <1>3, <1>4, <1>8, RequestStep

\* The 200 answer carries what both walks found.
LEMMA RespondStep ==
  ASSUME ServingInv, NEW r \in Requests, Respond(r)
  PROVE  ServingInv'
<1>1. up /\ UNCHANGED vars /\ listener' = listener
  BY InFlight DEF Respond
<1>2. RequestTypeOK'
  BY DEF Respond, Answer, ServingInv, RequestTypeOK, Replies
<1>3. LocalTo(r)
  BY DEF Respond, Answer, LocalTo, ServingInv, RequestTypeOK
<1>4. at'[r] = "idle" /\ reply'[r] = "ok" /\ body' = body /\ hdr' = hdr
  BY DEF Respond, Answer, ServingInv, RequestTypeOK
<1>5. ASSUME NEW s \in PinnedRows PROVE body[r][s] # NoPayload /\ hdr[r][s] = body[r][s]
  <2>1. PICK i \in DOMAIN RowOrder : RowOrder[i] = s
    BY ServingAssumption DEF PinnedRows
  <2>2. Len(RowOrder) \in Nat /\ i \in 1..Len(RowOrder)
    BY ServingAssumption, LenProperties
  <2>3. i \in 1..(row[r] - 1)
    BY <2>2 DEF Respond, Walking, ServingInv, RequestTypeOK
  <2>4. QED
    BY <2>1, <2>3, Zenon DEF Respond, ServingInv, Walked
<1>6. Answered(r)' /\ Walked(r)'
  <2>1. Answered(r)'
    BY <1>4, <1>5, Zenon DEF Answered, PinnedRows, RefreshDisabled
  <2>2. Walked(r)'
    BY <1>4, <1>5, Zenon DEF Walked, PinnedRows, RefreshDisabled
  <2>3. QED
    BY <2>1, <2>2
<1>7. QED
  BY <1>1, <1>2, <1>3, <1>6, RequestStep

\* GET /health: the verdict is taken first ...
LEMMA HealthAllStep ==
  ASSUME ServingInv, NEW r \in Requests, HealthAll(r)
  PROVE  ServingInv'
<1>1. up /\ UNCHANGED vars /\ listener' = listener
  BY InFlight DEF HealthAll
<1>2. RequestTypeOK'
  BY DEF HealthAll, ServingInv, RequestTypeOK, Replies
<1>3. LocalTo(r)
  BY DEF HealthAll, LocalTo, ServingInv, RequestTypeOK
<1>4. /\ at'[r] = "healthStates"
      /\ reply'[r] = IF AllSucceeded THEN "succeeded" ELSE "failed"
  BY DEF HealthAll, ServingInv, RequestTypeOK
<1>5. AllSucceeded' = AllSucceeded
  BY <1>1 DEF vars, AllSucceeded
<1>6. Answered(r)' /\ Walked(r)'
  <2>1. Answered(r)'
    BY <1>4, <1>5, Zenon DEF Answered
  <2>2. Walked(r)'
    BY <1>4, <1>5, Zenon DEF Walked
  <2>3. QED
    BY <2>1, <2>2
<1>7. QED
  BY <1>1, <1>2, <1>3, <1>6, RequestStep

\* ... and the states are read later, when the verdict still holds.
LEMMA HealthStatesStep ==
  ASSUME ServingInv, NEW r \in Requests, HealthStates(r)
  PROVE  ServingInv'
<1>1. up /\ UNCHANGED vars /\ listener' = listener
  BY InFlight DEF HealthStates
<1>2. RequestTypeOK'
  BY DEF HealthStates, ServingInv, RequestTypeOK, IndInv, TypeOK
<1>3. LocalTo(r)
  BY DEF HealthStates, LocalTo, ServingInv, RequestTypeOK
<1>4. at'[r] = "idle" /\ reply' = reply /\ states'[r] = boot
  BY DEF HealthStates, ServingInv, RequestTypeOK
<1>5. reply[r] # "ok" /\ (reply[r] = "succeeded" => AllSucceeded)
  BY DEF HealthStates, ServingInv, Answered
<1>6. Answered(r)' /\ Walked(r)'
  <2>1. Answered(r)'
    BY <1>4, <1>5, Zenon DEF Answered, AllSucceeded
  <2>2. Walked(r)'
    BY <1>4, Zenon DEF Walked
  <2>3. QED
    BY <2>1, <2>2
<1>7. QED
  BY <1>1, <1>2, <1>3, <1>6, RequestStep

\* No step of a goroutine, of the process or of time undoes what a request in
\* flight relies on.
LEMMA SystemStepStep ==
  ASSUME ServingInv, SystemStep
  PROVE  ServingInv'
<1>1. IndInv' /\ Kept'
  BY NextInv, KeptStep, Zenon DEF ServingInv, SystemStep
<1>2. CASE ~up'
  <2>1. RequestTypeOK'
    BY <1>1, <1>2, LenProperties, ServingAssumption
    DEF SystemStep, RequestTypeOK, Nothing, Replies, IndInv, TypeOK
  <2>2. ASSUME NEW r \in Requests PROVE Answered(r)' /\ Walked(r)'
    <3>1. at'[r] = "idle" /\ reply'[r] = "none"
      BY <1>2 DEF SystemStep
    <3>2. Answered(r)'
      BY <3>1 DEF Answered
    <3>3. Walked(r)'
      BY <3>1 DEF Walked
    <3>4. QED
      BY <3>2, <3>3
  <2>3. QED
    BY <1>1, <1>2, <2>1, <2>2, Zenon DEF SystemStep, ServingInv
<1>3. CASE up' /\ ~up
  <2>1. UNCHANGED reqVars
    BY <1>3 DEF SystemStep
  <2>2. RequestTypeOK' /\ \A r \in Requests : at'[r] = "idle" /\ reply'[r] = "none"
    BY <1>3, <2>1 DEF reqVars, ServingInv, RequestTypeOK
  <2>3. \A r \in Requests : Answered(r)' /\ Walked(r)'
    BY <2>2, Zenon DEF Answered, Walked
  <2>4. QED
    BY <1>1, <1>3, <2>2, <2>3, Zenon DEF ServingInv
<1>4. CASE up' /\ up
  <2>1. /\ listener' = listener /\ at' = at /\ row' = row /\ body' = body /\ hdr' = hdr
        /\ reply' = reply /\ states' = states
    BY <1>4 DEF SystemStep, reqVars
  <2>2. RequestTypeOK'
    BY <2>1 DEF ServingInv, RequestTypeOK
  <2>3. (ready => ready') /\ (AllSucceeded => AllSucceeded')
    BY <1>4, VerdictStays, DurationFacts, Zenon DEF ServingInv, SystemStep, AllSucceeded
  <2>4. ASSUME ready, NEW s \in PinnedRows PROVE Get(s)' = Get(s)
    <3>1. s \in Sources /\ RefreshDisabled(s) /\ done[s]
      BY <2>4, DurationFacts, Zenon DEF PinnedRows, ServingInv, IndInv, Lifecycle
    <3>2. QED
      BY <1>4, <3>1, PinnedStays DEF ServingInv, SystemStep
  <2>5. ASSUME NEW r \in Requests PROVE Answered(r)' /\ Walked(r)'
    <3>1. Answered(r) /\ Walked(r)
      BY DEF ServingInv
    <3>2. Answered(r)'
      BY <2>1, <2>3, <3>1, Zenon DEF Answered, PinnedRows, RefreshDisabled
    <3>3. Walked(r)'
      BY <2>1, <2>3, <2>4, <3>1, Zenon DEF Walked, PinnedRows, RefreshDisabled
    <3>4. QED
      BY <3>2, <3>3
  <2>6. QED
    BY <1>1, <1>4, <2>2, <2>5, Zenon DEF ServingInv
<1>5. QED
  BY <1>2, <1>3, <1>4

\* Opening and closing the listener.
LEMMA ListenerStep ==
  ASSUME ServingInv, Listen \/ Shutdown
  PROVE  ServingInv'
<1>1. up /\ UNCHANGED vars /\ listener' \in {"open", "shut"}
  BY Zenon DEF Listen, Shutdown, ServingInv
<1>2. IndInv' /\ Kept'
  BY <1>1, NextInv, KeptStep DEF ServingInv
<1>3. RequestTypeOK'
  BY <1>1 DEF Listen, Shutdown, ServingInv, RequestTypeOK
<1>4. up' /\ ready' = ready /\ AllSucceeded' = AllSucceeded /\ mem' = mem
  BY <1>1 DEF vars, AllSucceeded
<1>5. /\ at' = at /\ row' = row /\ body' = body /\ hdr' = hdr
      /\ reply' = reply /\ states' = states
  BY DEF Listen, Shutdown
<1>6. ASSUME NEW r \in Requests PROVE Answered(r)' /\ Walked(r)'
  <2>1. Answered(r) /\ Walked(r)
    BY DEF ServingInv
  <2>2. Answered(r)'
    BY <1>4, <1>5, <2>1, Zenon DEF Answered, PinnedRows, RefreshDisabled
  <2>3. Walked(r)'
    BY <1>4, <1>5, <2>1, Zenon DEF Walked, PinnedRows, RefreshDisabled, Get, Has
  <2>4. QED
    BY <2>2, <2>3
<1>7. QED
  BY <1>2, <1>3, <1>4, <1>6, Zenon DEF ServingInv

\* Nothing happens.
LEMMA ServingStutter ==
  ASSUME ServingInv, UNCHANGED sysVars
  PROVE  ServingInv'
<1>1. UNCHANGED vars /\ UNCHANGED reqVars
  BY DEF sysVars
<1>2. IndInv' /\ Kept'
  BY <1>1, NextInv, KeptStep DEF ServingInv
<1>3. RequestTypeOK'
  BY <1>1 DEF reqVars, ServingInv, RequestTypeOK
<1>4. ASSUME NEW r \in Requests PROVE Answered(r)' /\ Walked(r)'
  <2>1. Answered(r) /\ Walked(r)
    BY DEF ServingInv
  <2>2. Answered(r)'
    BY <1>1, <2>1, Zenon DEF Answered, PinnedRows, RefreshDisabled, AllSucceeded, vars, reqVars
  <2>3. Walked(r)'
    BY <1>1, <2>1, Zenon
    DEF Walked, PinnedRows, RefreshDisabled, AllSucceeded, Get, Has, vars, reqVars
  <2>4. QED
    BY <2>2, <2>3
<1>5. QED
  BY <1>1, <1>2, <1>3, <1>4, Zenon DEF ServingInv, vars, reqVars

\* ServingInv is an invariant of the composition.
LEMMA ServingInvariant == ServingSpec => []ServingInv
<1>1. ASSUME ServingInit PROVE ServingInv
  <2>1. IndInv /\ Kept
    BY <1>1, InitInv, Zenon DEF ServingInit, Init, Kept
  <2>2. RequestTypeOK
    BY <1>1, <2>1, LenProperties, ServingAssumption
    DEF ServingInit, Idle, RequestTypeOK, Nothing, Replies, IndInv, TypeOK
  <2>3. \A r \in Requests : Answered(r) /\ Walked(r)
    BY <1>1, Zenon DEF ServingInit, Idle, Answered, Walked
  <2>4. QED
    BY <1>1, <2>1, <2>2, <2>3 DEF ServingInit, Idle, ServingInv
<1>2. ServingInv /\ [ServingNext]_sysVars => ServingInv'
  BY SystemStepStep, ListenerStep, ArriveStep, CheckReadyStep, CheckAllStep, WalkBodiesStep,
     WalkAgainStep, WalkHeadersStep, RespondStep, HealthAllStep, HealthStatesStep,
     ServingStutter DEF ServingNext, HandlerStep
<1>3. QED
  BY <1>1, <1>2, PTL DEF ServingSpec
-----------------------------------------------------------------------------
\* The handlers' and the coordinator's variables keep their types.
THEOREM ServingTypeCorrect == ServingSpec => []ServingTypeOK
<1>1. ServingInv => ServingTypeOK
  BY DEF ServingInv, RequestTypeOK, IndInv, ServingTypeOK
<1>2. QED
  BY <1>1, ServingInvariant, PTL

\* Subscription's one look at the gate is good for the whole of Build.
THEOREM GateHolds == ServingSpec => []GateHoldsThroughBuild
<1>1. ServingInv => GateHoldsThroughBuild
  BY Zenon DEF ServingInv, Walked, GateHoldsThroughBuild, Serving
<1>2. QED
  BY <1>1, ServingInvariant, PTL

\* A /health answer never contradicts itself, although it is read in two steps.
THEOREM HealthAgrees == ServingSpec => []HealthAgreesWithSources
<1>1. ServingInv => HealthAgreesWithSources
  BY Zenon DEF ServingInv, Answered, HealthAgreesWithSources
<1>2. QED
  BY <1>1, ServingInvariant, PTL

\* Every 200 answer has the one payload of each source that is never refreshed.
THEOREM PinnedServed == ServingSpec => []PinnedIsServed
<1>1. ServingInv => PinnedIsServed
  BY Zenon DEF ServingInv, Answered, PinnedRows, PinnedIsServed
<1>2. QED
  BY <1>1, ServingInvariant, PTL
=============================================================================
