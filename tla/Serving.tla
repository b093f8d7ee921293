------------------------------ MODULE Serving ------------------------------
(***************************************************************************)
(* The HTTP handlers GET / (routes/subscription.go) and GET /health        *)
(* (routes/health.go) running beside the coordinator's goroutines.  A      *)
(* handler takes no lock across its reads: each read of Ready, of          *)
(* AllSucceeded and of the cache is a step of its own.                     *)
(*                                                                         *)
(* merge.Pipeline.Build walks the cache twice, first for the payloads'     *)
(* bodies and then for their captured headers; `body` and `hdr` record the *)
(* payload each walk found.                                                *)
(***************************************************************************)
EXTENDS Coordinator, Sequences

CONSTANTS
  Requests,   \* handlers in flight
  RowOrder    \* the enabled rows in sortSourcesByPriority order

ASSUME ServingAssumption ==
  /\ RowOrder \in Seq(Enabled)
  /\ \A s \in Enabled : \E i \in DOMAIN RowOrder : RowOrder[i] = s
  /\ NoPayload \notin Bodies

VARIABLES
  listener, \* the HTTP listener: "closed", "open" or "shut" for good
  at,       \* position of the handler
  row,      \* index into RowOrder of the walk in progress
  body,     \* contents found by the first walk, per source
  hdr,      \* contents found by the second walk, per source
  reply,    \* what the handler answered
  states    \* the bootstrap states listed by a /health answer

reqVars == <<listener, at, row, body, hdr, reply, states>>
sysVars == <<vars, reqVars>>

Nothing == [s \in Sources |-> NoPayload]

Idle ==
  /\ listener = "closed"
  /\ at = [r \in Requests |-> "idle"]
  /\ row = [r \in Requests |-> 1]
  /\ body = [r \in Requests |-> Nothing]
  /\ hdr = [r \in Requests |-> Nothing]
  /\ reply = [r \in Requests |-> "none"]
  /\ states = [r \in Requests |-> boot]

ServingInit == Init /\ Idle

Replies == {"none", "warming_up", "failed", "succeeded", "ok"}

ServingTypeOK ==
  /\ TypeOK
  /\ listener \in {"closed", "open", "shut"}
  /\ at \in [Requests -> {"idle", "sub", "subAll", "bodies", "headers",
                          "health", "healthAll", "healthStates"}]
  /\ row \in [Requests -> 1..(Len(RowOrder) + 1)]
  /\ body \in [Requests -> [Sources -> Bodies \cup {NoPayload}]]
  /\ hdr \in [Requests -> [Sources -> Bodies \cup {NoPayload}]]
  /\ reply \in [Requests -> Replies]

\* main.run opens the listener when Ready is closed or bootstrapWait is over,
\* whatever the sources do meanwhile (the wait is not timed here).
Listen ==
  /\ up /\ listener = "closed"
  /\ listener' = "open"
  /\ UNCHANGED <<vars, at, row, body, hdr, reply, states>>

\* App.Run on ctx.Done: Shutdown closes the listener; requests in flight drain.
Shutdown ==
  /\ cancelled /\ listener = "open"
  /\ listener' = "shut"
  /\ UNCHANGED <<vars, at, row, body, hdr, reply, states>>

\* A request reaches its handler.
Arrive(r, handler) ==
  /\ listener = "open"
  /\ at[r] = "idle"
  /\ at' = [at EXCEPT ![r] = handler]
  /\ row' = [row EXCEPT ![r] = 1]
  /\ body' = [body EXCEPT ![r] = Nothing]
  /\ hdr' = [hdr EXCEPT ![r] = Nothing]
  /\ reply' = [reply EXCEPT ![r] = "none"]
  /\ UNCHANGED <<vars, listener, states>>

Answer(r, code) ==
  /\ at' = [at EXCEPT ![r] = "idle"]
  /\ reply' = [reply EXCEPT ![r] = code]

\* The select on Ready: 503 warming_up, or on to AllSucceeded.
CheckReady(r) ==
  /\ at[r] \in {"sub", "health"}
  /\ IF ready
     THEN /\ at' = [at EXCEPT ![r] = IF @ = "sub" THEN "subAll" ELSE "healthAll"]
          /\ UNCHANGED reply
     ELSE IF at[r] = "sub" THEN Answer(r, "warming_up")
     ELSE /\ at' = [at EXCEPT ![r] = "healthStates"]
          /\ reply' = [reply EXCEPT ![r] = "warming_up"]
  /\ UNCHANGED <<vars, listener, row, body, hdr, states>>

\* GET /: 503 bootstrap_failed, or start Build.
CheckAll(r) ==
  /\ at[r] = "subAll"
  /\ IF AllSucceeded
     THEN at' = [at EXCEPT ![r] = "bodies"] /\ UNCHANGED reply
     ELSE Answer(r, "failed")
  /\ UNCHANGED <<vars, listener, row, body, hdr, states>>

\* The row the walk is at, while one is left.
Row(r) == RowOrder[row[r]]
Walking(r) == row[r] <= Len(RowOrder)

\* Build's first walk: Get the payload of one row, skip it if there is none.
WalkBodies(r) ==
  /\ at[r] = "bodies" /\ Walking(r)
  /\ body' = [body EXCEPT ![r][Row(r)] = Get(Row(r))]
  /\ row' = [row EXCEPT ![r] = @ + 1]
  /\ UNCHANGED <<vars, listener, at, hdr, reply, states>>

\* Build turns from the bodies to the captured headers.
WalkAgain(r) ==
  /\ at[r] = "bodies" /\ ~Walking(r)
  /\ at' = [at EXCEPT ![r] = "headers"]
  /\ row' = [row EXCEPT ![r] = 1]
  /\ UNCHANGED <<vars, listener, body, hdr, reply, states>>

\* Build's second walk, over the contributing rows: a second Get.
WalkHeaders(r) ==
  /\ at[r] = "headers" /\ Walking(r)
  /\ hdr' = [hdr EXCEPT ![r][Row(r)] =
                IF body[r][Row(r)] = NoPayload THEN NoPayload ELSE Get(Row(r))]
  /\ row' = [row EXCEPT ![r] = @ + 1]
  /\ UNCHANGED <<vars, listener, at, body, reply, states>>

\* The merge, the rendering and the 200 answer touch no shared state.
Respond(r) ==
  /\ at[r] = "headers" /\ ~Walking(r)
  /\ Answer(r, "ok")
  /\ UNCHANGED <<vars, listener, row, body, hdr, states>>

\* GET /health: AllSucceeded.
HealthAll(r) ==
  /\ at[r] = "healthAll"
  /\ at' = [at EXCEPT ![r] = "healthStates"]
  /\ reply' = [reply EXCEPT ![r] = IF AllSucceeded THEN "succeeded" ELSE "failed"]
  /\ UNCHANGED <<vars, listener, row, body, hdr, states>>

\* GET /health: SourceStates holds the coordinator's lock over all sources.
HealthStates(r) ==
  /\ at[r] = "healthStates"
  /\ states' = [states EXCEPT ![r] = boot]
  /\ at' = [at EXCEPT ![r] = "idle"]
  /\ UNCHANGED <<vars, listener, row, body, hdr, reply>>

HandlerStep(r) ==
  \/ CheckReady(r) \/ CheckAll(r)
  \/ WalkBodies(r) \/ WalkAgain(r) \/ WalkHeaders(r) \/ Respond(r)
  \/ HealthAll(r) \/ HealthStates(r)

\* A step of the coordinator; requests in flight die with the process.
SystemStep ==
  /\ Next
  /\ IF up' THEN UNCHANGED reqVars
     ELSE /\ listener' = "closed"
          /\ at' = [r \in Requests |-> "idle"]
          /\ row' = [r \in Requests |-> 1]
          /\ body' = [r \in Requests |-> Nothing]
          /\ hdr' = [r \in Requests |-> Nothing]
          /\ reply' = [r \in Requests |-> "none"]
          /\ states' = [r \in Requests |-> boot']

ServingNext ==
  \/ SystemStep \/ Listen \/ Shutdown
  \/ \E r \in Requests : Arrive(r, "sub") \/ Arrive(r, "health") \/ HandlerStep(r)

ServingSpec == ServingInit /\ [][ServingNext]_sysVars
-----------------------------------------------------------------------------
\* Subscription checks the gate once, before Build: the verdict is still true
\* at every later step of the request, although nothing is locked.
GateHoldsThroughBuild ==
  \A r \in Requests : at[r] \in {"bodies", "headers"} => Serving

\* Health reads AllSucceeded first and the states later: an answer that says
\* "succeeded" never lists an enabled source in another state.
HealthAgreesWithSources ==
  \A r \in Requests : at[r] = "idle" /\ reply[r] = "succeeded" =>
    \A s \in Enabled : states[r][s] = "succeeded"

\* A source that is never refreshed contributes to every 200 answer, with body
\* and headers of one payload: once it has let the gate open nothing drops or
\* replaces its payload, although Build reads it twice without a lock.
PinnedIsServed ==
  \A r \in Requests : reply[r] = "ok" =>
    \A s \in Enabled : RefreshDisabled(s) =>
      body[r][s] # NoPayload /\ hdr[r][s] = body[r][s]
=============================================================================
