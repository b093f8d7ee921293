----------------------------- MODULE DailySpend -----------------------------
(***************************************************************************)
(* The daily-spend part of Pipeline.Build under concurrent requests: each  *)
(* collects the cached userinfo, loads the snapshot file, composes the     *)
(* header and, after a rollover, saves the new snapshot, with no lock over *)
(* the four.  The clock, the counters and restarts move between them.      *)
(*                                                                         *)
(* The file is replaced in one step here; SnapshotFile shows what a Save   *)
(* that overlaps another one can leave, which is the outcome Damaged.      *)
(***************************************************************************)
EXTENDS Traffic

CONSTANTS
  Requests, Sources,
  Quota,        \* userinfo total of every source; no plan expires
  MaxUsed,      \* bound on every counter
  MaxMoved,     \* bound on how far the counters move in a day
  LastSecond,   \* bound on the clock
  DiskFaults,   \* whether Load and Save may fail
  Damaged,      \* a file that does not parse
  NoHeader

\* What CaptureSnapshot makes of some of the sources.
SomeSources(T) == UNION {[D -> T] : D \in SUBSET Sources}
Snapshot == [localDate : Nat, allowanceToday : Nat, baselines : SomeSources(0..MaxUsed),
             uploadRatios : SomeSources([n : {0}, d : 1..(MaxUsed + 1)])]

ASSUME DailySpendAssumption ==
  /\ Quota \in Nat /\ MaxUsed \in Nat /\ MaxMoved \in Nat /\ LastSecond \in Nat
  /\ DiskFaults \in BOOLEAN
  /\ IsFiniteSet(Sources)
  /\ NoSnapshot \notin Snapshot /\ Damaged \notin Snapshot

VARIABLES
  now,        \* the clock
  counter,    \* cached userinfo download of each source
  held,       \* sources with a cached payload
  file,       \* today-zero.json
  at,         \* position of each request
  seen,       \* userinfoPerSource of each request
  loaded,     \* its loaded, then its new snapshot
  header,     \* its ServedTrafficHeader
  moved,      \* how far the counters moved, up or down, since midnight
  seenOn,     \* date on which each request collected
  straddled   \* a snapshot was captured after midnight from earlier counters

reqVars == <<at, seen, loaded, header, seenOn>>
spendVars == <<now, counter, held, file, at, seen, loaded, header, moved, seenOn, straddled>>

Today == LocalDate(now)
NoUserinfo == [s \in {} |-> 0]
Userinfo(s) == [upload |-> 0, download |-> counter[s], total |-> Quota, expire |-> 0]

Reading == [upload : {0}, download : 0..MaxUsed, total : {Quota}, expire : {0}]

\* The variables' types; nobody's clock is ahead, and Save is never called
\* without a snapshot, which it would refuse.
TypeOK ==
  /\ now \in 0..LastSecond
  /\ counter \in [Sources -> 0..MaxUsed]
  /\ held \subseteq Sources
  /\ file \in {NoSnapshot, Damaged} \/ file \in Snapshot
  /\ at \in [Requests -> {"idle", "load", "compose", "save"}]
  /\ seen \in [Requests -> SomeSources(Reading)]
  /\ moved \in Nat /\ straddled \in BOOLEAN
  /\ seenOn \in [Requests -> 0..Today]
  /\ file \in Snapshot => file.localDate <= Today
  /\ DOMAIN loaded = Requests /\ DOMAIN header = Requests
  /\ \A r \in Requests :
       /\ loaded[r] = NoSnapshot \/ (loaded[r] \in Snapshot /\ loaded[r].localDate <= Today)
       /\ at[r] = "save" => loaded[r] # NoSnapshot

Init ==
  /\ now = 0
  /\ counter = [s \in Sources |-> 0]
  /\ held = Sources
  /\ file = NoSnapshot
  /\ at = [r \in Requests |-> "idle"]
  /\ seen = [r \in Requests |-> NoUserinfo]
  /\ loaded = [r \in Requests |-> NoSnapshot]
  /\ header = [r \in Requests |-> NoHeader]
  /\ moved = 0
  /\ seenOn = [r \in Requests |-> 0]
  /\ straddled = FALSE

Tick ==
  /\ now < LastSecond
  /\ now' = now + 1
  /\ moved' = IF LocalDate(now + 1) = Today THEN moved ELSE 0
  /\ UNCHANGED <<counter, held, file, reqVars, straddled>>

\* A refreshed payload reports more traffic ...
Grow(s) ==
  /\ counter[s] < MaxUsed /\ moved < MaxMoved
  /\ counter' = [counter EXCEPT ![s] = @ + 1]
  /\ moved' = moved + 1
  /\ UNCHANGED <<now, held, file, reqVars, straddled>>

\* ... or a new billing cycle.
Reset(s) ==
  /\ counter[s] > 0 /\ moved < MaxMoved
  /\ counter' = [counter EXCEPT ![s] = 0]
  /\ moved' = moved + counter[s]
  /\ UNCHANGED <<now, held, file, reqVars, straddled>>

\* The payload is dropped, or comes back.
Toggle(s) ==
  /\ held' = IF s \in held THEN held \ {s} ELSE held \cup {s}
  /\ UNCHANGED <<now, counter, file, reqVars, moved, straddled>>

Restart ==
  /\ at' = [r \in Requests |-> "idle"]
  /\ seen' = [r \in Requests |-> NoUserinfo]
  /\ loaded' = [r \in Requests |-> NoSnapshot]
  /\ header' = [r \in Requests |-> NoHeader]
  /\ seenOn' = [r \in Requests |-> 0]
  /\ UNCHANGED <<now, counter, held, file, moved, straddled>>
-----------------------------------------------------------------------------
\* Build's walk over the captured headers.
Collect(r) ==
  /\ at[r] = "idle"
  /\ seen' = [seen EXCEPT ![r] = [s \in held |-> Userinfo(s)]]
  /\ seenOn' = [seenOn EXCEPT ![r] = Today]
  /\ header' = [header EXCEPT ![r] = NoHeader]
  /\ at' = [at EXCEPT ![r] = "load"]
  /\ UNCHANGED <<now, counter, held, file, loaded, moved, straddled>>

\* snapshotter.Load: a missing, damaged or invalid file is no snapshot, and so
\* is one that cannot be read, because Build ignores the error.
Load(r) ==
  /\ at[r] = "load"
  /\ \E s \in (IF DiskFaults THEN {file, NoSnapshot} ELSE {file}) :
       loaded' = [loaded EXCEPT ![r] =
         IF s \in {NoSnapshot, Damaged} THEN NoSnapshot
         ELSE IF ValidSnapshot(s) THEN s ELSE NoSnapshot]
  /\ at' = [at EXCEPT ![r] = "compose"]
  /\ UNCHANGED <<now, counter, held, file, seen, header, moved, seenOn, straddled>>

Finish(r) ==
  /\ at' = [at EXCEPT ![r] = "idle"]
  /\ seen' = [seen EXCEPT ![r] = NoUserinfo]
  /\ loaded' = [loaded EXCEPT ![r] = NoSnapshot]
  /\ seenOn' = [seenOn EXCEPT ![r] = 0]

\* Mutant of ComposeHeader: the snapshot that was loaded is saved, not the new one.
ComposeHeaderKeeping(r) ==
  /\ at[r] = "compose" /\ DOMAIN seen[r] # {}
  /\ header' = [header EXCEPT ![r] = Compose(seen[r], loaded[r], now)]
  /\ IF IsRolloverNeeded(loaded[r], now)
     THEN /\ at' = [at EXCEPT ![r] = "save"]
          /\ straddled' = (straddled \/ seenOn[r] # Today)
          /\ UNCHANGED <<seen, loaded, seenOn>>
     ELSE Finish(r) /\ UNCHANGED straddled
  /\ UNCHANGED <<now, counter, held, file, moved>>

\* ComposeServedTrafficHeaderWithSpend.  A rollover is followed by a Save.
ComposeHeader(r) ==
  /\ at[r] = "compose" /\ DOMAIN seen[r] # {}
  /\ header' = [header EXCEPT ![r] = Compose(seen[r], loaded[r], now)]
  /\ IF IsRolloverNeeded(loaded[r], now)
     THEN /\ loaded' = [loaded EXCEPT ![r] = NewSnapshot(seen[r], loaded[r], now)]
          /\ at' = [at EXCEPT ![r] = "save"]
          /\ straddled' = (straddled \/ seenOn[r] # Today)
          /\ UNCHANGED <<seen, seenOn>>
     ELSE Finish(r) /\ UNCHANGED straddled
  /\ UNCHANGED <<now, counter, held, file, moved>>

\* No source has a userinfo: no header, no snapshot.
ComposeNothing(r) ==
  /\ at[r] = "compose" /\ DOMAIN seen[r] = {}
  /\ Finish(r)
  /\ UNCHANGED <<now, counter, held, file, header, moved, straddled>>

\* snapshotter.Save; an error is only logged.
Save(r) ==
  /\ at[r] = "save"
  /\ \/ file' = loaded[r]
     \/ DiskFaults /\ UNCHANGED file
     \/ (\E q \in Requests \ {r} : at[q] = "save") /\ file' = Damaged
  /\ Finish(r)
  /\ UNCHANGED <<now, counter, held, header, moved, straddled>>

RequestStep(r) ==
  Collect(r) \/ Load(r) \/ ComposeHeader(r) \/ ComposeNothing(r) \/ Save(r)

Next ==
  \/ Tick \/ Restart
  \/ \E s \in Sources : Grow(s) \/ Reset(s) \/ Toggle(s)
  \/ \E r \in Requests : RequestStep(r)

Spec == Init /\ [][Next]_spendVars
-----------------------------------------------------------------------------
Current(s) == s \notin {NoSnapshot, Damaged} /\ s.localDate = Today

\* A request reports at most what the counters moved since midnight, whatever
\* overlaps with it and whatever was reset, dropped, lost or damaged: never
\* yesterday's spend.  Excepted are counters read before midnight and used
\* after it, by the request itself or by the one that captured the snapshot.
SpendIsTodays ==
  [][\A r \in Requests :
       header'[r] # header[r] /\ header'[r] # NoHeader /\ seenOn[r] = Today /\ ~straddled'
         => header'[r].used <= moved]_spendVars

\* What is saved is what a later Load accepts: no valid request makes the next
\* one roll over again.
SavedIsLoadable ==
  \A r \in Requests : at[r] = "save" => ValidSnapshot(loaded[r])

\* spec 011 FR-003, "allowance_today is captured exactly once per local-day at
\* the midnight rollover (or at first-boot initialization) and held until the
\* next midnight rollover": a request that found the snapshot of an earlier day
\* does not capture another allowance than the one already on disk for today
\* (no request read its counters before midnight).
CapturedOncePerDay ==
  [][\A r \in Requests :
       /\ at[r] = "compose" /\ at'[r] = "save" /\ ~straddled'
       /\ loaded[r] # NoSnapshot /\ Current(file)
       => loaded'[r].allowanceToday = file.allowanceToday]_spendVars
=============================================================================
