------------------------- MODULE CoordinatorProofs -------------------------
(***************************************************************************)
(* Proofs about the fetch coordinator, for every set of rows, every        *)
(* interval and window, every timeout and every latency.                   *)
(*                                                                         *)
(* The invariant of CoordinatorInv is inductive.  A step of                *)
(* bootstrapAndRun, refresh or runSteady touches one source, so the other  *)
(* sources keep their part by Frame, and each action is left with the      *)
(* source it moves.  From the invariant follow the safety and action       *)
(* properties, and that every step is one of BootstrapGate or leaves the   *)
(* gate unchanged.                                                         *)
(***************************************************************************)
EXTENDS CoordinatorInv, TLAPS

\* What the constants give: intervals and windows are positive naturals
\* (ttlFor, fetchTTLFor, staleWindowFor), and the bounds on ages dominate
\* the delays they add up.
LEMMA DurationFacts ==
  /\ AgeCap \in Nat /\ FetchTimeout \in Nat /\ FetchTimeout <= AgeCap
  /\ Latency \in Nat /\ AttemptDelay \in Nat
  /\ MaxAttempts \in Nat /\ 1 <= MaxAttempts
  /\ Enabled \subseteq Sources
  /\ NoPayload \notin Payload
BY CacheAssumption, CoordinatorAssumption DEF MaxAttempts

\* What the rows of the CSV make of a source's durations.
LEMMA RowFacts ==
  ASSUME NEW s \in Sources
  PROVE  /\ FetchTtlFor(s) \in Nat /\ 1 <= FetchTtlFor(s) /\ FetchTtlFor(s) <= AgeCap
         /\ StaleWindowFor(s) \in Nat /\ StaleWindowFor(s) < AgeCap
         /\ TtlFor(s) \in Nat /\ 1 <= TtlFor(s)
         /\ ~RefreshDisabled(s) => TtlFor(s) = FetchTtlFor(s)
         /\ RefreshDisabled(s) \in BOOLEAN
BY CacheAssumption, CoordinatorAssumption
DEF FetchTtlFor, TtlFor, StaleWindowFor, RefreshDisabled, NeverRefreshTTL

\* The bounds on the age of a payload, and how they compare.
LEMMA BoundFacts ==
  ASSUME NEW s \in Sources
  PROVE  /\ YoungBound(s) \in Nat
         /\ FetchTimeout + Latency <= YoungBound(s)
         /\ FetchTtlFor(s) <= YoungBound(s) + 1
         /\ KeepBound(s) \in Nat
         /\ StaleWindowFor(s) <= KeepBound(s)
         /\ ~RefreshDisabled(s) => YoungBound(s) + 2 * Latency <= KeepBound(s)
BY DurationFacts, RowFacts DEF YoungBound, KeepBound, Larger

\* Everything the invariant says about one source.
PerSource(s) ==
  /\ Control(s) /\ Result(s) /\ Timing(s)
  /\ Young(s) /\ Expired(s) /\ Aging(s) /\ Snapshot(s)

UnchangedAt(t) ==
  /\ mem'[t] = mem[t] /\ lastFailed'[t] = lastFailed[t] /\ disk'[t] = disk[t]
  /\ boot'[t] = boot[t] /\ outcome'[t] = outcome[t]
  /\ pc'[t] = pc[t] /\ done'[t] = done[t] /\ attempt'[t] = attempt[t]
  /\ elapsed'[t] = elapsed[t] /\ tick'[t] = tick[t] /\ tickC'[t] = tickC[t]

\* A source nobody touches keeps its part of the invariant, also when ctx is
\* cancelled meanwhile.
LEMMA Frame ==
  ASSUME NEW t \in Sources, PerSource(t), UnchangedAt(t), cancelled => cancelled'
  PROVE  PerSource(t)'
<1>1. Control(t)'
  BY DEF PerSource, UnchangedAt, Control
<1>2. Result(t)'
  BY DEF PerSource, UnchangedAt, Result, Has
<1>3. Timing(t)'
  BY DEF PerSource, UnchangedAt, Timing, HasTicker
<1>4. Young(t)'
  BY DEF PerSource, UnchangedAt, Young, Has
<1>5. Expired(t)'
  BY DEF PerSource, UnchangedAt, Expired, Has
<1>6. Aging(t)'
  BY DEF PerSource, UnchangedAt, Aging, Has
<1>7. Snapshot(t)'
  BY DEF PerSource, UnchangedAt, Snapshot, Has
<1>8. QED
  BY <1>1, <1>2, <1>3, <1>4, <1>5, <1>6, <1>7 DEF PerSource

\* A step of one goroutine leaves the process and the other sources alone.
Local(s) ==
  /\ up' = up /\ cancelled' = cancelled /\ ready' = ready
  /\ pc[s] # "off" /\ pc'[s] # "off"
  /\ done[s] => done'[s]
  /\ \A t \in Sources \ {s} : UnchangedAt(t)

\* So it is enough to show that it keeps the invariant at its own source.
LEMMA LocalStep ==
  ASSUME IndInv, NEW s \in Sources, Local(s), TypeOK', PerSource(s)'
  PROVE  IndInv'
<1>1. \A t \in Sources : PerSource(t)
  BY DEF IndInv, PerSource
<1>2. \A t \in Sources : PerSource(t)'
  <2> SUFFICES ASSUME NEW t \in Sources \ {s} PROVE PerSource(t)'
    OBVIOUS
  <2> QED
    BY <1>1, Frame DEF Local
<1>3. Lifecycle'
  BY DurationFacts DEF IndInv, Lifecycle, Local, UnchangedAt
<1>4. QED
  BY <1>2, <1>3 DEF IndInv, PerSource
-----------------------------------------------------------------------------
(* One lemma per step of a goroutine *)

\* bootstrapAndRun returns early on a cancelled ctx; its deferred Done runs.
LEMMA AbandonBootstrapStep ==
  ASSUME IndInv, NEW s \in Sources, AbandonBootstrap(s)
  PROVE  IndInv'
<1>i. TypeOK /\ PerSource(s)
  BY Zenon DEF IndInv, PerSource
<1>1. TypeOK'
  BY DEF AbandonBootstrap, Goto, IndInv, TypeOK, CacheTypeOK, Positions
<1>2. Local(s)
  BY DEF AbandonBootstrap, Goto, At, IndInv, TypeOK, CacheTypeOK, Local,
     UnchangedAt
<1>3. Control(s)' /\ Result(s)' /\ Timing(s)'
  BY <1>i DEF AbandonBootstrap, Goto, PerSource, TypeOK, Control, Has, Result, Timing,
     HasTicker
<1>4. Young(s)' /\ Expired(s)' /\ Aging(s)' /\ Snapshot(s)'
  BY <1>i DEF AbandonBootstrap, Goto, At, Young, Expired, Aging, Has, PerSource,
     Snapshot
<1>5. QED
  BY <1>1, <1>2, <1>3, <1>4, LocalStep DEF PerSource

\* bootstrapAndRun enters an attempt: the entry is fresh, or a fetch starts.
LEMMA AttemptStep ==
  ASSUME IndInv, NEW s \in Sources, Attempt(s)
  PROVE  IndInv'
<1>i. TypeOK /\ PerSource(s)
  BY Zenon DEF IndInv, PerSource
<1>1. TypeOK'
  BY DEF Attempt, Refresh, Goto, IndInv, TypeOK, CacheTypeOK, Positions, Busy
<1>2. Local(s)
  BY DEF Attempt, Refresh, Goto, At, IndInv, TypeOK, CacheTypeOK, Local,
     UnchangedAt
<1>3. Control(s)' /\ Result(s)' /\ Timing(s)'
  BY <1>i, DurationFacts DEF Attempt, Refresh, Goto, At, PerSource, Control, State, Has,
     Result, TypeOK, Timing, HasTicker
<1>4. Young(s)' /\ Expired(s)' /\ Aging(s)' /\ Snapshot(s)'
  BY <1>i, RowFacts, BoundFacts DEF Attempt, Refresh, Goto, State, Has, PerSource,
     TypeOK, CacheTypeOK, Payload, Young, Expired, At, Aging, Control, Snapshot
<1>5. QED
  BY <1>1, <1>2, <1>3, <1>4, LocalStep DEF PerSource

\* The new payload is as old as its fetch was long, and younger than the
\* snapshot on disk.
LEMMA FetchOkStep ==
  ASSUME IndInv, NEW s \in Sources, FetchOk(s)
  PROVE  IndInv'
<1> PICK b \in Bodies : Set(s, [body |-> b, age |-> elapsed[s]])
  BY DEF FetchOk
<1> DEFINE p == [body |-> b, age |-> elapsed[s]]
<1>p. p \in Payload /\ p # NoPayload /\ p.age = elapsed[s]
  BY DurationFacts DEF FetchOk, At, IndInv, TypeOK, Timing, Payload
<1>m. mem' = [mem EXCEPT ![s] = p] /\ lastFailed' = [lastFailed EXCEPT ![s] = FALSE]
  BY DEF Set
<1> HIDE DEF p
<1>i. TypeOK /\ PerSource(s)
  BY Zenon DEF IndInv, PerSource
<1>1. TypeOK'
  BY <1>p, <1>m, DurationFacts DEF FetchOk, Goto, At, IndInv, TypeOK,
     CacheTypeOK, Payload, Positions, Busy, Timing
<1>2. Local(s)
  BY <1>p, <1>m DEF FetchOk, Goto, At, IndInv, TypeOK, CacheTypeOK, Local,
     UnchangedAt
<1>3. Control(s)' /\ Result(s)' /\ Timing(s)'
  BY <1>i, <1>p, <1>m, DurationFacts DEF FetchOk, Goto, At, PerSource, Control, Has,
     TypeOK, CacheTypeOK, Result, Timing, HasTicker
<1>4. Young(s)' /\ Expired(s)' /\ Aging(s)' /\ Snapshot(s)'
  BY <1>i, <1>p, <1>m, DurationFacts DEF FetchOk, Goto, At, PerSource, TypeOK,
     CacheTypeOK, Young, Timing, Expired, Aging, Has, Snapshot
<1>5. QED
  BY <1>1, <1>2, <1>3, <1>4, LocalStep DEF PerSource

\* markFailed keeps the payload, which is past its TTL or there would have
\* been no fetch.
LEMMA FetchFailStep ==
  ASSUME IndInv, NEW s \in Sources, FetchFail(s)
  PROVE  IndInv'
<1>i. TypeOK /\ PerSource(s)
  BY Zenon DEF IndInv, PerSource
<1>1. TypeOK'
  BY DEF FetchFail, Goto, MarkFailed, IndInv, TypeOK, CacheTypeOK, Positions,
     Busy
<1>2. Local(s)
  BY DEF FetchFail, Goto, At, MarkFailed, IndInv, TypeOK, CacheTypeOK, Local,
     UnchangedAt
<1>3. Control(s)' /\ Result(s)' /\ Timing(s)'
  BY <1>i, DurationFacts DEF FetchFail, Goto, At, PerSource, Control, MarkFailed, TypeOK,
     CacheTypeOK, Result, Timing, HasTicker
<1>4. Young(s)' /\ Expired(s)' /\ Aging(s)' /\ Snapshot(s)'
  BY <1>i, DurationFacts, RowFacts, BoundFacts DEF FetchFail, Goto, MarkFailed,
     PerSource, TypeOK, CacheTypeOK, Young, At, Has, Expired, Payload, Aging,
     Timing, Snapshot
<1>5. QED
  BY <1>1, <1>2, <1>3, <1>4, LocalStep DEF PerSource

\* persist copies the entry to disk.
LEMMA PersistOkStep ==
  ASSUME IndInv, NEW s \in Sources, PersistOk(s)
  PROVE  IndInv'
<1>i. TypeOK /\ PerSource(s)
  BY Zenon DEF IndInv, PerSource
<1>1. TypeOK'
  BY DEF PersistOk, Goto, Persist, IndInv, TypeOK, CacheTypeOK, Positions, Busy
<1>2. Local(s)
  BY SMTT(20) DEF PersistOk, Goto, At, Persist, IndInv, TypeOK, CacheTypeOK, Local,
     UnchangedAt
<1>3. Control(s)' /\ Result(s)' /\ Timing(s)'
  BY <1>i, DurationFacts DEF PersistOk, Goto, At, PerSource, Control, Has, Result,
     Timing, HasTicker
<1>4. Young(s)' /\ Expired(s)' /\ Aging(s)' /\ Snapshot(s)'
  BY <1>i, DurationFacts, BoundFacts DEF PersistOk, Goto, At, Has, PerSource, TypeOK,
     CacheTypeOK, Payload, Young, Timing, Result, Expired, Aging, Persist,
     Snapshot
<1>5. QED
  BY <1>1, <1>2, <1>3, <1>4, LocalStep DEF PerSource

\* A failed persist reports an error for a payload that was just fetched.
LEMMA PersistFailStep ==
  ASSUME IndInv, NEW s \in Sources, PersistFail(s)
  PROVE  IndInv'
<1>i. TypeOK /\ PerSource(s)
  BY Zenon DEF IndInv, PerSource
<1>1. TypeOK'
  BY DEF PersistFail, Goto, IndInv, TypeOK, CacheTypeOK, Positions, Busy
<1>2. Local(s)
  BY DEF PersistFail, Goto, At, IndInv, TypeOK, CacheTypeOK, Local, UnchangedAt
<1>3. Control(s)' /\ Result(s)' /\ Timing(s)'
  BY <1>i, DurationFacts DEF PersistFail, Goto, At, PerSource, Control, Has, Result,
     Timing, HasTicker
<1>4. Young(s)' /\ Expired(s)' /\ Aging(s)' /\ Snapshot(s)'
  BY <1>i, DurationFacts DEF PersistFail, Goto, At, Has, PerSource, TypeOK, CacheTypeOK,
     Payload, Young, Timing, Result, Expired, Aging, Snapshot
<1>5. QED
  BY <1>1, <1>2, <1>3, <1>4, LocalStep DEF PerSource

\* markBootstrap(Succeeded), with the payload refresh vouched for.
LEMMA BootstrapOkStep ==
  ASSUME IndInv, NEW s \in Sources, BootstrapOk(s)
  PROVE  IndInv'
<1>i. TypeOK /\ PerSource(s)
  BY Zenon DEF IndInv, PerSource
<1>1. TypeOK'
  BY DEF BootstrapOk, Goto, MarkBootstrap, IndInv, TypeOK, CacheTypeOK,
     Positions, Busy
<1>2. Local(s)
  BY DEF BootstrapOk, Goto, At, MarkBootstrap, IndInv, TypeOK, CacheTypeOK,
     Local, UnchangedAt
<1>3. Control(s)' /\ Result(s)' /\ Timing(s)'
  BY <1>i, DurationFacts DEF BootstrapOk, Goto, MarkBootstrap, PerSource, TypeOK,
     Control, Has, Result, At, Timing, HasTicker
<1>4. Young(s)' /\ Expired(s)' /\ Aging(s)' /\ Snapshot(s)'
  BY <1>i, DurationFacts, BoundFacts DEF BootstrapOk, Goto, At, Has, PerSource, TypeOK,
     CacheTypeOK, Payload, Young, Timing, Result, Expired, Aging, Snapshot
<1>5. QED
  BY <1>1, <1>2, <1>3, <1>4, LocalStep DEF PerSource

\* A failed attempt, and others left.
LEMMA BootstrapRetryStep ==
  ASSUME IndInv, NEW s \in Sources, BootstrapRetry(s)
  PROVE  IndInv'
<1>i. TypeOK /\ PerSource(s)
  BY Zenon DEF IndInv, PerSource
<1>1. TypeOK'
  BY DEF BootstrapRetry, Goto, IndInv, TypeOK, CacheTypeOK, Positions, Busy
<1>2. Local(s)
  BY DEF BootstrapRetry, Goto, At, IndInv, TypeOK, CacheTypeOK, Local,
     UnchangedAt
<1>3. Control(s)' /\ Result(s)' /\ Timing(s)'
  BY <1>i DEF BootstrapRetry, Goto, At, PerSource, Control, Has, Result, TypeOK, Timing,
     HasTicker
<1>4. Young(s)' /\ Expired(s)' /\ Aging(s)' /\ Snapshot(s)'
  BY <1>i, Zenon DEF BootstrapRetry, Goto, PerSource, TypeOK, Young, Has, Expired, Aging, At,
     Snapshot
<1>5. QED
  BY <1>1, <1>2, <1>3, <1>4, LocalStep DEF PerSource

\* markBootstrap(Failed).
LEMMA BootstrapGiveUpStep ==
  ASSUME IndInv, NEW s \in Sources, BootstrapGiveUp(s)
  PROVE  IndInv'
<1>i. TypeOK /\ PerSource(s)
  BY Zenon DEF IndInv, PerSource
<1>1. TypeOK'
  BY DEF BootstrapGiveUp, Goto, MarkBootstrap, IndInv, TypeOK, CacheTypeOK,
     Positions, Busy
<1>2. Local(s)
  BY DEF BootstrapGiveUp, Goto, At, MarkBootstrap, IndInv, TypeOK, CacheTypeOK,
     Local, UnchangedAt
<1>3. Control(s)' /\ Result(s)' /\ Timing(s)'
  BY <1>i, SMTT(20), DurationFacts DEF BootstrapGiveUp, Goto, MarkBootstrap, PerSource, TypeOK,
     Control, Has, Result, At, Timing, HasTicker
<1>4. Young(s)' /\ Expired(s)' /\ Aging(s)' /\ Snapshot(s)'
  BY <1>i DEF BootstrapGiveUp, Goto, MarkBootstrap, PerSource, TypeOK, Young, Has,
     Expired, Aging, At, Snapshot
<1>5. QED
  BY <1>1, <1>2, <1>3, <1>4, LocalStep DEF PerSource

\* The next attempt.
LEMMA DelayOverStep ==
  ASSUME IndInv, NEW s \in Sources, DelayOver(s)
  PROVE  IndInv'
<1>i. TypeOK /\ PerSource(s)
  BY Zenon DEF IndInv, PerSource
<1>1. TypeOK'
  BY DurationFacts DEF DelayOver, Goto, At, IndInv, TypeOK, CacheTypeOK,
     Positions, Busy, Control
<1>2. Local(s)
  BY SMTT(20) DEF DelayOver, Goto, At, IndInv, TypeOK, CacheTypeOK, Local, UnchangedAt
<1>3. Control(s)' /\ Result(s)' /\ Timing(s)'
  BY <1>i, SMTT(20) DEF DelayOver, Goto, At, PerSource, TypeOK, Control, Has, Result, Timing,
     HasTicker
<1>4. Young(s)' /\ Expired(s)' /\ Aging(s)' /\ Snapshot(s)'
  BY <1>i DEF DelayOver, Goto, At, Young, Expired, Aging, Has, PerSource, Snapshot
<1>5. QED
  BY <1>1, <1>2, <1>3, <1>4, LocalStep DEF PerSource

\* Done, and a ticker that has its whole period ahead.
LEMMA ReleaseStep ==
  ASSUME IndInv, NEW s \in Sources, Release(s)
  PROVE  IndInv'
<1>i. TypeOK /\ PerSource(s)
  BY Zenon DEF IndInv, PerSource
<1>1. TypeOK'
  BY RowFacts DEF Release, Goto, IndInv, TypeOK, CacheTypeOK, Positions, Parked
<1>2. Local(s)
  BY SMTT(20) DEF Release, Goto, At, IndInv, TypeOK, CacheTypeOK, Local, UnchangedAt
<1>3. Control(s)' /\ Result(s)' /\ Timing(s)'
  BY <1>i, SMTT(20), DurationFacts, RowFacts DEF Release, Goto, At, PerSource, TypeOK, Control,
     Has, Result, Timing, HasTicker
<1>4. Young(s)' /\ Expired(s)' /\ Aging(s)' /\ Snapshot(s)'
  BY <1>i, DurationFacts, RowFacts, BoundFacts DEF Release, Goto, PerSource, TypeOK,
     Young, At, Expired, Has, CacheTypeOK, Payload, Aging, Timing, Snapshot
<1>5. QED
  BY <1>1, <1>2, <1>3, <1>4, LocalStep DEF PerSource

-----------------------------------------------------------------------------
(* runSteady *)

\* runSteady takes a tick: what Aging says of ticker.C carries over to the fetch.
LEMMA WakeStep ==
  ASSUME IndInv, NEW s \in Sources, Wake(s)
  PROVE  IndInv'
<1>i. TypeOK /\ PerSource(s)
  BY Zenon DEF IndInv, PerSource
<1>1. TypeOK'
  BY DEF Wake, Refresh, Goto, IndInv, TypeOK, CacheTypeOK, Positions, Busy
<1>2. Local(s)
  BY DEF Wake, Refresh, Goto, At, IndInv, TypeOK, CacheTypeOK, Local,
     UnchangedAt
<1>3. Control(s)' /\ Result(s)' /\ Timing(s)'
  BY <1>i, DurationFacts DEF Wake, Refresh, Goto, At, PerSource, Control, State, Has,
     Result, TypeOK, Timing, HasTicker
<1>4. Young(s)' /\ Expired(s)' /\ Aging(s)' /\ Snapshot(s)'
  BY <1>i, RowFacts, BoundFacts, DurationFacts DEF Wake, Refresh, Goto, State, Has,
     PerSource, TypeOK, CacheTypeOK, Payload, Young, Expired, At, Aging, Timing,
     Snapshot
<1>5. QED
  BY <1>1, <1>2, <1>3, <1>4, LocalStep DEF PerSource

\* maybePromoteBootstrap: a nil error vouches for a young payload.
LEMMA SteadyOkStep ==
  ASSUME IndInv, NEW s \in Sources, SteadyOk(s)
  PROVE  IndInv'
<1>i. TypeOK /\ PerSource(s)
  BY Zenon DEF IndInv, PerSource
<1>1. TypeOK'
  BY DEF SteadyOk, Goto, MarkBootstrap, IndInv, TypeOK, CacheTypeOK, Positions,
     Parked
<1>2. Local(s)
  BY DEF SteadyOk, Goto, At, MarkBootstrap, IndInv, TypeOK, CacheTypeOK, Local,
     UnchangedAt
<1>3. Control(s)' /\ Result(s)' /\ Timing(s)'
  <2>1. Control(s)' /\ Result(s)'
    BY <1>i DEF SteadyOk, Goto, At, MarkBootstrap, PerSource, TypeOK, Control, Has, Result
  <2>2. Timing(s)'
    BY <1>i, DurationFacts DEF SteadyOk, Goto, At, PerSource, TypeOK, Timing, HasTicker
  <2>3. QED
    BY <2>1, <2>2
<1>4. Young(s)' /\ Expired(s)' /\ Aging(s)' /\ Snapshot(s)'
  BY <1>i, DurationFacts, RowFacts, BoundFacts DEF SteadyOk, Goto, PerSource, TypeOK,
     Young, At, Expired, Has, CacheTypeOK, Payload, Aging, Timing, HasTicker,
     Snapshot
<1>5. QED
  BY <1>1, <1>2, <1>3, <1>4, LocalStep DEF PerSource

\* shouldDrop and Drop: what stays is within its window, or was just fetched.
LEMMA SteadyErrStep ==
  ASSUME IndInv, NEW s \in Sources, SteadyErr(s)
  PROVE  IndInv'
<1>i. TypeOK /\ PerSource(s)
  BY Zenon DEF IndInv, PerSource
<1>1. TypeOK'
  BY Zenon DEF SteadyErr, Goto, IndInv, TypeOK, CacheTypeOK, Positions, Parked, Drop,
     cacheVars
<1>2. Local(s)
  BY DEF SteadyErr, Goto, At, Drop, cacheVars, IndInv, TypeOK, CacheTypeOK,
     Local, UnchangedAt
<1>3. Control(s)' /\ Result(s)' /\ Timing(s)'
  <2>1. /\ pc[s] = "err" /\ done[s] /\ pc'[s] = "wait" /\ elapsed'[s] = 0
        /\ tick' = tick /\ done' = done /\ boot' = boot /\ outcome' = outcome
        /\ cancelled' = cancelled
    BY DEF SteadyErr, Goto, At, IndInv, TypeOK
  <2>2. Control(s) /\ Result(s) /\ Timing(s)
    BY DEF IndInv
  <2>3. Control(s)'
    BY <2>1, <2>2 DEF Control, RefreshDisabled
  <2>4. Result(s)'
    <3>1. CASE ShouldDrop(s)
      BY <2>1, <2>2, <3>1 DEF Result, ShouldDrop
    <3>2. CASE ~ShouldDrop(s)
      <4>1. mem' = mem
        BY <3>2 DEF SteadyErr, cacheVars
      <4>2. QED
        BY <2>1, <2>2, <4>1 DEF Result, Has
    <3>3. QED
      BY <3>1, <3>2
  <2>5. Timing(s)'
    <3>1. 0 <= Latency
      BY DurationFacts
    <3>2. QED
      BY <2>1, <2>2, <3>1 DEF Timing, HasTicker, TtlFor, FetchTtlFor, RefreshDisabled
  <2>6. QED
    BY <2>3, <2>4, <2>5
<1>4. Young(s)' /\ Expired(s)' /\ Aging(s)' /\ Snapshot(s)'
  BY <1>i, DurationFacts, RowFacts, BoundFacts DEF SteadyErr, Goto, PerSource, TypeOK,
     Young, Expired, At, ShouldDrop, Drop, cacheVars, Has, CacheTypeOK, Payload,
     Aging, Timing, HasTicker, Snapshot
<1>5. QED
  BY <1>1, <1>2, <1>3, <1>4, LocalStep DEF PerSource

\* runSteady returns on ctx.Done.
LEMMA StopSteadyStep ==
  ASSUME IndInv, NEW s \in Sources, StopSteady(s)
  PROVE  IndInv'
<1>i. TypeOK /\ PerSource(s)
  BY Zenon DEF IndInv, PerSource
<1>1. TypeOK'
  BY DEF StopSteady, Goto, IndInv, TypeOK, CacheTypeOK, Positions
<1>2. Local(s)
  BY DEF StopSteady, Goto, At, IndInv, TypeOK, CacheTypeOK, Local, UnchangedAt
<1>3. Control(s)' /\ Result(s)' /\ Timing(s)'
  BY <1>i, Zenon DEF StopSteady, Goto, At, PerSource, Control, Has, Result, TypeOK, Timing,
     HasTicker
<1>4. Young(s)' /\ Expired(s)' /\ Aging(s)' /\ Snapshot(s)'
  <2>1. pc'[s] = "exited" /\ UNCHANGED <<mem, disk>>
    BY DEF StopSteady, Goto, IndInv, TypeOK
  <2>2. Young(s)' /\ Expired(s)' /\ Aging(s)'
    BY <2>1, Zenon DEF Young, Expired, Aging
  <2>3. Snapshot(s)'
    <3>1. Snapshot(s)
      BY DEF IndInv
    <3>2. QED
      BY <2>1, <3>1 DEF Snapshot, Has
  <2>4. QED
    BY <2>2, <2>3
<1>5. QED
  BY <1>1, <1>2, <1>3, <1>4, LocalStep DEF PerSource
-----------------------------------------------------------------------------
(* The process and time *)

\* Before the first start there are no goroutines and nothing is cached.
LEMMA InitInv ==
  ASSUME Init
  PROVE  IndInv
<1>1. TypeOK
  <2>1. CacheTypeOK
    BY DEF Init, EmptyMemory, CacheTypeOK
  <2>2. pc \in [Sources -> Positions] /\ attempt \in [Sources -> 1..MaxAttempts]
    BY DurationFacts DEF Init, Positions
  <2>3. QED
    BY <2>1, <2>2, Zenon DEF Init, TypeOK
<1>2. Lifecycle
  BY DEF Init, Lifecycle
<1>3. ASSUME NEW s \in Sources PROVE PerSource(s)
  BY DEF Init, EmptyMemory, PerSource, Control, Result, Timing, HasTicker, Young,
     Expired, Aging, Snapshot, Has
<1>4. QED
  BY <1>1, <1>2, <1>3 DEF IndInv, PerSource

\* LoadFromDisk copies snapshots of some age; no payload has vouched for
\* anything yet.
LEMMA StartupStep ==
  ASSUME IndInv, Startup
  PROVE  IndInv'
<1> PICK skipped \in SUBSET Sources : LoadFromDisk(skipped)
  BY DEF Startup
<1>1. TypeOK'
  <2>1. CacheTypeOK'
    BY DEF LoadFromDisk, IndInv, TypeOK, CacheTypeOK
  <2>2. /\ pc' \in [Sources -> Positions]
        /\ attempt' \in [Sources -> 1..MaxAttempts]
    BY DurationFacts DEF Startup, Fresh, Positions, Busy
  <2>3. QED
    BY <2>1, <2>2, Zenon DEF Startup, Fresh, TypeOK
<1>2. Lifecycle'
  BY DEF Startup, Fresh, Lifecycle
<1>3. ASSUME NEW s \in Sources PROVE PerSource(s)'
  <2>1. Control(s)' /\ Result(s)' /\ Timing(s)'
    BY DEF Startup, Fresh, Control, Result, Timing, HasTicker
  <2>2. Young(s)' /\ Expired(s)' /\ Aging(s)'
    BY DEF Startup, Fresh, Young, Expired, Aging
  <2>3. Snapshot(s)'
    BY DEF Startup, Fresh, LoadFromDisk, IndInv, TypeOK, CacheTypeOK, Payload,
       Snapshot, Has
  <2>4. QED
    BY <2>1, <2>2, <2>3 DEF PerSource
<1>4. QED
  BY <1>1, <1>2, <1>3 DEF IndInv, PerSource

\* The next process starts from the disk alone.
LEMMA ExitStep ==
  ASSUME IndInv, Exit
  PROVE  IndInv'
<1>1. TypeOK'
  <2>1. CacheTypeOK'
    BY DEF Exit, ClearMemory, IndInv, TypeOK, CacheTypeOK
  <2>2. /\ pc' \in [Sources -> Positions]
        /\ attempt' \in [Sources -> 1..MaxAttempts]
    BY DurationFacts DEF Exit, Fresh, Positions
  <2>3. QED
    BY <2>1, <2>2, Zenon DEF Exit, Fresh, TypeOK
<1>2. Lifecycle'
  BY DEF Exit, Fresh, Lifecycle
<1>3. ASSUME NEW s \in Sources PROVE PerSource(s)'
  BY DEF Exit, Fresh, ClearMemory, PerSource, Control, Result, Timing, HasTicker,
     Young, Expired, Aging, Snapshot, Has
<1>4. QED
  BY <1>1, <1>2, <1>3 DEF IndInv, PerSource

\* Cancelling ctx only weakens what the invariant asks.
LEMMA CancelStep ==
  ASSUME IndInv, Cancel
  PROVE  IndInv'
<1>1. TypeOK' /\ Lifecycle'
  BY DEF Cancel, IndInv, TypeOK, CacheTypeOK, Lifecycle
<1>2. ASSUME NEW s \in Sources PROVE PerSource(s)'
  <2>1. PerSource(s) /\ UnchangedAt(s) /\ (cancelled => cancelled')
    BY DEF Cancel, IndInv, PerSource, UnchangedAt
  <2>2. QED
    BY <2>1, Frame
<1>3. QED
  BY <1>1, <1>2 DEF IndInv, PerSource

\* Ready closes over sources that have all called Done.
LEMMA SignalReadyStep ==
  ASSUME IndInv, SignalReady
  PROVE  IndInv'
<1>1. TypeOK' /\ Lifecycle'
  BY DEF SignalReady, IndInv, TypeOK, CacheTypeOK, Lifecycle
<1>2. ASSUME NEW s \in Sources PROVE PerSource(s)'
  <2>1. PerSource(s) /\ UnchangedAt(s) /\ (cancelled => cancelled')
    BY DEF SignalReady, IndInv, PerSource, UnchangedAt
  <2>2. QED
    BY <2>1, Frame
<1>3. QED
  BY <1>1, <1>2 DEF IndInv, PerSource

\* A payload only grows older, by at most one unit, and keeps its content.
LEMMA OlderFacts ==
  ASSUME NEW p \in Payload \cup {NoPayload}
  PROVE  /\ Older(p) \in Payload \cup {NoPayload}
         /\ Older(p) = NoPayload <=> p = NoPayload
         /\ p # NoPayload =>
              /\ p.age \in Nat /\ p.age <= AgeCap /\ Older(p).age \in Nat
              /\ Older(p).age = IF p.age < AgeCap THEN p.age + 1 ELSE AgeCap
              /\ p.age <= Older(p).age /\ Older(p).age <= p.age + 1
BY DurationFacts DEF Older, Payload

\* One unit of time: whoever is due acts first, so every age stays within what
\* its goroutine's position allows.
LEMMA AdvanceStep ==
  ASSUME IndInv, Advance
  PROVE  IndInv'
<1>1. TypeOK'
  <2>1. CacheTypeOK'
    BY OlderFacts DEF Advance, AgeCache, IndInv, TypeOK, CacheTypeOK
  <2>2. tick' \in [Sources -> Nat] /\ elapsed' \in [Sources -> Nat]
    BY RowFacts DEF Advance, Fires, IndInv, TypeOK, Timing
  <2>3. tickC' \in [Sources -> BOOLEAN]
    BY DEF Advance, Fires, HasTicker, RefreshDisabled, IndInv, TypeOK
  <2>4. QED
    BY <2>1, <2>2, <2>3 DEF Advance, IndInv, TypeOK
<1>2. Lifecycle'
  BY Zenon DEF Advance, IndInv, Lifecycle
<1>3. ASSUME NEW s \in Sources PROVE PerSource(s)'
  <2>1. /\ mem'[s] = Older(mem[s]) /\ disk'[s] = Older(disk[s])
        /\ lastFailed' = lastFailed /\ boot' = boot /\ outcome' = outcome
        /\ pc' = pc /\ done' = done /\ attempt' = attempt /\ cancelled' = cancelled
    BY Zenon DEF Advance, AgeCache
  <2>2. /\ elapsed[s] \in Nat /\ elapsed'[s] \in Nat
        /\ AtRest(s) => elapsed'[s] = 0
        /\ ~AtRest(s) => elapsed'[s] = elapsed[s] + 1 /\ elapsed[s] < Patience(s)
    BY DEF Advance, IndInv, TypeOK
  <2>3. /\ mem[s] \in Payload \cup {NoPayload} /\ disk[s] \in Payload \cup {NoPayload}
        /\ tick[s] \in Nat
    BY DEF IndInv, TypeOK, CacheTypeOK
  <2>4. HasTicker(s)' = HasTicker(s) /\ Has(s)' = Has(s)
    BY <2>1, <2>3, OlderFacts, Zenon DEF HasTicker, Has
  <2>5. /\ tick'[s] = IF Fires(s) THEN TtlFor(s)
                      ELSE IF HasTicker(s) THEN tick[s] - 1 ELSE 0
        /\ tickC'[s] <=> tickC[s] \/ Fires(s)
    BY Zenon DEF Advance
  <2>6. Control(s)' /\ Result(s)'
    BY <2>1, <2>4, Zenon DEF IndInv, Control, Result
  <2>7. Timing(s)'
    BY <2>1, <2>2, <2>3, <2>4, <2>5, RowFacts, DurationFacts
    DEF IndInv, Timing, Fires, Patience, At, AtRest, Parked
  <2>8. Has(s) => /\ mem[s].age \in Nat /\ mem'[s].age \in Nat
                  /\ mem[s].age <= mem'[s].age /\ mem'[s].age <= mem[s].age + 1
    BY <2>1, <2>3, OlderFacts, Zenon DEF Has
  <2>9. Control(s) /\ Result(s) /\ Timing(s) /\ Young(s) /\ Expired(s) /\ Aging(s)
    BY DEF IndInv
  <2>10. Young(s)'
    <3>1. pc[s] \in {"persist", "err", "ok", "release"} => elapsed'[s] = elapsed[s] + 1
      BY <2>2 DEF AtRest, Parked
    <3>2. ASSUME NEW bound \in Nat, Has(s), mem[s].age <= bound + elapsed[s],
                 elapsed'[s] = elapsed[s] + 1
          PROVE  mem'[s].age <= bound + elapsed'[s]
      <4>1. /\ mem[s].age \in Nat /\ mem'[s].age \in Nat /\ elapsed[s] \in Nat
            /\ mem'[s].age <= mem[s].age + 1
        BY <3>2, <2>2, <2>8
      <4>2. QED
        BY <3>2, <4>1
    <3>3. /\ FetchTimeout \in Nat /\ FetchTimeout + Latency \in Nat
          /\ YoungBound(s) \in Nat /\ YoungBound(s) + Latency \in Nat
      BY BoundFacts, DurationFacts
    <3>4. /\ pc[s] = "persist" => mem'[s].age <= FetchTimeout + elapsed'[s]
          /\ pc[s] = "err" /\ ~lastFailed[s] =>
               mem'[s].age <= FetchTimeout + Latency + elapsed'[s]
          /\ pc[s] = "ok" => mem'[s].age <= YoungBound(s) + elapsed'[s]
      BY <3>1, <3>2, <3>3, <2>9, Zenon DEF Young, Result
    <3>5. pc[s] = "release" /\ boot[s] = "succeeded" =>
            Has(s) /\ mem'[s].age <= YoungBound(s) + Latency + elapsed'[s]
      BY <3>1, <3>2, <3>3, <2>9, Zenon DEF Young
    <3>6. YoungBound(s)' = YoungBound(s)
      BY DEF YoungBound, FetchTtlFor, RefreshDisabled
    <3>7. QED
      BY <2>1, <2>4, <3>4, <3>5, <3>6 DEF Young
  <2>11. Expired(s)'
    <3>1. ASSUME Has(s), mem[s].age >= FetchTtlFor(s) PROVE mem'[s].age >= FetchTtlFor(s)
      <4>1. /\ mem[s].age \in Nat /\ mem'[s].age \in Nat /\ FetchTtlFor(s) \in Nat
            /\ mem[s].age <= mem'[s].age
        BY <3>1, <2>8, RowFacts
      <4>2. QED
        BY <3>1, <4>1
    <3>2. /\ pc[s] = "fetch" /\ Has(s) => mem'[s].age >= FetchTtlFor(s)
          /\ pc[s] = "err" /\ lastFailed[s] /\ Has(s) => mem'[s].age >= FetchTtlFor(s)
      BY <3>1, <2>9, Zenon DEF Expired
    <3>3. FetchTtlFor(s)' = FetchTtlFor(s)
      BY DEF FetchTtlFor, RefreshDisabled
    <3>4. QED
      BY <2>1, <2>4, <3>2, <3>3 DEF Expired
  <2>12. Aging(s)'
    <3>1. /\ KeepBound(s) \in Nat /\ TtlFor(s) \in Nat /\ 1 <= TtlFor(s)
          /\ Latency \in Nat /\ FetchTimeout \in Nat
      BY RowFacts, BoundFacts, DurationFacts
    <3>2. KeepBound(s)' = KeepBound(s) /\ TtlFor(s)' = TtlFor(s)
      BY DEF KeepBound, TtlFor, FetchTtlFor, StaleWindowFor, RefreshDisabled
    <3>3. Has(s) => /\ mem[s].age \in Nat /\ mem'[s].age \in Nat
                    /\ mem'[s].age <= mem[s].age + 1
      BY <2>8
    <3>4. elapsed[s] \in Nat /\ elapsed'[s] \in Nat
      BY <2>2
    <3>5. ASSUME NEW bound \in Nat, Has(s), mem[s].age <= bound + elapsed[s],
                 elapsed'[s] = elapsed[s] + 1
          PROVE  mem'[s].age <= bound + elapsed'[s]
      BY <3>3, <3>4, <3>5
    <3>6. ASSUME Has(s), tick[s] \in 1..TtlFor(s),
                 mem[s].age <= KeepBound(s) + TtlFor(s) - tick[s]
          PROVE  /\ tick'[s] = tick[s] - 1 =>
                      mem'[s].age <= KeepBound(s) + TtlFor(s) - tick'[s]
                 /\ mem'[s].age <= KeepBound(s) + TtlFor(s) + elapsed'[s]
      BY <3>1, <3>3, <3>4, <3>6
    <3>7. /\ KeepBound(s) + TtlFor(s) \in Nat /\ KeepBound(s) + TtlFor(s) + Latency \in Nat
          /\ KeepBound(s) + TtlFor(s) + Latency + FetchTimeout \in Nat
      BY <3>1
    <3>8. SUFFICES ASSUME done[s], ~RefreshDisabled(s), ~cancelled,
                          boot[s] = "succeeded", Has(s)
                   PROVE  Aging(s)'
      BY <2>1, <2>4, Zenon DEF Aging
    <3>9. CASE pc[s] = "wait" /\ ~tickC[s]
      <4>1. HasTicker(s) /\ AtRest(s) /\ tick[s] \in 1..TtlFor(s)
        BY <3>8, <3>9, <2>9 DEF HasTicker, AtRest, Parked, Timing
      <4>2. mem[s].age <= KeepBound(s) + TtlFor(s) - tick[s]
        BY <3>8, <3>9, <2>9 DEF Aging
      <4>3. CASE Fires(s)
        <5>1. mem'[s].age <= KeepBound(s) + TtlFor(s) + elapsed'[s] /\ tickC'[s]
          BY <3>6, <3>8, <4>1, <4>2, <4>3, <2>5, Zenon
        <5>2. QED
          BY <5>1, <3>2, <3>9, <2>1 DEF Aging
      <4>4. CASE ~Fires(s)
        <5>1. mem'[s].age <= KeepBound(s) + TtlFor(s) - tick'[s] /\ ~tickC'[s]
          BY <3>6, <3>8, <3>9, <4>1, <4>2, <4>4, <2>5, Zenon
        <5>2. QED
          BY <5>1, <3>2, <3>9, <2>1 DEF Aging
      <4>5. QED
        BY <4>3, <4>4
    <3>10. CASE pc[s] = "wait" /\ tickC[s]
      <4>1. elapsed'[s] = elapsed[s] + 1 /\ tickC'[s]
        BY <3>10, <2>2, <2>5 DEF AtRest
      <4>2. mem[s].age <= KeepBound(s) + TtlFor(s) + elapsed[s]
        BY <3>8, <3>10, <2>9 DEF Aging
      <4>3. mem'[s].age <= KeepBound(s) + TtlFor(s) + elapsed'[s]
        BY <4>1, <4>2, <3>5, <3>7, <3>8, Zenon
      <4>4. QED
        BY <3>2, <3>10, <4>1, <4>3, <2>1 DEF Aging
    <3>11. CASE pc[s] # "wait"
      <4>1. pc[s] = "fetch" \/ pc[s] = "err" => elapsed'[s] = elapsed[s] + 1
        BY <2>2 DEF AtRest, Parked
      <4>2. /\ pc[s] = "fetch" =>
                 mem[s].age <= KeepBound(s) + TtlFor(s) + Latency + elapsed[s]
            /\ pc[s] = "err" /\ lastFailed[s] =>
                 mem[s].age <= KeepBound(s) + TtlFor(s) + Latency + FetchTimeout + elapsed[s]
        BY <3>8, <2>9, Zenon DEF Aging
      <4>3. /\ pc[s] = "fetch" =>
                 mem'[s].age <= KeepBound(s) + TtlFor(s) + Latency + elapsed'[s]
            /\ pc[s] = "err" /\ lastFailed[s] =>
                 mem'[s].age <= KeepBound(s) + TtlFor(s) + Latency + FetchTimeout + elapsed'[s]
        BY <4>1, <4>2, <3>5, <3>7, <3>8, Zenon
      <4>4. QED
        BY <3>2, <3>11, <4>3, <2>1 DEF Aging
    <3>12. QED
      BY <3>9, <3>10, <3>11
  <2>13. Snapshot(s)'
    BY <2>1, <2>2, <2>3, <2>4, OlderFacts, DurationFacts
    DEF IndInv, Snapshot, Timing, Patience, At, AtRest, Parked, Has
  <2>14. QED
    BY <2>6, <2>7, <2>10, <2>11, <2>12, <2>13 DEF PerSource
<1>4. QED
  BY <1>1, <1>2, <1>3 DEF IndInv, PerSource
-----------------------------------------------------------------------------
(* The inductive invariant and the invariants it implies *)

\* Every step preserves IndInv.
LEMMA NextInv ==
  ASSUME IndInv, [Next]_vars
  PROVE  IndInv'
<1>1. CASE Startup
  BY <1>1, StartupStep
<1>2. CASE Cancel
  BY <1>2, CancelStep
<1>3. CASE Exit
  BY <1>3, ExitStep
<1>4. CASE SignalReady
  BY <1>4, SignalReadyStep
<1>5. CASE Advance
  BY <1>5, AdvanceStep
<1>6. ASSUME NEW s \in Sources, GoroutineStep(s) PROVE IndInv'
  BY <1>6, AbandonBootstrapStep, AttemptStep, FetchOkStep, FetchFailStep,
     PersistOkStep, PersistFailStep, BootstrapOkStep, BootstrapRetryStep,
     BootstrapGiveUpStep, DelayOverStep, ReleaseStep, WakeStep, SteadyOkStep,
     SteadyErrStep, StopSteadyStep
  DEF GoroutineStep
<1>7. CASE UNCHANGED vars
  <2>1. TypeOK' /\ Lifecycle'
    BY <1>7 DEF vars, IndInv, TypeOK, CacheTypeOK, Lifecycle
  <2>2. ASSUME NEW s \in Sources PROVE PerSource(s)'
    <3>1. PerSource(s) /\ UnchangedAt(s) /\ (cancelled => cancelled')
      BY <1>7 DEF vars, IndInv, PerSource, UnchangedAt
    <3>2. QED
      BY <3>1, Frame
  <2>3. QED
    BY <2>1, <2>2 DEF IndInv, PerSource
<1>8. QED
  BY <1>1, <1>2, <1>3, <1>4, <1>5, <1>6, <1>7 DEF Next

\* The invariant holds in every reachable state, whatever the rows, the
\* intervals, the windows, the timeout and the scheduling latency.
THEOREM Invariance == Spec => []IndInv
<1>1. Init => IndInv
  BY InitInv
<1>2. IndInv /\ [Next]_vars => IndInv'
  BY NextInv
<1>3. QED
  BY <1>1, <1>2, PTL DEF Spec

-----------------------------------------------------------------------------
(* The invariants the runs check *)

\* Every variable keeps its type; in particular the attempt counter of
\* bootstrapAndRun never passes its maximum.
THEOREM TypeCorrect == Spec => []TypeOK
<1>1. IndInv => TypeOK
  BY DEF IndInv
<1>2. QED
  BY <1>1, Invariance, PTL

\* Ready closes only over settled sources: Done is called after markBootstrap
\* on every path that does not give up on a cancelled ctx.
THEOREM ReadySettled == Spec => []ReadyMeansSettled
<1>1. IndInv => ReadyMeansSettled
  BY DurationFacts, Zenon DEF IndInv, Lifecycle, Control, ReadyMeansSettled
<1>2. QED
  BY <1>1, Invariance, PTL

\* No payload that is served for a refreshed source is older than the
\* staleness bound: the latest tick, fetch and drop never miss it.
THEOREM StalenessBounded == Spec => []ServedAgeBounded
<1>1. ASSUME IndInv, NEW s \in Sources, done[s], boot[s] = "succeeded", ~cancelled,
             Has(s), ~RefreshDisabled(s)
      PROVE  mem[s].age <= StalenessBound(s)
  <2>1. mem[s].age \in Nat /\ elapsed[s] \in Nat /\ tick[s] \in Nat
    BY <1>1 DEF IndInv, TypeOK, CacheTypeOK, Payload, Has
  <2>2. pc[s] \in {"wait", "fetch", "persist", "ok", "err"}
    BY <1>1 DEF IndInv, TypeOK, Control, Positions, Busy, Parked
  <2>3. Control(s) /\ Timing(s) /\ Young(s) /\ Aging(s)
    BY <1>1, Zenon DEF IndInv
  <2>4. /\ KeepBound(s) \in Nat /\ YoungBound(s) \in Nat /\ TtlFor(s) \in Nat /\ 1 <= TtlFor(s)
        /\ FetchTimeout + Latency <= YoungBound(s)
        /\ Latency \in Nat /\ FetchTimeout \in Nat
    BY RowFacts, BoundFacts, DurationFacts
  <2>5. YoungBound(s) + 2 * Latency <= KeepBound(s)
    BY <1>1, BoundFacts, Zenon
  <2>6. StalenessBound(s) = KeepBound(s) + TtlFor(s) + FetchTimeout + 2 * Latency
    BY DEF StalenessBound
  <2>7. CASE pc[s] \in {"persist", "ok"} \/ (pc[s] = "err" /\ ~lastFailed[s])
    <3>1. elapsed[s] <= Latency
      BY <2>3, <2>7 DEF Timing
    <3>2. \/ mem[s].age <= FetchTimeout + elapsed[s]
          \/ mem[s].age <= YoungBound(s) + elapsed[s]
          \/ mem[s].age <= FetchTimeout + Latency + elapsed[s]
      BY <2>3, <2>7, Zenon DEF Young
    <3>3. QED
      BY <2>1, <2>4, <2>5, <2>6, <3>1, <3>2
  <2>8. CASE pc[s] = "wait"
    <3>1. elapsed[s] <= Latency
      BY <2>3, <2>8 DEF Timing
    <3>2. \/ mem[s].age <= KeepBound(s) + TtlFor(s) - tick[s]
          \/ mem[s].age <= KeepBound(s) + TtlFor(s) + elapsed[s]
      BY <1>1, <2>3, <2>8, Zenon DEF Aging
    <3>3. QED
      BY <2>1, <2>4, <2>6, <3>1, <3>2
  <2>9. CASE pc[s] = "fetch"
    <3>1. elapsed[s] <= FetchTimeout
      BY <2>3, <2>9 DEF Timing
    <3>2. mem[s].age <= KeepBound(s) + TtlFor(s) + Latency + elapsed[s]
      BY <1>1, <2>3, <2>9, Zenon DEF Aging
    <3>3. QED
      BY <2>1, <2>4, <2>6, <3>1, <3>2
  <2>10. CASE pc[s] = "err" /\ lastFailed[s]
    <3>1. elapsed[s] <= Latency
      BY <2>3, <2>10 DEF Timing
    <3>2. mem[s].age <= KeepBound(s) + TtlFor(s) + Latency + FetchTimeout + elapsed[s]
      BY <1>1, <2>3, <2>10, Zenon DEF Aging
    <3>3. QED
      BY <2>1, <2>4, <2>6, <3>1, <3>2
  <2>11. QED
    BY <2>2, <2>7, <2>8, <2>9, <2>10
<1>2. ASSUME IndInv, Serving, NEW s \in Enabled
      PROVE  s \in Sources /\ done[s] /\ boot[s] = "succeeded"
  BY <1>2, DurationFacts DEF IndInv, Lifecycle, Serving, AllSucceeded
<1>3. IndInv => ServedAgeBounded
  BY <1>1, <1>2, Zenon DEF ServedAgeBounded
<1>4. QED
  BY <1>3, Invariance, PTL

\* The snapshot on disk is never newer than the entry in memory.
THEOREM DiskIsOlder == Spec => []DiskNotNewer
<1>1. IndInv => DiskNotNewer
  BY DEF IndInv, Snapshot, DiskNotNewer
<1>2. QED
  BY <1>1, Invariance, PTL

\* A reported success is backed by a payload whenever the goroutine rests.
THEOREM SuccessIsCached == Spec => []ReportedSuccessIsCached
<1>1. IndInv => ReportedSuccessIsCached
  BY DEF IndInv, Lifecycle, Result, Parked, ReportedSuccessIsCached
<1>2. QED
  BY <1>1, Invariance, PTL
-----------------------------------------------------------------------------
(* Action properties *)

\* A source turns green only with a payload that refresh has just vouched for.
THEOREM GreenIsRecent == Spec => GreenNeedsRecentPayload
<1> DEFINE TurnsGreen(s) == boot[s] # "succeeded" /\ boot'[s] = "succeeded"
           Recent(s) == Has(s) /\ mem[s].age <= RecentBound(s)
<1>1. ASSUME IndInv, Next, NEW s \in Enabled, TurnsGreen(s)
      PROVE  BootstrapOk(s) \/ SteadyOk(s)
  <2>1. CASE Startup \/ Exit
    BY <1>1, <2>1, DurationFacts DEF Startup, Exit, Fresh
  <2>2. CASE Cancel \/ SignalReady \/ Advance
    BY <1>1, <2>2 DEF Cancel, SignalReady, Advance
  <2>3. ASSUME NEW t \in Sources, GoroutineStep(t) PROVE BootstrapOk(s) \/ SteadyOk(s)
    BY <1>1, <2>3, DurationFacts, Zenon
    DEF GoroutineStep, AbandonBootstrap, Attempt, FetchOk, FetchFail, PersistOk,
        PersistFail, BootstrapOk, BootstrapRetry, BootstrapGiveUp, DelayOver, Release,
        Wake, SteadyOk, SteadyErr, StopSteady, MarkBootstrap, IndInv, TypeOK
  <2>4. QED
    BY <1>1, <2>1, <2>2, <2>3 DEF Next
<1>2. ASSUME IndInv, NEW s \in Enabled, BootstrapOk(s) \/ SteadyOk(s)
      PROVE  Recent(s)
  <2>1. s \in Sources /\ pc[s] = "ok"
    BY <1>2, DurationFacts, Zenon DEF BootstrapOk, SteadyOk, At
  <2>2. Result(s) /\ Young(s) /\ Timing(s) /\ elapsed[s] \in Nat
    BY <1>2, <2>1 DEF IndInv, TypeOK
  <2>3. Has(s) /\ mem[s].age \in Nat
    BY <1>2, <2>1, <2>2 DEF Result, Has, IndInv, TypeOK, CacheTypeOK, Payload
  <2>4. mem[s].age <= YoungBound(s) + elapsed[s] /\ elapsed[s] <= Latency
    BY <2>1, <2>2, Zenon DEF Young, Timing
  <2>5. FetchTtlFor(s) \in Nat /\ FetchTimeout \in Nat /\ Latency \in Nat
    BY <2>1, RowFacts, DurationFacts
  <2>6. YoungBound(s) \in Nat /\ RecentBound(s) \in Nat
        /\ YoungBound(s) + Latency <= RecentBound(s)
    BY <2>1, <2>5, BoundFacts DEF YoungBound, RecentBound, Larger
  <2>7. elapsed[s] \in Nat
    BY <2>2
  <2>8. mem[s].age \in Nat
    BY <2>3
  <2>9. mem[s].age <= RecentBound(s)
    BY <2>4, <2>5, <2>6, <2>7, <2>8
  <2>10. QED
    BY <2>3, <2>9
<1>3. IndInv /\ [Next]_vars => [\A s \in Enabled : TurnsGreen(s) => Recent(s)]_vars
  BY <1>1, <1>2 DEF vars
<1>4. QED
  BY <1>3, Invariance, PTL DEF Spec, GreenNeedsRecentPayload

\* While the process runs, Drop is the only step that loses a payload, and it
\* comes after a failed fetch, past the TTL and past the stale window.
THEOREM DropIsExpired == Spec => DropsOnlyExpired
<1> DEFINE Lost(s) == up /\ up' /\ Has(s) /\ mem'[s] = NoPayload
           Hopeless(s) == /\ State(s, TtlFor(s)) = "stale"
                          /\ mem[s].age > StaleWindowFor(s)
                          /\ outcome[s] = "error"
<1>1. ASSUME IndInv, Next, NEW s \in Sources, Lost(s)
      PROVE  SteadyErr(s) /\ ShouldDrop(s)
  <2>1. ~Startup /\ ~Exit /\ ~Cancel /\ ~SignalReady
    BY <1>1 DEF Startup, Exit, Cancel, SignalReady, Has
  <2>2. ~Advance
    BY <1>1, OlderFacts, Zenon DEF Advance, AgeCache, Has, IndInv, TypeOK, CacheTypeOK
  <2>3. PICK t \in Sources : GoroutineStep(t)
    BY <1>1, <2>1, <2>2 DEF Next
  <2>4. ~FetchOk(t)
    BY <1>1, DurationFacts
    DEF FetchOk, Set, At, Has, IndInv, TypeOK, CacheTypeOK, Timing, Payload
  <2>5. SteadyErr(t)
    BY <1>1, <2>3, <2>4, Zenon
    DEF GoroutineStep, AbandonBootstrap, Attempt, FetchFail, MarkFailed, PersistOk,
        PersistFail, BootstrapOk, BootstrapRetry, BootstrapGiveUp, DelayOver, Release,
        Wake, SteadyOk, StopSteady, Has
  <2>6. QED
    BY <1>1, <2>5, Zenon DEF SteadyErr, Drop, cacheVars, Has, IndInv, TypeOK, CacheTypeOK
<1>2. ASSUME IndInv, NEW s \in Sources, SteadyErr(s), ShouldDrop(s)
      PROVE  Hopeless(s)
  <2>1. Control(s) /\ Result(s) /\ Expired(s) /\ pc[s] = "err" /\ done[s]
    BY <1>2, Zenon DEF IndInv, SteadyErr, At
  <2>2. mem[s].age \in Nat /\ ~RefreshDisabled(s)
    BY <1>2, <2>1 DEF Control, ShouldDrop, Has, IndInv, TypeOK, CacheTypeOK, Payload
  <2>3. FetchTtlFor(s) \in Nat /\ TtlFor(s) = FetchTtlFor(s)
    BY <2>2, RowFacts, Zenon
  <2>4. /\ Has(s) /\ outcome[s] = "error"
        /\ mem[s].age > StaleWindowFor(s) /\ mem[s].age >= FetchTtlFor(s)
    BY <1>2, <2>1, Zenon DEF Result, Expired, ShouldDrop
  <2>5. mem[s].age \in Nat
    BY <2>2, Zenon
  <2>6. mem[s].age >= FetchTtlFor(s)
    BY <2>4
  <2>7. ~(mem[s].age < TtlFor(s))
    <3>1. \A x, y \in Nat : x >= y => ~(x < y)
      OBVIOUS
    <3>2. QED
      BY <2>3, <2>5, <2>6, <3>1, Zenon
  <2>8. QED
    BY <2>4, <2>7, Zenon DEF State
<1>3. IndInv /\ [Next]_vars => [\A s \in Sources : Lost(s) => Hopeless(s)]_vars
  BY <1>1, <1>2, Zenon DEF vars
<1>4. QED
  BY <1>3, Invariance, PTL DEF Spec, DropsOnlyExpired
\* Once Ready is closed the goroutine of a never-refreshed source is parked or
\* gone, and no other step touches its verdict or its payload but to age it.
THEOREM PinnedFinal == Spec => PinnedVerdictIsFinal
<1> DEFINE Pinned(s) == up /\ up' /\ ready /\ RefreshDisabled(s)
           Same(s) == boot'[s] = boot[s] /\ Get(s)' = Get(s)
<1>1. ASSUME IndInv, Next, NEW s \in Enabled, Pinned(s)
      PROVE  Same(s)
  <2>1. s \in Sources /\ pc[s] \in {"hold", "exited"}
    BY <1>1, DurationFacts DEF IndInv, Lifecycle, Control
  <2>2. ~Startup /\ ~Exit
    BY <1>1 DEF Startup, Exit
  <2>3. CASE Cancel \/ SignalReady
    BY <2>3 DEF Cancel, SignalReady, Get, Has
  <2>4. CASE Advance
    <3>1. boot' = boot /\ AgeCache
      BY <2>4, Zenon DEF Advance
    <3>2. mem'[s] = Older(mem[s]) /\ mem[s] \in Payload \cup {NoPayload}
      BY <1>1, <2>1, <3>1 DEF AgeCache, IndInv, TypeOK, CacheTypeOK
    <3>3. Has(s) => Older(mem[s]).body = mem[s].body
      BY <3>2 DEF Older, Has, Payload
    <3>4. Older(mem[s]) = NoPayload <=> mem[s] = NoPayload
      BY <3>2, OlderFacts
    <3>5. QED
      BY <3>1, <3>2, <3>3, <3>4 DEF Get, Has
  <2>5. ASSUME NEW t \in Sources, GoroutineStep(t) PROVE boot'[s] = boot[s] /\ mem'[s] = mem[s]
    <3>1. CASE t = s
      BY <1>1, <2>1, <2>5, <3>1, Zenon
      DEF GoroutineStep, AbandonBootstrap, Attempt, FetchOk, FetchFail, PersistOk,
          PersistFail, BootstrapOk, BootstrapRetry, BootstrapGiveUp, DelayOver, Release,
          Wake, SteadyOk, SteadyErr, StopSteady, At
    <3>2. CASE t # s
      BY <1>1, <2>1, <2>5, <3>2, Zenon
      DEF GoroutineStep, AbandonBootstrap, Attempt, FetchOk, FetchFail, PersistOk,
          PersistFail, BootstrapOk, BootstrapRetry, BootstrapGiveUp, DelayOver, Release,
          Wake, SteadyOk, SteadyErr, StopSteady, MarkBootstrap, Set, MarkFailed, Drop,
          cacheVars, IndInv, TypeOK, CacheTypeOK
    <3>3. QED
      BY <3>1, <3>2
  <2>6. QED
    BY <1>1, <2>2, <2>3, <2>4, <2>5 DEF Next, Get, Has
<1>2. IndInv /\ [Next]_vars => [\A s \in Enabled : Pinned(s) => Same(s)]_vars
  BY <1>1 DEF vars
<1>3. QED
  BY <1>2, Invariance, PTL DEF Spec, PinnedVerdictIsFinal

-----------------------------------------------------------------------------
(* Coordinator implements BootstrapGate *)

held == [s \in Sources |-> Has(s)]
Pinned == {s \in Sources : RefreshDisabled(s)}

\* The steps that fetch, retry, wait or only write the disk are invisible.
LEMMA Invisible ==
  ASSUME up' = up, cancelled' = cancelled, ready' = ready, boot' = boot, held' = held
  PROVE  UNCHANGED Gate!gateVars
BY DEF Gate!gateVars, held

\* Where a goroutine is, the process runs and the row is enabled.
LEMMA Alive ==
  ASSUME IndInv, NEW s \in Sources, pc[s] # "off"
  PROVE  up /\ s \in Enabled
BY DEF IndInv, Lifecycle

\* A refresh that stores a payload obtains it for the gate.
LEMMA FetchOkObtains ==
  ASSUME IndInv, NEW s \in Sources, FetchOk(s)
  PROVE  Gate!Obtain(s)
<1> PICK b \in Bodies : Set(s, [body |-> b, age |-> elapsed[s]])
  BY DEF FetchOk
<1>1. [body |-> b, age |-> elapsed[s]] # NoPayload
  BY DurationFacts DEF FetchOk, At, IndInv, TypeOK, Timing, Payload
<1>2. held' = [held EXCEPT ![s] = TRUE]
  BY <1>1, Zenon DEF Set, held, Has, IndInv, TypeOK, CacheTypeOK
<1>3. up /\ s \in Enabled
  BY Alive, Zenon DEF FetchOk, At
<1>4. QED
  BY <1>2, <1>3 DEF FetchOk, Gate!Obtain, held

\* refresh returned nil: the source is green, and its payload is there.
LEMMA OkTurnsGreen ==
  ASSUME IndInv, NEW s \in Sources,
         BootstrapOk(s) \/ (SteadyOk(s) /\ boot[s] = "failed")
  PROVE  Gate!TurnGreen(s)
<1>1. up /\ s \in Enabled /\ pc[s] = "ok"
  BY Alive, Zenon DEF BootstrapOk, SteadyOk, At
<1>2. Has(s) /\ boot[s] # "succeeded"
  BY <1>1, Zenon DEF IndInv, Result, Control, BootstrapOk, SteadyOk, At
<1>3. held' = held /\ held[s]
  BY <1>2, Zenon DEF BootstrapOk, SteadyOk, held, Has
<1>4. QED
  BY <1>1, <1>2, <1>3, Zenon DEF BootstrapOk, SteadyOk, MarkBootstrap, Gate!TurnGreen, held

\* The bootstrap gives up before its Done, so before Ready closes.
LEMMA GiveUpBeforeOpen ==
  ASSUME IndInv, NEW s \in Sources, BootstrapGiveUp(s)
  PROVE  Gate!GiveUp(s)
<1>1. up /\ s \in Enabled /\ pc[s] = "err" /\ ~done[s]
  BY Alive DEF BootstrapGiveUp, At
<1>2. ~ready /\ boot[s] = "pending"
  BY <1>1, Zenon DEF IndInv, Lifecycle, Control
<1>3. held' = held
  BY DEF BootstrapGiveUp, held, Has
<1>4. QED
  BY <1>1, <1>2, <1>3 DEF BootstrapGiveUp, MarkBootstrap, Gate!GiveUp, held

\* Drop gives up a payload of a refreshed source after its bootstrap.
LEMMA DropLoses ==
  ASSUME IndInv, NEW s \in Sources, SteadyErr(s), ShouldDrop(s)
  PROVE  Gate!Lose(s)
<1>1. up /\ s \in Enabled /\ pc[s] = "err" /\ done[s]
  BY Alive DEF SteadyErr, At
<1>2. boot[s] # "pending" /\ s \notin Pinned
  BY <1>1, Zenon DEF IndInv, Control, Pinned
<1>3. held' = [held EXCEPT ![s] = FALSE]
  BY Zenon DEF SteadyErr, Drop, held, Has, IndInv, TypeOK, CacheTypeOK
<1>4. QED
  BY <1>1, <1>2, <1>3, Zenon DEF SteadyErr, Gate!Lose, held, Pinned

\* Every step of a goroutine is a step of the gate or a stutter.
LEMMA GoroutineRefines ==
  ASSUME IndInv, NEW s \in Sources, GoroutineStep(s)
  PROVE  [Gate!Next]_(Gate!gateVars)
<1>1. CASE FetchOk(s)
  BY <1>1, FetchOkObtains DEF Gate!Next
<1>2. CASE BootstrapOk(s) \/ (SteadyOk(s) /\ boot[s] = "failed")
  BY <1>2, OkTurnsGreen DEF Gate!Next
<1>3. CASE BootstrapGiveUp(s)
  BY <1>3, GiveUpBeforeOpen DEF Gate!Next
<1>4. CASE SteadyErr(s) /\ ShouldDrop(s)
  BY <1>4, DropLoses DEF Gate!Next
<1>5. CASE \/ AbandonBootstrap(s) \/ Attempt(s) \/ FetchFail(s) \/ PersistOk(s)
           \/ PersistFail(s) \/ BootstrapRetry(s) \/ DelayOver(s) \/ Release(s)
           \/ Wake(s) \/ StopSteady(s) \/ (SteadyOk(s) /\ boot[s] # "failed")
           \/ (SteadyErr(s) /\ ~ShouldDrop(s))
  <2>1. /\ up' = up /\ cancelled' = cancelled /\ ready' = ready /\ boot' = boot
        /\ mem' = mem
    BY <1>5, Zenon
    DEF AbandonBootstrap, Attempt, FetchFail, MarkFailed, PersistOk, PersistFail,
        BootstrapRetry, DelayOver, Release, Wake, StopSteady, SteadyOk, SteadyErr,
        cacheVars
  <2>2. QED
    BY <2>1, Invisible DEF held, Has
<1>6. QED
  BY <1>1, <1>2, <1>3, <1>4, <1>5 DEF GoroutineStep

\* Every step is a step of the gate or a stutter.
LEMMA NextRefines ==
  ASSUME IndInv, [Next]_vars
  PROVE  [Gate!Next]_(Gate!gateVars)
<1>1. CASE Startup
  BY <1>1 DEF Startup, Fresh, Gate!Next, Gate!Begin, Gate!Unsettled, Has
<1>2. CASE Exit
  BY <1>2, Zenon DEF Exit, ClearMemory, Fresh, Gate!Next, Gate!End, Gate!Unsettled, Has
<1>3. CASE Cancel
  BY <1>3 DEF Cancel, Gate!Next, Gate!Stop, Has
<1>4. CASE SignalReady
  <2>1. cancelled \/ \A s \in Enabled : boot[s] # "pending"
    BY <1>4, DurationFacts, Zenon DEF SignalReady, IndInv, Control
  <2>2. QED
    BY <1>4, <2>1, Zenon DEF SignalReady, Gate!Next, Gate!Open, Has
<1>5. CASE Advance
  <2>1. held' = held
    BY <1>5, OlderFacts DEF Advance, AgeCache, held, Has, IndInv, TypeOK, CacheTypeOK
  <2>2. QED
    BY <1>5, <2>1, Invisible, Zenon DEF Advance
<1>6. ASSUME NEW s \in Sources, GoroutineStep(s) PROVE [Gate!Next]_(Gate!gateVars)
  BY <1>6, GoroutineRefines
<1>7. CASE UNCHANGED vars
  BY <1>7, Invisible DEF vars, held, Has
<1>8. QED
  BY <1>1, <1>2, <1>3, <1>4, <1>5, <1>6, <1>7 DEF Next

\* Within one life of the process statuses only move forward, a source turns
\* green only while its payload is held and gives up only before Ready closes,
\* and Ready closes once, over settled sources unless ctx is done.
THEOREM Refinement == Spec => ImplementsGate
<1>1. Init => Gate!Init
  BY Zenon DEF Init, EmptyMemory, Gate!Init, Gate!Unsettled, Has
<1>2. IndInv /\ [Next]_vars => [Gate!Next]_(Gate!gateVars)
  BY NextRefines
<1>3. QED
  BY <1>1, <1>2, Invariance, PTL DEF Spec, ImplementsGate, Gate!Spec
=============================================================================
