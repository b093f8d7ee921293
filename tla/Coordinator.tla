---------------------------- MODULE Coordinator ----------------------------
(***************************************************************************)
(* The fetch coordinator of internal/fetcher/scheduler.go over the cache:  *)
(* one goroutine per enabled source that bootstraps the source and then    *)
(* refreshes it on a ticker, the Ready channel, cancellation of the        *)
(* context, and the death and restart of the process around them.          *)
(*                                                                         *)
(* A goroutine's position is pc[s].  Code between two positions runs in    *)
(* one step; there is a position before and after every fetch, every disk  *)
(* write and every change of the bootstrap state, because the HTTP         *)
(* handlers read between them.                                             *)
(***************************************************************************)
EXTENDS Cache, Integers

CONSTANTS
  Enabled,              \* rows with enable = Enable
  RefreshSeconds,       \* per row: negative = never, 0 = default, positive = own
  StaleOnErrorSeconds,  \* per row: 0 = default
  DefaultTTL, DefaultStaleOnError,
  BootstrapMaxAttempts, AttemptDelay,
  FetchTimeout,         \* longest fetch (UpstreamFetcher.Timeout)
  Latency               \* longest a runnable goroutine waits to be scheduled

VARIABLES
  up,        \* the process runs
  cancelled, \* ctx is done
  ready,     \* the Ready channel is closed
  boot,      \* sourceCtx.bootstrap
  outcome,   \* sourceCtx.lastResult: nil, a success or an error
  pc,        \* position of the source's goroutine
  done,      \* the source has called bootstrapWG.Done
  attempt,   \* the bootstrap loop's counter
  elapsed,   \* time spent at pc, while it is a position that must end
  tick,      \* time to the next tick of the source's ticker
  tickC      \* a tick waits in ticker.C

goVars == <<pc, done, attempt, elapsed, tick, tickC>>
vars == <<mem, lastFailed, disk, up, cancelled, ready, boot, outcome,
          pc, done, attempt, elapsed, tick, tickC>>

RefreshDisabled(s) == RefreshSeconds[s] < 0

NeverRefreshTTL == AgeCap + 1

TtlFor(s) ==
  IF RefreshDisabled(s) THEN NeverRefreshTTL
  ELSE IF RefreshSeconds[s] > 0 THEN RefreshSeconds[s] ELSE DefaultTTL

FetchTtlFor(s) == IF RefreshDisabled(s) THEN DefaultTTL ELSE TtlFor(s)

StaleWindowFor(s) ==
  IF StaleOnErrorSeconds[s] > 0 THEN StaleOnErrorSeconds[s] ELSE DefaultStaleOnError

MaxAttempts == IF BootstrapMaxAttempts < 1 THEN 1 ELSE BootstrapMaxAttempts

\* Weaker than what config.Load accepts; AgeCap lies above what ages are compared with.
ASSUME CoordinatorAssumption ==
  /\ Enabled \subseteq Sources
  /\ RefreshSeconds \in [Sources -> Int]
  /\ StaleOnErrorSeconds \in [Sources -> Nat]
  /\ DefaultTTL \in Nat \ {0}
  /\ DefaultStaleOnError \in Nat \ {0}
  /\ BootstrapMaxAttempts \in Int
  /\ AttemptDelay \in Nat
  /\ FetchTimeout \in 0..AgeCap
  /\ Latency \in Nat
  /\ \A s \in Sources : FetchTtlFor(s) <= AgeCap /\ StaleWindowFor(s) < AgeCap

Busy == {"attempt", "fetch", "persist", "ok", "err", "delay", "release"}
Parked == {"wait", "hold"}
Positions == {"off", "exited"} \cup Busy \cup Parked

TypeOK ==
  /\ CacheTypeOK
  /\ up \in BOOLEAN /\ cancelled \in BOOLEAN /\ ready \in BOOLEAN
  /\ boot \in [Sources -> {"pending", "succeeded", "failed"}]
  /\ outcome \in [Sources -> {"none", "success", "error"}]
  /\ pc \in [Sources -> Positions]
  /\ done \in [Sources -> BOOLEAN]
  /\ attempt \in [Sources -> 1..MaxAttempts]
  /\ elapsed \in [Sources -> Nat]
  /\ tick \in [Sources -> Nat]
  /\ tickC \in [Sources -> BOOLEAN]

\* NewCoordinator's sources and an empty goroutine table.
Fresh(started) ==
  /\ cancelled' = FALSE
  /\ ready' = FALSE
  /\ boot' = [s \in Sources |-> IF s \in Enabled THEN "pending" ELSE "succeeded"]
  /\ outcome' = [s \in Sources |-> "none"]
  /\ pc' = [s \in Sources |-> IF started /\ s \in Enabled THEN "attempt" ELSE "off"]
  /\ done' = [s \in Sources |-> FALSE]
  /\ attempt' = [s \in Sources |-> 1]
  /\ elapsed' = [s \in Sources |-> 0]
  /\ tick' = [s \in Sources |-> 0]
  /\ tickC' = [s \in Sources |-> FALSE]

Init ==
  /\ EmptyMemory
  /\ disk = [s \in Sources |-> NoPayload]
  /\ up = FALSE
  /\ cancelled = FALSE
  /\ ready = FALSE
  /\ boot = [s \in Sources |-> IF s \in Enabled THEN "pending" ELSE "succeeded"]
  /\ outcome = [s \in Sources |-> "none"]
  /\ pc = [s \in Sources |-> "off"]
  /\ done = [s \in Sources |-> FALSE]
  /\ attempt = [s \in Sources |-> 1]
  /\ elapsed = [s \in Sources |-> 0]
  /\ tick = [s \in Sources |-> 0]
  /\ tickC = [s \in Sources |-> FALSE]
-----------------------------------------------------------------------------
(* The process *)

\* main.run: rehydrate the cache, build the coordinator, go coord.Start(ctx).
Startup ==
  /\ ~up
  /\ up' = TRUE
  /\ \E skipped \in SUBSET Sources : LoadFromDisk(skipped)
  /\ Fresh(TRUE)

\* SIGINT or SIGTERM: signal.NotifyContext cancels ctx.
Cancel ==
  /\ up /\ ~cancelled
  /\ cancelled' = TRUE
  /\ UNCHANGED <<mem, lastFailed, disk, up, ready, boot, outcome, pc, done,
                 attempt, elapsed, tick, tickC>>

\* main returns without waiting for the goroutines, or the process is killed.
Exit ==
  /\ up
  /\ up' = FALSE
  /\ ClearMemory
  /\ UNCHANGED disk
  /\ Fresh(FALSE)

\* Mutant of SignalReady: Ready closes with the first source.
SignalReadyEarly ==
  /\ up /\ ~ready
  /\ \E s \in Enabled : done[s]
  /\ ready' = TRUE
  /\ UNCHANGED <<mem, lastFailed, disk, up, cancelled, boot, outcome, pc, done,
                 attempt, elapsed, tick, tickC>>

\* Start, once bootstrapWG.Wait returns (at once when nothing is enabled).
SignalReady ==
  /\ up /\ ~ready
  /\ \A s \in Enabled : done[s]
  /\ ready' = TRUE
  /\ UNCHANGED <<mem, lastFailed, disk, up, cancelled, boot, outcome, pc, done,
                 attempt, elapsed, tick, tickC>>

\* AllSucceeded.
AllSucceeded == \A s \in Enabled : boot[s] = "succeeded"

\* The bootstrap gate of the subscription handler.
Serving == up /\ ready /\ AllSucceeded
-----------------------------------------------------------------------------
(* The goroutine of one source: bootstrapAndRun and runSteady *)

At(s, p) == pc[s] = p
Goto(s, p) ==
  /\ pc' = [pc EXCEPT ![s] = p]
  /\ elapsed' = [elapsed EXCEPT ![s] = 0]

\* Mutant of Refresh: any cached entry counts as fresh.
RefreshOnlyMissing(s) ==
  Goto(s, IF State(s, FetchTtlFor(s)) = "missing" THEN "fetch" ELSE "ok")

\* refresh, up to the fetch: RefreshIfStale returns at once on a fresh entry.
Refresh(s) == Goto(s, IF State(s, FetchTtlFor(s)) = "fresh" THEN "ok" ELSE "fetch")

\* Mutant of AbandonBootstrap: no deferred Done.
AbandonWithoutDone(s) ==
  /\ At(s, "attempt") \/ At(s, "delay")
  /\ cancelled
  /\ Goto(s, "exited")
  /\ UNCHANGED <<mem, lastFailed, disk, up, cancelled, ready, boot, outcome, done,
                 attempt, tick, tickC>>

\* The early returns of bootstrapAndRun: the deferred Done, no bootstrap state.
AbandonBootstrap(s) ==
  /\ At(s, "attempt") \/ At(s, "delay")
  /\ cancelled
  /\ Goto(s, "exited")
  /\ done' = [done EXCEPT ![s] = TRUE]
  /\ UNCHANGED <<mem, lastFailed, disk, up, cancelled, ready, boot, outcome,
                 attempt, tick, tickC>>

\* An iteration of the bootstrap loop.
Attempt(s) ==
  /\ At(s, "attempt")
  /\ ~cancelled
  /\ Refresh(s)
  /\ UNCHANGED <<mem, lastFailed, disk, up, cancelled, ready, boot, outcome,
                 done, attempt, tick, tickC>>

\* A fetch that returns a payload: recordResult, then set's in-memory part.
\* storedAt was read before the fetch, so the new entry is `elapsed` old.
FetchOk(s) ==
  /\ At(s, "fetch")
  /\ \E b \in Bodies : Set(s, [body |-> b, age |-> elapsed[s]])
  /\ outcome' = [outcome EXCEPT ![s] = "success"]
  /\ Goto(s, "persist")
  /\ UNCHANGED <<disk, up, cancelled, ready, boot, done, attempt, tick, tickC>>

\* Mutant of FetchFail: recordResult only for successes.
FetchFailUnrecorded(s) ==
  /\ At(s, "fetch")
  /\ MarkFailed(s)
  /\ Goto(s, "err")
  /\ UNCHANGED <<up, cancelled, ready, boot, outcome, done, attempt, tick, tickC>>

\* A fetch that fails (network, timeout, status, parse, cancelled ctx).
FetchFail(s) ==
  /\ At(s, "fetch")
  /\ MarkFailed(s)
  /\ outcome' = [outcome EXCEPT ![s] = "error"]
  /\ Goto(s, "err")
  /\ UNCHANGED <<up, cancelled, ready, boot, done, attempt, tick, tickC>>

PersistOk(s) ==
  /\ At(s, "persist")
  /\ Persist(s)
  /\ Goto(s, "ok")
  /\ UNCHANGED <<mem, lastFailed, up, cancelled, ready, boot, outcome, done,
                 attempt, tick, tickC>>

\* A failing disk write makes RefreshIfStale return its error.
PersistFail(s) ==
  /\ At(s, "persist")
  /\ DiskEnabled
  /\ Goto(s, "err")
  /\ UNCHANGED <<mem, lastFailed, disk, up, cancelled, ready, boot, outcome,
                 done, attempt, tick, tickC>>

MarkBootstrap(s, b) == boot' = [boot EXCEPT ![s] = b]

\* Bootstrap refresh returned nil.
BootstrapOk(s) ==
  /\ At(s, "ok") /\ ~done[s]
  /\ MarkBootstrap(s, "succeeded")
  /\ Goto(s, "release")
  /\ UNCHANGED <<mem, lastFailed, disk, up, cancelled, ready, outcome, done,
                 attempt, tick, tickC>>

\* Mutant of BootstrapRetry: one attempt too many.
BootstrapRetryOnceMore(s) ==
  /\ At(s, "err") /\ ~done[s]
  /\ attempt[s] <= MaxAttempts
  /\ Goto(s, "delay")
  /\ UNCHANGED <<mem, lastFailed, disk, up, cancelled, ready, boot, outcome,
                 done, attempt, tick, tickC>>

\* Bootstrap refresh returned an error, and attempts remain.
BootstrapRetry(s) ==
  /\ At(s, "err") /\ ~done[s]
  /\ attempt[s] < MaxAttempts
  /\ Goto(s, "delay")
  /\ UNCHANGED <<mem, lastFailed, disk, up, cancelled, ready, boot, outcome,
                 done, attempt, tick, tickC>>

\* The last attempt returned an error.
BootstrapGiveUp(s) ==
  /\ At(s, "err") /\ ~done[s]
  /\ attempt[s] = MaxAttempts
  /\ MarkBootstrap(s, "failed")
  /\ Goto(s, "release")
  /\ UNCHANGED <<mem, lastFailed, disk, up, cancelled, ready, outcome, done,
                 attempt, tick, tickC>>

\* time.After(delay) fires.
DelayOver(s) ==
  /\ At(s, "delay")
  /\ elapsed[s] >= AttemptDelay
  /\ Goto(s, "attempt")
  /\ attempt' = [attempt EXCEPT ![s] = @ + 1]
  /\ UNCHANGED <<mem, lastFailed, disk, up, cancelled, ready, boot, outcome,
                 done, tick, tickC>>

\* Mutant of Release: runSteady refreshes once before it waits or parks.
ReleaseRefreshing(s) ==
  /\ At(s, "release")
  /\ done' = [done EXCEPT ![s] = TRUE]
  /\ Refresh(s)
  /\ tick' = [tick EXCEPT ![s] = IF RefreshDisabled(s) THEN 0 ELSE TtlFor(s)]
  /\ UNCHANGED <<mem, lastFailed, disk, up, cancelled, ready, boot, outcome,
                 attempt, tickC>>

\* bootstrapWG.Done, then runSteady up to its select.
Release(s) ==
  /\ At(s, "release")
  /\ done' = [done EXCEPT ![s] = TRUE]
  /\ Goto(s, IF RefreshDisabled(s) THEN "hold" ELSE "wait")
  /\ tick' = [tick EXCEPT ![s] = IF RefreshDisabled(s) THEN 0 ELSE TtlFor(s)]
  /\ UNCHANGED <<mem, lastFailed, disk, up, cancelled, ready, boot, outcome,
                 attempt, tickC>>

\* runSteady takes a tick.
Wake(s) ==
  /\ At(s, "wait") /\ tickC[s]
  /\ tickC' = [tickC EXCEPT ![s] = FALSE]
  /\ Refresh(s)
  /\ UNCHANGED <<mem, lastFailed, disk, up, cancelled, ready, boot, outcome,
                 done, attempt, tick>>

\* Mutant of SteadyOk: no promotion.
SteadyOkUnpromoted(s) ==
  /\ At(s, "ok") /\ done[s]
  /\ Goto(s, "wait")
  /\ UNCHANGED <<mem, lastFailed, disk, up, cancelled, ready, boot, outcome, done,
                 attempt, tick, tickC>>

\* A scheduled refresh returned nil: maybePromoteBootstrap.
SteadyOk(s) ==
  /\ At(s, "ok") /\ done[s]
  /\ IF boot[s] = "failed" THEN MarkBootstrap(s, "succeeded") ELSE UNCHANGED boot
  /\ Goto(s, "wait")
  /\ UNCHANGED <<mem, lastFailed, disk, up, cancelled, ready, outcome, done,
                 attempt, tick, tickC>>

\* Mutants of ShouldDrop: the IsZero test inverted; the window inclusive.
ShouldDropInverted(s) == ~lastFailed[s] /\ Has(s) /\ mem[s].age > StaleWindowFor(s)
ShouldDropInclusive(s) == lastFailed[s] /\ Has(s) /\ mem[s].age >= StaleWindowFor(s)

\* shouldDrop.
ShouldDrop(s) == lastFailed[s] /\ Has(s) /\ mem[s].age > StaleWindowFor(s)

\* Mutant of SteadyErr: a failed refresh turns the source red again.
SteadyErrDemotes(s) ==
  /\ At(s, "err") /\ done[s]
  /\ IF ShouldDrop(s) THEN Drop(s) ELSE UNCHANGED cacheVars
  /\ MarkBootstrap(s, "failed")
  /\ Goto(s, "wait")
  /\ UNCHANGED <<up, cancelled, ready, outcome, done, attempt, tick, tickC>>

\* A scheduled refresh returned an error.  Nothing else writes this source's
\* entry, so the check and the drop are one step.
SteadyErr(s) ==
  /\ At(s, "err") /\ done[s]
  /\ IF ShouldDrop(s) THEN Drop(s) ELSE UNCHANGED cacheVars
  /\ Goto(s, "wait")
  /\ UNCHANGED <<up, cancelled, ready, boot, outcome, done, attempt, tick, tickC>>

\* Mutant of StopSteady: the ticker loop does not select on ctx.Done.
StopHeldOnly(s) ==
  /\ At(s, "hold")
  /\ cancelled
  /\ Goto(s, "exited")
  /\ UNCHANGED <<mem, lastFailed, disk, up, cancelled, ready, boot, outcome,
                 done, attempt, tick, tickC>>

\* runSteady sees ctx.Done.
StopSteady(s) ==
  /\ At(s, "wait") \/ At(s, "hold")
  /\ cancelled
  /\ Goto(s, "exited")
  /\ UNCHANGED <<mem, lastFailed, disk, up, cancelled, ready, boot, outcome,
                 done, attempt, tick, tickC>>

GoroutineStep(s) ==
  \/ AbandonBootstrap(s) \/ Attempt(s)
  \/ FetchOk(s) \/ FetchFail(s)
  \/ PersistOk(s) \/ PersistFail(s)
  \/ BootstrapOk(s) \/ BootstrapRetry(s) \/ BootstrapGiveUp(s)
  \/ DelayOver(s) \/ Release(s)
  \/ Wake(s) \/ SteadyOk(s) \/ SteadyErr(s) \/ StopSteady(s)
-----------------------------------------------------------------------------
(* Time *)

\* Nothing is due at this position.
AtRest(s) ==
  \/ pc[s] \in {"off", "exited"}
  \/ pc[s] \in Parked /\ ~tickC[s] /\ ~cancelled

\* How long the goroutine may stay at its position.
Patience(s) ==
  CASE At(s, "fetch") -> FetchTimeout
    [] At(s, "delay") -> AttemptDelay + Latency
    [] OTHER -> Latency

HasTicker(s) == done[s] /\ ~RefreshDisabled(s) /\ pc[s] # "exited"

Fires(s) == HasTicker(s) /\ tick[s] = 1

\* One unit of time passes.  A tick that finds ticker.C full is lost.
Advance ==
  /\ \A s \in Sources : AtRest(s) \/ elapsed[s] < Patience(s)
  /\ AgeCache
  /\ elapsed' = [s \in Sources |-> IF AtRest(s) THEN 0 ELSE elapsed[s] + 1]
  /\ tick' = [s \in Sources |-> IF Fires(s) THEN TtlFor(s)
                                ELSE IF HasTicker(s) THEN tick[s] - 1 ELSE 0]
  /\ tickC' = [s \in Sources |-> tickC[s] \/ Fires(s)]
  /\ UNCHANGED <<lastFailed, up, cancelled, ready, boot, outcome, pc, done, attempt>>
-----------------------------------------------------------------------------
Next ==
  \/ Startup \/ Cancel \/ Exit \/ SignalReady \/ Advance
  \/ \E s \in Sources : GoroutineStep(s)

Spec == Init /\ [][Next]_vars

(***************************************************************************)
(* Fairness: the Go scheduler runs every runnable goroutine (Advance keeps *)
(* a fetch within its timeout and time.After within its delay), time       *)
(* passes, and select picks at random among ready cases, so a goroutine    *)
(* that again and again reaches a select with ctx done takes that case.    *)
(***************************************************************************)
Fairness ==
  /\ WF_vars(Advance)
  /\ WF_vars(SignalReady)
  /\ \A s \in Sources : WF_vars(GoroutineStep(s)) /\ SF_vars(StopSteady(s))

FairSpec == Spec /\ Fairness
-----------------------------------------------------------------------------
(* Safety *)

Larger(a, b) == IF a > b THEN a ELSE b

\* Start and Ready: while ctx is live, Ready closes only after every enabled
\* source has recorded Succeeded or Failed (markBootstrap before Done).
ReadyMeansSettled ==
  ready /\ ~cancelled => \A s \in Enabled : boot[s] # "pending"

\* The age up to which a refreshed source may keep its payload when its
\* goroutine comes back to its select: a failed refresh keeps it up to the
\* stale window, a refresh that returned nil vouches for the other two.
KeepBound(s) ==
  Larger(StaleWindowFor(s),
         Larger(TtlFor(s) + 2 * Latency, FetchTimeout + 3 * Latency))

\* From there the next tick comes within one TTL, and its fetch may take the
\* whole timeout before runSteady drops the payload.
StalenessBound(s) == KeepBound(s) + TtlFor(s) + FetchTimeout + 2 * Latency

\* Get returns payloads regardless of age: what keeps the served data from
\* growing old is the ticker, the refresh and the drop together.
ServedAgeBounded ==
  Serving /\ ~cancelled =>
    \A s \in Enabled : Has(s) /\ ~RefreshDisabled(s) => mem[s].age <= StalenessBound(s)

\* set writes memory before persist writes the file, Drop removes both, and
\* LoadFromDisk copies: the snapshot on disk is never newer than memory, so a
\* restart never moves a source forward to data that was not served before.
DiskNotNewer ==
  \A s \in Sources : Has(s) /\ disk[s] # NoPayload => mem[s].age <= disk[s].age

\* /health: a source whose last fetch is reported as a success and whose
\* goroutine is back at its select has a payload in the cache.
ReportedSuccessIsCached ==
  \A s \in Sources : pc[s] \in Parked /\ outcome[s] = "success" => Has(s)

\* A payload younger than this is what a nil error of refresh stands for.
RecentBound(s) == Larger(FetchTtlFor(s), FetchTimeout + Latency) + Latency

\* markBootstrap(Succeeded) and maybePromoteBootstrap: a source turns green
\* only with a recent payload in memory, never on the strength of an old one.
GreenNeedsRecentPayload ==
  [][\A s \in Enabled : boot[s] # "succeeded" /\ boot'[s] = "succeeded"
        => Has(s) /\ mem[s].age <= RecentBound(s)]_vars

\* runSteady's drop: while the process runs, a payload disappears only when it
\* is past its stale window and the TTL, after a failed fetch, and never for a
\* source that is not refreshed.
DropsOnlyExpired ==
  [][\A s \in Sources : up /\ up' /\ Has(s) /\ mem'[s] = NoPayload
        => /\ State(s, TtlFor(s)) = "stale"
           /\ mem[s].age > StaleWindowFor(s)
           /\ outcome[s] = "error"]_vars

\* runSteady of a source that is never refreshed: from the moment Ready closes
\* its bootstrap verdict and its payload are final until the process ends, for
\* better or worse, as there is no ticker that could change either.
PinnedVerdictIsFinal ==
  [][\A s \in Enabled : up /\ up' /\ ready /\ RefreshDisabled(s)
        => boot'[s] = boot[s] /\ Get(s)' = Get(s)]_vars
-----------------------------------------------------------------------------
(* What the documentation says and the code does not do *)

\* subscription.go:50, bootstrap_failed "when ... at least one enabled source
\* had no usable cache to serve": when the last fetch of every enabled source
\* failed but each has a payload within its stale window, in memory as on disk,
\* the subscription is served.  (No disk write failed, which is the subject of
\* DiskFailureHarmless; such a payload is one that a restart has loaded.)
UsableCacheIsServed ==
  up /\ ready /\ ~cancelled
    /\ (\A s \in Enabled : outcome[s] = "error" /\ Has(s) /\ disk[s] = mem[s]
                              /\ mem[s].age <= StaleWindowFor(s))
  => Serving

\* subscription.go:47, "200 ... when bootstrap is complete and ALL enabled
\* sources succeeded their first fetch": a failed disk write after a fetch that
\* succeeded does not keep the gate shut.
DiskFailureHarmless ==
  up /\ ready /\ ~cancelled /\ (\A s \in Enabled : outcome[s] = "success") => Serving
-----------------------------------------------------------------------------
(* Refinement *)

Gate == INSTANCE BootstrapGate WITH
  Pinned <- {s \in Sources : RefreshDisabled(s)},
  alive <- up, stopping <- cancelled, open <- ready,
  status <- boot, held <- [s \in Sources |-> Has(s)]

\* The coordinator implements BootstrapGate: statuses only move forward within
\* one life of the process, a source turns green only while its payload is in
\* memory, gives up only before Ready closes, and Ready closes once.
ImplementsGate == Gate!Spec
-----------------------------------------------------------------------------
(* Liveness *)

\* Start: the bootstrap of every source ends and Ready closes, whatever the
\* upstreams do, unless the process dies first.
BootstrapEnds == up ~> (ready \/ ~up)

\* The environment behaves: no fetch or disk write fails, nobody stops the process.
Healthy == ~(Exit \/ Cancel \/ \E s \in Sources : FetchFail(s) \/ PersistFail(s))

\* runSteady: when upstreams and disk stay healthy, every refreshed source that
\* failed its bootstrap or was dropped comes back, without a restart.
Recovers ==
  <>[][Healthy]_vars =>
    <>[](up /\ ~cancelled =>
          \A s \in Enabled : RefreshDisabled(s) \/ (boot[s] = "succeeded" /\ Has(s)))

\* shouldDrop and Drop: a refreshed source whose fetches fail for good
\* eventually stops contributing.
UnreachableIsDropped ==
  \A s \in Enabled : ~RefreshDisabled(s) =>
    (<>[][~(FetchOk(s) \/ Exit \/ Cancel)]_vars => <>[](up /\ ~cancelled => ~Has(s)))

\* bootstrapAndRun and runSteady: after cancellation every goroutine returns.
ShutdownDrains ==
  cancelled ~> (~cancelled \/ \A s \in Enabled : pc[s] = "exited")
=============================================================================
