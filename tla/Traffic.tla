------------------------------ MODULE Traffic ------------------------------
(***************************************************************************)
(* The traffic figures of internal/merge/traffic.go and of the dailyspend  *)
(* package, as operators.  perSource maps the names of the sources that    *)
(* have a Subscription-Userinfo to it.  Times are seconds, a local day is  *)
(* SecondsPerDay of them (no DST), a date is the number of the day.  The   *)
(* float64 ratios are exact fractions [n, d] here.                         *)
(***************************************************************************)
EXTENDS Integers, FiniteSetsExt, Functions

CONSTANTS SecondsPerDay, NoSnapshot

ASSUME TrafficAssumption == SecondsPerDay \in Nat \ {0}

AtLeast(x, low) == IF x < low THEN low ELSE x

\* ceil(a / b) for b > 0.
CeilDiv(a, b) == (a + b - 1) \div b

Cumulative(ui) == ui.upload + ui.download

\* No source reports a negative counter.
Counted(perSource) ==
  \A s \in DOMAIN perSource : perSource[s]["upload"] >= 0 /\ perSource[s]["download"] >= 0

\* Mutant of Remaining: an exhausted plan counts as negative.
RemainingUnclamped(ui) == ui.total - ui.upload - ui.download

Remaining(ui) == AtLeast(ui.total - ui.upload - ui.download, 0)

\* Mutant of DaysRemaining: whole days, rounded down.
DaysRemainingFloor(ui, now) == AtLeast((ui.expire - now) \div SecondsPerDay, 1)

\* Days until the expiry of a source that has not expired.
DaysRemaining(ui, now) == AtLeast(CeilDiv(ui.expire - now, SecondsPerDay), 1)

NoExpiry(ui) == ui.expire = 0
Expired(ui, now) == ~NoExpiry(ui) /\ ui.expire <= now

ComputeDailyAllowance(perSource, now) ==
  LET names == DOMAIN perSource
      expired == {s \in names : Expired(perSource[s], now)}
      endless == {s \in names : NoExpiry(perSource[s])}
  IN [perDayRate |->
        SumFunction([s \in names \ (expired \cup endless) |->
                       Remaining(perSource[s]) \div DaysRemaining(perSource[s], now)]),
      noExpiryRemaining |-> SumFunction([s \in endless |-> Remaining(perSource[s])]),
      expiredSources |-> expired]
-----------------------------------------------------------------------------
(* The snapshot of the day *)

LocalDate(now) == now \div SecondsPerDay

\* nextMidnightInLocation: strictly after now.
NextMidnight(now) == (LocalDate(now) + 1) * SecondsPerDay

\* Mutant of UploadRatio: relative to the download, not to the sum.
UploadRatioToDownload(ui) ==
  IF ui.download > 0 THEN [n |-> ui.upload, d |-> ui.download] ELSE [n |-> 0, d |-> 1]

UploadRatio(ui) ==
  IF Cumulative(ui) > 0 THEN [n |-> ui.upload, d |-> Cumulative(ui)]
  ELSE [n |-> 0, d |-> 1]

CaptureSnapshot(perSource, allowance, now) ==
  [localDate |-> LocalDate(now),
   allowanceToday |-> allowance,
   baselines |-> [s \in DOMAIN perSource |-> Cumulative(perSource[s])],
   uploadRatios |-> [s \in DOMAIN perSource |-> UploadRatio(perSource[s])]]

\* validateSnapshot, for a snapshot whose date parses.
ValidSnapshot(snap) ==
  /\ snap.allowanceToday >= 0
  /\ \A s \in DOMAIN snap.uploadRatios :
       LET r == snap.uploadRatios[s] IN 0 <= r.n /\ r.n <= r.d

\* Mutant of IsRolloverNeeded: no look at the date.
RolloverOnlyFirst(snap, now) == snap = NoSnapshot

IsRolloverNeeded(snap, now) == snap = NoSnapshot \/ snap.localDate # LocalDate(now)

\* What one source contributes: 0 if it was reset or has no baseline.
Delta(perSource, snap, s) ==
  IF s \in DOMAIN snap.baselines
  THEN AtLeast(Cumulative(perSource[s]) - snap.baselines[s], 0) ELSE 0

ComputeUsedToday(perSource, snap) ==
  SumFunction([s \in DOMAIN perSource |-> Delta(perSource, snap, s)])

AddFractions(x, y) == [n |-> x.n * y.d + y.n * x.d, d |-> x.d * y.d]

\* math.Round of a fraction that is not negative.
Round(x) == (2 * x.n + x.d) \div (2 * x.d)

\* The deltas weighted by their ratios; the code's division by totalDelta and
\* multiplication by usedToday cancel out.
SplitUsedToday(used, perSource, snap) ==
  LET growing == {s \in DOMAIN perSource : Delta(perSource, snap, s) > 0}
      part == [s \in growing |-> [n |-> Delta(perSource, snap, s) * snap.uploadRatios[s].n,
                                  d |-> snap.uploadRatios[s].d]]
      weighted == FoldFunction(AddFractions, [n |-> 0, d |-> 1], part)
      upload == IF used <= 0 THEN 0 ELSE Min({AtLeast(Round(weighted), 0), used})
  IN [upload |-> upload, download |-> AtLeast(used, 0) - upload]

\* Mutant of NewSnapshot: the allowance is recomputed for every request.
NewSnapshotUnpinned(perSource, snap, now) ==
  LET da == ComputeDailyAllowance(perSource, now)
  IN IF IsRolloverNeeded(snap, now)
     THEN CaptureSnapshot(perSource, da.perDayRate + da.noExpiryRemaining, now)
     ELSE [snap EXCEPT !.allowanceToday = da.perDayRate + da.noExpiryRemaining]

\* The snapshot a request goes by: the one it loaded, or a fresh one.
NewSnapshot(perSource, snap, now) ==
  LET da == ComputeDailyAllowance(perSource, now)
  IN IF IsRolloverNeeded(snap, now)
     THEN CaptureSnapshot(perSource, da.perDayRate + da.noExpiryRemaining, now)
     ELSE snap

\* ComposeServedTrafficHeaderWithSpend for a non-empty perSource.
Compose(perSource, loaded, now) ==
  LET snap == NewSnapshot(perSource, loaded, now)
      used == ComputeUsedToday(perSource, snap)
  IN [allowance |-> snap.allowanceToday,
      expire |-> NextMidnight(now),
      used |-> used,
      total |-> snap.allowanceToday + used,
      split |-> SplitUsedToday(used, perSource, snap),
      localDate |-> snap.localDate,
      rolloverFired |-> IsRolloverNeeded(loaded, now)]
=============================================================================
