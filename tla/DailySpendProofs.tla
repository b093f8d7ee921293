-------------------------- MODULE DailySpendProofs --------------------------
(***************************************************************************)
(* Proofs about the daily spend under concurrent requests.                 *)
(*                                                                         *)
(* TypeOK and SavedIsLoadable are inductive.  SpendIsTodays is about a     *)
(* difference between two readings of the counters, one of the request and *)
(* one that a snapshot keeps, in either order.  DayInv bounds how far any  *)
(* two readings of the day, the counters as they are among them, lie apart *)
(* by what the counters moved since midnight.                              *)
(***************************************************************************)
EXTENDS DailySpend, OperatorProofs

Abs(x) == IF x < 0 THEN -x ELSE x

\* How far apart two readings are, summed up over the sources of both.
Gap(o, p) ==
  SumFunctionOnSet([s \in DOMAIN o \cap DOMAIN p |-> Abs(o[s] - p[s])],
                   DOMAIN o \cap DOMAIN p)

Figures(perSource) == [s \in DOMAIN perSource |-> Cumulative(perSource[s])]

\* The readings of the day: by a request under way, in a snapshot, and now.
Readings ==
  {counter}
  \cup {Figures(seen[r]) : r \in {q \in Requests : at[q] # "idle" /\ seenOn[q] = Today}}
  \cup {loaded[r].baselines :
          r \in {q \in Requests : loaded[q] # NoSnapshot /\ loaded[q].localDate = Today}}
  \cup {snap.baselines : snap \in {f \in {file} : f \in Snapshot /\ f.localDate = Today}}

DayInv == ~straddled => \A o, p \in Readings : Gap(o, p) <= moved

SpendInv == TypeOK /\ SavedIsLoadable /\ DayInv
-----------------------------------------------------------------------------
(* Readings *)

Observation == SomeSources(0..MaxUsed)

Part(q, o) == DOMAIN q \subseteq DOMAIN o /\ \A s \in DOMAIN q : q[s] = o[s]

\* A reading maps some of the sources, finitely many, to figures.
LEMMA ObservationIs ==
  ASSUME NEW o \in Observation
  PROVE  /\ DOMAIN o \subseteq Sources /\ IsFiniteSet(DOMAIN o)
         /\ \A s \in DOMAIN o : o[s] \in 0..MaxUsed /\ o[s] \in Int
         /\ o = [s \in DOMAIN o |-> o[s]]
<1>1. PICK D \in SUBSET Sources : o \in [D -> 0..MaxUsed]
  BY DEF Observation, SomeSources
<1>2. DOMAIN o = D
  BY <1>1
<1>3. IsFiniteSet(DOMAIN o)
  BY <1>2, FS_Subset, DailySpendAssumption
<1>4. MaxUsed \in Nat
  BY DailySpendAssumption
<1>. QED
  BY <1>1, <1>2, <1>3, <1>4

\* What Gap adds up.
Apart(o, p) == [s \in DOMAIN o \cap DOMAIN p |-> Abs(o[s] - p[s])]

\* The summands of Gap are naturals over finitely many sources.
LEMMA ApartIs ==
  ASSUME NEW o \in Observation, NEW p \in Observation
  PROVE  /\ IsFiniteSet(DOMAIN o \cap DOMAIN p)
         /\ \A s \in DOMAIN o \cap DOMAIN p :
              Apart(o, p)[s] \in Nat /\ Apart(o, p)[s] = Abs(o[s] - p[s])
         /\ Gap(o, p) = SumFunctionOnSet(Apart(o, p), DOMAIN o \cap DOMAIN p)
<1>1. IsFiniteSet(DOMAIN o) /\ DOMAIN o \cap DOMAIN p \subseteq DOMAIN o
  BY ObservationIs
<1>2. IsFiniteSet(DOMAIN o \cap DOMAIN p)
  BY <1>1, FS_Subset
<1>3. ASSUME NEW s \in DOMAIN o \cap DOMAIN p PROVE Abs(o[s] - p[s]) \in Nat
  <2>1. o[s] \in Int /\ p[s] \in Int
    BY ObservationIs
  <2>. QED
    BY <2>1 DEF Abs
<1>4. \A s \in DOMAIN o \cap DOMAIN p : Apart(o, p)[s] = Abs(o[s] - p[s])
  BY DEF Apart
<1>5. Gap(o, p) = SumFunctionOnSet(Apart(o, p), DOMAIN o \cap DOMAIN p)
  BY Zenon DEF Gap, Apart
<1>. QED
  BY <1>2, <1>3, <1>4, <1>5

\* A distance is a natural number.
LEMMA GapNat ==
  ASSUME NEW o \in Observation, NEW p \in Observation
  PROVE  Gap(o, p) \in Nat
<1> DEFINE D == DOMAIN o \cap DOMAIN p
<1> DEFINE f == Apart(o, p)
<1>1. IsFiniteSet(D) /\ (\A s \in D : f[s] \in Nat) /\ Gap(o, p) = SumFunctionOnSet(f, D)
  BY ApartIs
<1> HIDE DEF D, f
<1>. QED
  BY <1>1, SumNat

\* A reading is no distance from itself.
LEMMA GapSelf ==
  ASSUME NEW o \in Observation
  PROVE  Gap(o, o) = 0
<1> DEFINE D == DOMAIN o \cap DOMAIN o
<1> DEFINE f == Apart(o, o)
<1>1. /\ IsFiniteSet(D) /\ Gap(o, o) = SumFunctionOnSet(f, D)
      /\ \A s \in D : f[s] = Abs(o[s] - o[s])
  BY ApartIs
<1>2. \A s \in D : f[s] = 0
  BY <1>1, ObservationIs DEF Abs
<1> HIDE DEF D, f
<1>. QED
  BY <1>1, <1>2, SumZero

\* Parts of two readings are no farther apart than the readings.  So is the
\* distance in the other direction.
LEMMA GapPart ==
  ASSUME NEW o \in Observation, NEW p \in Observation,
         NEW q \in Observation, NEW t \in Observation,
         (Part(q, o) /\ Part(t, p)) \/ (Part(q, p) /\ Part(t, o))
  PROVE  Gap(q, t) <= Gap(o, p)
<1> DEFINE D == DOMAIN o \cap DOMAIN p
<1> DEFINE f == Apart(o, p)
<1> DEFINE A == DOMAIN q \cap DOMAIN t
<1> DEFINE e == Apart(q, t)
<1>1. /\ IsFiniteSet(D) /\ Gap(o, p) = SumFunctionOnSet(f, D)
      /\ \A s \in D : f[s] = Abs(o[s] - p[s]) /\ f[s] \in Nat
  BY ApartIs
<1>2. /\ Gap(q, t) = SumFunctionOnSet(e, A)
      /\ \A s \in A : e[s] = Abs(q[s] - t[s]) /\ e[s] \in Nat
  BY ApartIs
<1>3. A \subseteq D
  BY DEF Part
<1>4. ASSUME NEW s \in A PROVE e[s] <= f[s]
  <2>1. o[s] \in Int /\ p[s] \in Int /\ s \in D
    BY <1>3, ObservationIs
  <2>2. (q[s] = o[s] /\ t[s] = p[s]) \/ (q[s] = p[s] /\ t[s] = o[s])
    BY DEF Part
  <2>3. e[s] = Abs(q[s] - t[s]) /\ f[s] = Abs(o[s] - p[s]) /\ f[s] \in Nat
    BY <1>1, <1>2, <2>1
  <2> HIDE DEF e, f
  <2>. QED
    BY <2>1, <2>2, <2>3 DEF Abs
<1> HIDE DEF D, f, A, e
<1>. QED
  BY <1>1, <1>2, <1>3, <1>4, SumPart

\* A change of one figure of a reading moves it by no more than the change.
LEMMA GapMove ==
  ASSUME NEW o \in Observation, NEW p \in Observation, NEW q \in Observation,
         NEW y \in DOMAIN p, DOMAIN q = DOMAIN p,
         \A s \in DOMAIN p \ {y} : q[s] = p[s]
  PROVE  Gap(o, q) <= Gap(o, p) + Abs(q[y] - p[y])
<1> DEFINE D == DOMAIN o \cap DOMAIN p
<1> DEFINE f == Apart(o, p)
<1> DEFINE e == Apart(o, q)
<1>1. /\ IsFiniteSet(D) /\ Gap(o, p) = SumFunctionOnSet(f, D)
      /\ \A s \in D : f[s] = Abs(o[s] - p[s]) /\ f[s] \in Nat
  BY ApartIs
<1>2. /\ Gap(o, q) = SumFunctionOnSet(e, DOMAIN o \cap DOMAIN q)
      /\ \A s \in DOMAIN o \cap DOMAIN q : e[s] = Abs(o[s] - q[s]) /\ e[s] \in Nat
  BY ApartIs
<1>3. DOMAIN o \cap DOMAIN q = D
  OBVIOUS
<1>4. Gap(o, q) = SumFunctionOnSet(e, D) /\ \A s \in D : e[s] = Abs(o[s] - q[s]) /\ e[s] \in Nat
  BY <1>2, <1>3
<1>5. p[y] \in Int /\ q[y] \in Int
  BY ObservationIs
<1>6. Gap(o, p) \in Nat
  BY GapNat
<1>7. CASE y \in D
  <2>1. \A s \in D \ {y} : e[s] = f[s]
    BY <1>1, <1>4
  <2>2. o[y] \in Int
    BY <1>7, ObservationIs
  <2>3. e[y] = Abs(o[y] - q[y]) /\ f[y] = Abs(o[y] - p[y])
    BY <1>1, <1>4, <1>7
  <2>4. e[y] <= f[y] + Abs(q[y] - p[y])
    <3> HIDE DEF e, f
    <3>. QED
      BY <1>5, <2>2, <2>3 DEF Abs
  <2>5. SumFunctionOnSet(e, D) = SumFunctionOnSet(f, D) + e[y] - f[y]
    <3>1. \A s \in D : f[s] \in Int /\ e[s] \in Int
      BY <1>1, <1>4
    <3> HIDE DEF D, e, f
    <3>. QED
      BY <1>1, <1>7, <2>1, <3>1, SumChange
  <2>6. e[y] \in Nat /\ f[y] \in Nat /\ Abs(q[y] - p[y]) \in Int
    BY <1>1, <1>4, <1>5, <1>7 DEF Abs
  <2> HIDE DEF D, e, f
  <2>. QED
    BY <1>1, <1>4, <1>6, <2>4, <2>5, <2>6
<1>8. CASE y \notin D
  <2>1. \A s \in D : e[s] = f[s]
    BY <1>1, <1>4, <1>8
  <2>2. SumFunctionOnSet(e, D) = SumFunctionOnSet(f, D)
    <3> HIDE DEF D, e, f
    <3>. QED
      BY <1>1, <2>1, SumSame
  <2>3. Abs(q[y] - p[y]) \in Nat
    BY <1>5 DEF Abs
  <2> HIDE DEF D, e, f
  <2>. QED
    BY <1>1, <1>4, <1>6, <2>2, <2>3
<1>. QED
  BY <1>7, <1>8
-----------------------------------------------------------------------------
(* The figures of a request, and the snapshot made of them *)

\* A later second is on the same local day or a later one.
LEMMA LaterDate ==
  ASSUME NEW n \in Nat
  PROVE  LocalDate(n) \in Nat /\ LocalDate(n + 1) \in Nat /\ LocalDate(n) <= LocalDate(n + 1)
BY TrafficAssumption DEF LocalDate

\* The clock shows a second of some day, within the bounds of the instance.
LEMMA ClockIs ==
  ASSUME TypeOK
  PROVE  now \in Nat /\ Today \in Nat /\ LastSecond \in Nat /\ MaxUsed \in Nat
<1>1. now \in 0..LastSecond
  BY DEF TypeOK
<1>2. LastSecond \in Nat /\ MaxUsed \in Nat
  BY DailySpendAssumption
<1>3. now \in Nat
  BY <1>1
<1>. QED
  BY <1>2, <1>3, LaterDate DEF Today

\* Every figure a request collects is in range and belongs to an endless plan.
LEMMA CollectedIs ==
  ASSUME NEW per \in SomeSources(Reading)
  PROVE  /\ DOMAIN per \subseteq Sources /\ IsFiniteSet(DOMAIN per)
         /\ \A s \in DOMAIN per :
              /\ per[s] \in Reading /\ Cumulative(per[s]) \in 0..MaxUsed
              /\ per[s].upload = 0 /\ per[s].expire = 0
              /\ Remaining(per[s]) \in Nat
         /\ Figures(per) \in Observation
<1>1. PICK D \in SUBSET Sources : per \in [D -> Reading]
  BY DEF SomeSources
<1>2. DOMAIN per = D /\ IsFiniteSet(DOMAIN per)
  BY <1>1, FS_Subset, DailySpendAssumption
<1>3. MaxUsed \in Nat /\ Quota \in Nat
  BY DailySpendAssumption
<1>4. ASSUME NEW s \in D
      PROVE  /\ per[s] \in Reading /\ Cumulative(per[s]) \in 0..MaxUsed
             /\ per[s].upload = 0 /\ per[s].expire = 0
             /\ Remaining(per[s]) \in Nat
  <2>1. per[s] \in Reading
    BY <1>1
  <2>. QED
    BY <1>3, <2>1 DEF Reading, Cumulative, Remaining, AtLeast
<1>5. Figures(per) \in [D -> 0..MaxUsed]
  BY <1>2, <1>4 DEF Figures
<1>6. Figures(per) \in Observation
  BY <1>5 DEF Observation, SomeSources
<1>. QED
  BY <1>2, <1>4, <1>6

\* The allowance of endless plans is what remains of them.
LEMMA AllowanceNat ==
  ASSUME NEW per \in SomeSources(Reading), NEW n
  PROVE  ComputeDailyAllowance(per, n).perDayRate
           + ComputeDailyAllowance(per, n).noExpiryRemaining \in Nat
<1> DEFINE names == DOMAIN per
<1> DEFINE expired == {s \in names : Expired(per[s], n)}
<1> DEFINE endless == {s \in names : NoExpiry(per[s])}
<1> DEFINE rate == [s \in names \ (expired \cup endless) |->
                      Remaining(per[s]) \div DaysRemaining(per[s], n)]
<1> DEFINE rest == [s \in endless |-> Remaining(per[s])]
<1>1. endless = names /\ IsFiniteSet(endless)
  BY CollectedIs DEF NoExpiry
<1>2. names \ (expired \cup endless) = {}
  BY <1>1
<1>3. SumFunction(rate) = 0
  <2>1. DOMAIN rate = {}
    BY <1>2
  <2>2. SumFunction(rate) = SumFunctionOnSet(rate, DOMAIN rate)
    BY Zenon DEF SumFunction
  <2> HIDE DEF rate
  <2>3. SumFunctionOnSet(rate, {}) = 0
    BY FS_EmptySet, SumStep
  <2>. QED
    BY <2>1, <2>2, <2>3, Zenon
<1>4. SumFunction(rest) \in Nat
  <2>1. DOMAIN rest = endless /\ \A s \in endless : rest[s] \in Nat
    BY CollectedIs
  <2>2. SumFunction(rest) = SumFunctionOnSet(rest, DOMAIN rest)
    BY Zenon DEF SumFunction
  <2> HIDE DEF rest, endless
  <2>3. SumFunctionOnSet(rest, endless) \in Nat
    BY <1>1, <2>1, SumNat
  <2>. QED
    BY <2>1, <2>2, <2>3
<1>5. /\ ComputeDailyAllowance(per, n).perDayRate = SumFunction(rate)
      /\ ComputeDailyAllowance(per, n).noExpiryRemaining = SumFunction(rest)
  BY DEF ComputeDailyAllowance
<1> HIDE DEF rate, rest
<1>. QED
  BY <1>3, <1>4, <1>5

\* What CaptureSnapshot makes of a request's figures is a snapshot of the day
\* with these figures as baselines, and one that validateSnapshot accepts.
LEMMA CaptureIs ==
  ASSUME NEW per \in SomeSources(Reading), NEW allowance \in Nat, NEW n \in Nat
  PROVE  LET snap == CaptureSnapshot(per, allowance, n)
         IN  /\ snap \in Snapshot /\ snap.localDate = LocalDate(n)
             /\ snap.baselines = Figures(per)
             /\ ValidSnapshot(snap)
<1> DEFINE snap == CaptureSnapshot(per, allowance, n)
<1>1. PICK D \in SUBSET Sources : D = DOMAIN per
  BY CollectedIs
<1>2. /\ snap.localDate = LocalDate(n) /\ snap.allowanceToday = allowance
      /\ snap.baselines = Figures(per)
      /\ snap.uploadRatios = [s \in D |-> UploadRatio(per[s])]
  BY <1>1 DEF CaptureSnapshot, Figures
<1>3. ASSUME NEW s \in D
      PROVE  UploadRatio(per[s]) \in [n : {0}, d : 1..(MaxUsed + 1)]
  <2>1. MaxUsed \in Nat /\ Cumulative(per[s]) \in 0..MaxUsed /\ per[s].upload = 0
    BY <1>1, CollectedIs, DailySpendAssumption
  <2>. QED
    BY <2>1 DEF UploadRatio
<1>4. snap.uploadRatios \in SomeSources([n : {0}, d : 1..(MaxUsed + 1)])
  BY <1>2, <1>3 DEF SomeSources
<1>5. LocalDate(n) \in Nat /\ Figures(per) \in SomeSources(0..MaxUsed)
  BY LaterDate, CollectedIs DEF Observation
<1>6. snap \in Snapshot
  BY <1>2, <1>4, <1>5 DEF Snapshot, CaptureSnapshot
<1>7. MaxUsed \in Nat
  BY DailySpendAssumption
<1>8. ASSUME NEW s \in D
      PROVE  0 <= UploadRatio(per[s]).n /\ UploadRatio(per[s]).n <= UploadRatio(per[s]).d
  BY <1>3, <1>7
<1>9. ValidSnapshot(snap)
  BY <1>2, <1>8 DEF ValidSnapshot
<1>. QED
  BY <1>2, <1>6, <1>9

\* The snapshot a request goes by, after a rollover or without one.
LEMMA NewSnapshotIs ==
  ASSUME NEW per \in SomeSources(Reading), NEW snap, NEW n \in Nat
  PROVE  /\ IsRolloverNeeded(snap, n) =>
              /\ NewSnapshot(per, snap, n) \in Snapshot
              /\ NewSnapshot(per, snap, n) # NoSnapshot
              /\ NewSnapshot(per, snap, n).localDate = LocalDate(n)
              /\ NewSnapshot(per, snap, n).baselines = Figures(per)
              /\ ValidSnapshot(NewSnapshot(per, snap, n))
         /\ ~IsRolloverNeeded(snap, n) => NewSnapshot(per, snap, n) = snap
<1> DEFINE allowance == ComputeDailyAllowance(per, n).perDayRate
                          + ComputeDailyAllowance(per, n).noExpiryRemaining
<1>1. allowance \in Nat
  BY AllowanceNat
<1>2. NewSnapshot(per, snap, n) =
        IF IsRolloverNeeded(snap, n) THEN CaptureSnapshot(per, allowance, n) ELSE snap
  BY DEF NewSnapshot
<1> HIDE DEF allowance
<1>3. /\ CaptureSnapshot(per, allowance, n) \in Snapshot
      /\ CaptureSnapshot(per, allowance, n).localDate = LocalDate(n)
      /\ CaptureSnapshot(per, allowance, n).baselines = Figures(per)
      /\ ValidSnapshot(CaptureSnapshot(per, allowance, n))
  BY <1>1, CaptureIs
<1>4. NoSnapshot \notin Snapshot
  BY DailySpendAssumption
<1>. QED
  BY <1>2, <1>3, <1>4
-----------------------------------------------------------------------------
(* TypeOK and SavedIsLoadable *)

\* A request that is done leaves well-typed state behind.
LEMMA FinishTypes ==
  ASSUME TypeOK, SavedIsLoadable, NEW r \in Requests, Finish(r)
  PROVE  /\ at' \in [Requests -> {"idle", "load", "compose", "save"}]
         /\ seen' \in [Requests -> SomeSources(Reading)]
         /\ seenOn' \in [Requests -> 0..Today]
         /\ DOMAIN loaded' = Requests
         /\ \A q \in Requests :
              /\ loaded'[q] = NoSnapshot \/ (loaded'[q] \in Snapshot
                                             /\ loaded'[q].localDate <= Today)
              /\ at'[q] = "save" => loaded'[q] # NoSnapshot /\ ValidSnapshot(loaded'[q])
<1>1. NoUserinfo \in SomeSources(Reading)
  <2>1. NoUserinfo \in [{} -> Reading]
    BY DEF NoUserinfo
  <2>. QED
    BY <2>1 DEF SomeSources
<1>2. 0 \in 0..Today
  BY ClockIs
<1>3. /\ at' = [at EXCEPT ![r] = "idle"] /\ seen' = [seen EXCEPT ![r] = NoUserinfo]
      /\ loaded' = [loaded EXCEPT ![r] = NoSnapshot] /\ seenOn' = [seenOn EXCEPT ![r] = 0]
  BY DEF Finish
<1>4. ASSUME NEW q \in Requests
      PROVE  /\ loaded'[q] = NoSnapshot \/ (loaded'[q] \in Snapshot
                                            /\ loaded'[q].localDate <= Today)
             /\ at'[q] = "save" => loaded'[q] # NoSnapshot /\ ValidSnapshot(loaded'[q])
  <2>1. CASE q = r
    BY <1>3, <2>1 DEF TypeOK
  <2>2. CASE q # r
    <3>1. loaded'[q] = loaded[q] /\ at'[q] = at[q]
      BY <1>3, <2>2 DEF TypeOK
    <3>. QED
      BY <3>1 DEF TypeOK, SavedIsLoadable
  <2>. QED
    BY <2>1, <2>2
<1>. QED
  BY <1>1, <1>2, <1>3, <1>4 DEF TypeOK

\* A step of a request keeps the types, and what it is about to save is valid.
LEMMA RequestTypes ==
  ASSUME TypeOK, SavedIsLoadable, NEW r \in Requests, RequestStep(r)
  PROVE  TypeOK' /\ SavedIsLoadable'
<1>1. now' = now /\ Today' = Today /\ counter' = counter /\ held' = held /\ moved' = moved
  BY DEF RequestStep, Collect, Load, ComposeHeader, ComposeNothing, Save, Today
<1>2. now \in Nat /\ Today \in Nat
  BY ClockIs
<1>3. CASE Collect(r)
  <2>1. [s \in held |-> Userinfo(s)] \in SomeSources(Reading)
    <3>1. \A s \in held : Userinfo(s) \in Reading
      BY DEF TypeOK, Userinfo, Reading
    <3>2. [s \in held |-> Userinfo(s)] \in [held -> Reading]
      BY <3>1
    <3>. QED
      BY <3>2 DEF SomeSources, TypeOK
  <2>2. /\ seen' = [seen EXCEPT ![r] = [s \in held |-> Userinfo(s)]]
        /\ seenOn' = [seenOn EXCEPT ![r] = Today]
        /\ header' = [header EXCEPT ![r] = NoHeader] /\ at' = [at EXCEPT ![r] = "load"]
        /\ file' = file /\ loaded' = loaded /\ straddled' = straddled
    BY <1>3 DEF Collect
  <2>3. Today \in 0..Today
    BY <1>2
  <2>4. TypeOK'
    BY <1>1, <2>1, <2>2, <2>3 DEF TypeOK
  <2>5. SavedIsLoadable'
    BY <2>2 DEF SavedIsLoadable, TypeOK
  <2>. QED
    BY <2>4, <2>5
<1>4. CASE Load(r)
  <2>1. PICK s \in {file, NoSnapshot} :
          loaded' = [loaded EXCEPT ![r] =
            IF s \in {NoSnapshot, Damaged} THEN NoSnapshot
            ELSE IF ValidSnapshot(s) THEN s ELSE NoSnapshot]
    BY <1>4 DEF Load
  <2>2. /\ at' = [at EXCEPT ![r] = "compose"]
        /\ file' = file /\ seen' = seen /\ header' = header /\ seenOn' = seenOn
        /\ straddled' = straddled
    BY <1>4 DEF Load
  <2>3. loaded'[r] = NoSnapshot \/ (loaded'[r] \in Snapshot /\ loaded'[r].localDate <= Today)
    BY <2>1 DEF TypeOK
  <2>4. ASSUME NEW q \in Requests
        PROVE  /\ loaded'[q] = NoSnapshot \/ (loaded'[q] \in Snapshot
                                              /\ loaded'[q].localDate <= Today)
               /\ at'[q] = "save" => loaded'[q] # NoSnapshot /\ ValidSnapshot(loaded'[q])
    BY <2>1, <2>2, <2>3 DEF TypeOK, SavedIsLoadable
  <2>5. DOMAIN loaded' = Requests
    BY <2>1 DEF TypeOK
  <2>6. TypeOK'
    BY <1>1, <2>2, <2>4, <2>5 DEF TypeOK
  <2>7. SavedIsLoadable'
    BY <2>4 DEF SavedIsLoadable
  <2>. QED
    BY <2>6, <2>7
<1>5. CASE ComposeHeader(r) /\ IsRolloverNeeded(loaded[r], now)
  <2> DEFINE new == NewSnapshot(seen[r], loaded[r], now)
  <2>1. /\ loaded' = [loaded EXCEPT ![r] = new] /\ at' = [at EXCEPT ![r] = "save"]
        /\ straddled' = (straddled \/ seenOn[r] # Today)
        /\ seen' = seen /\ seenOn' = seenOn /\ file' = file
        /\ DOMAIN header' = DOMAIN header
    BY <1>5 DEF ComposeHeader
  <2>2. /\ new \in Snapshot /\ new # NoSnapshot /\ new.localDate = Today
        /\ ValidSnapshot(new)
    <3>1. seen[r] \in SomeSources(Reading)
      BY DEF TypeOK
    <3>. QED
      BY <1>2, <1>5, <3>1, NewSnapshotIs DEF Today
  <2> HIDE DEF new
  <2>3. ASSUME NEW q \in Requests
        PROVE  /\ loaded'[q] = NoSnapshot \/ (loaded'[q] \in Snapshot
                                              /\ loaded'[q].localDate <= Today)
               /\ at'[q] = "save" => loaded'[q] # NoSnapshot /\ ValidSnapshot(loaded'[q])
    <3>1. /\ loaded[q] = NoSnapshot \/ (loaded[q] \in Snapshot /\ loaded[q].localDate <= Today)
          /\ at[q] = "save" => loaded[q] # NoSnapshot /\ ValidSnapshot(loaded[q])
          /\ q \in DOMAIN loaded /\ q \in DOMAIN at
      BY DEF TypeOK, SavedIsLoadable
    <3>2. new.localDate <= Today
      BY <1>2, <2>2
    <3>3. CASE q = r
      BY <2>1, <2>2, <3>1, <3>2, <3>3
    <3>4. CASE q # r
      BY <2>1, <3>1, <3>4
    <3>. QED
      BY <3>3, <3>4
  <2>4. TypeOK'
    BY <1>1, <2>1, <2>3 DEF TypeOK
  <2>5. SavedIsLoadable'
    BY <2>3 DEF SavedIsLoadable
  <2>. QED
    BY <2>4, <2>5
<1>6. CASE \/ ComposeHeader(r) /\ ~IsRolloverNeeded(loaded[r], now)
           \/ ComposeNothing(r) \/ Save(r)
  <2>1. Finish(r) /\ DOMAIN header' = DOMAIN header /\ straddled' = straddled
    BY <1>6 DEF ComposeHeader, ComposeNothing, Save
  <2>2. file' = file \/ file' = Damaged \/ (file' = loaded[r] /\ at[r] = "save")
    BY <1>6 DEF ComposeHeader, ComposeNothing, Save
  <2>3. /\ file' \in {NoSnapshot, Damaged} \/ file' \in Snapshot
        /\ file' \in Snapshot => file'.localDate <= Today
    BY <2>2, DailySpendAssumption DEF TypeOK
  <2>4. /\ at' \in [Requests -> {"idle", "load", "compose", "save"}]
        /\ seen' \in [Requests -> SomeSources(Reading)]
        /\ seenOn' \in [Requests -> 0..Today]
        /\ DOMAIN loaded' = Requests
        /\ \A q \in Requests :
             /\ loaded'[q] = NoSnapshot \/ (loaded'[q] \in Snapshot
                                            /\ loaded'[q].localDate <= Today)
             /\ at'[q] = "save" => loaded'[q] # NoSnapshot /\ ValidSnapshot(loaded'[q])
    BY <2>1, FinishTypes
  <2>5. TypeOK'
    BY <1>1, <2>1, <2>3, <2>4 DEF TypeOK
  <2>6. SavedIsLoadable'
    BY <2>4 DEF SavedIsLoadable
  <2>. QED
    BY <2>5, <2>6
<1>. QED
  BY <1>3, <1>4, <1>5, <1>6 DEF RequestStep

\* TypeOK and SavedIsLoadable are inductive.
LEMMA TypeStep ==
  ASSUME TypeOK, SavedIsLoadable, [Next]_spendVars
  PROVE  TypeOK' /\ SavedIsLoadable'
<1>1. now \in Nat /\ Today \in Nat /\ LastSecond \in Nat /\ MaxUsed \in Nat
  BY ClockIs
<1>2. CASE Tick
  <2>1. /\ now' = now + 1 /\ now < LastSecond /\ moved' \in Nat
        /\ UNCHANGED <<counter, held, file, at, seen, loaded, header, seenOn, straddled>>
    BY <1>2 DEF Tick, TypeOK, reqVars
  <2>2. Today' \in Nat /\ Today <= Today'
    BY <1>1, <2>1, LaterDate DEF Today
  <2>3. now' \in 0..LastSecond
    BY <1>1, <2>1
  <2>4. seenOn' \in [Requests -> 0..Today']
    <3>1. seenOn \in [Requests -> 0..Today] /\ seenOn' = seenOn
      BY <2>1 DEF TypeOK
    <3>. QED
      BY <1>1, <2>2, <3>1
  <2>5. file' \in Snapshot => file'.localDate <= Today'
    <3>1. (file \in Snapshot => file.localDate <= Today) /\ file' = file
      BY <2>1 DEF TypeOK
    <3>2. file \in Snapshot => file.localDate \in Nat
      BY DEF Snapshot
    <3>. QED
      BY <1>1, <2>2, <3>1, <3>2
  <2>6. ASSUME NEW r \in Requests
        PROVE  \/ loaded'[r] = NoSnapshot
               \/ loaded'[r] \in Snapshot /\ loaded'[r].localDate <= Today'
    <3>1. \/ loaded[r] = NoSnapshot
          \/ loaded[r] \in Snapshot /\ loaded[r].localDate <= Today
      BY DEF TypeOK
    <3>2. loaded[r] \in Snapshot => loaded[r].localDate \in Nat
      BY DEF Snapshot
    <3>3. loaded'[r] = loaded[r]
      BY <2>1
    <3>. QED
      BY <1>1, <2>2, <3>1, <3>2, <3>3
  <2>7. TypeOK'
    BY <2>1, <2>3, <2>4, <2>5, <2>6 DEF TypeOK
  <2>8. SavedIsLoadable'
    BY <2>1 DEF SavedIsLoadable
  <2>. QED
    BY <2>7, <2>8
<1>3. CASE Restart
  <2>1. NoUserinfo \in SomeSources(Reading)
    <3>1. NoUserinfo \in [{} -> Reading]
      BY DEF NoUserinfo
    <3>. QED
      BY <3>1 DEF SomeSources
  <2>2. 0 \in 0..Today
    BY <1>1
  <2>3. TypeOK'
    BY <1>3, <2>1, <2>2 DEF Restart, TypeOK, Today
  <2>4. SavedIsLoadable'
    BY <1>3 DEF Restart, SavedIsLoadable
  <2>. QED
    BY <2>3, <2>4
<1>4. ASSUME NEW s \in Sources, Grow(s) \/ Reset(s) \/ Toggle(s)
      PROVE  TypeOK' /\ SavedIsLoadable'
  <2>1. counter \in [Sources -> 0..MaxUsed] /\ moved \in Nat
    BY DEF TypeOK
  <2>2. counter' \in [Sources -> 0..MaxUsed] /\ moved' \in Nat
    <3>1. \/ /\ counter[s] < MaxUsed /\ counter' = [counter EXCEPT ![s] = @ + 1]
             /\ moved' = moved + 1
          \/ counter' = [counter EXCEPT ![s] = 0] /\ moved' = moved + counter[s]
          \/ counter' = counter /\ moved' = moved
      BY <1>4 DEF Grow, Reset, Toggle
    <3>. QED
      BY <1>1, <2>1, <3>1
  <2>3. held' \subseteq Sources /\ UNCHANGED <<now, file, straddled>> /\ UNCHANGED reqVars
    BY <1>4 DEF Grow, Reset, Toggle, TypeOK
  <2>4. Today' = Today
    BY <2>3 DEF Today
  <2>5. TypeOK'
    BY <2>2, <2>3, <2>4 DEF TypeOK, reqVars
  <2>6. SavedIsLoadable'
    BY <2>3 DEF SavedIsLoadable, reqVars
  <2>. QED
    BY <2>5, <2>6
<1>5. CASE UNCHANGED spendVars
  BY <1>5 DEF spendVars, TypeOK, SavedIsLoadable, Today
<1>. QED
  BY <1>2, <1>3, <1>4, <1>5, RequestTypes DEF Next
-----------------------------------------------------------------------------
(* DayInv *)

\* What the readings of the day are, one by one.
LEMMA ReadingsAre ==
  /\ counter \in Readings
  /\ \A r \in Requests : at[r] # "idle" /\ seenOn[r] = Today => Figures(seen[r]) \in Readings
  /\ \A r \in Requests :
       loaded[r] # NoSnapshot /\ loaded[r].localDate = Today => loaded[r].baselines \in Readings
  /\ file \in Snapshot /\ file.localDate = Today => file.baselines \in Readings
  /\ \A o \in Readings :
       \/ o = counter
       \/ \E r \in Requests : at[r] # "idle" /\ seenOn[r] = Today /\ o = Figures(seen[r])
       \/ \E r \in Requests : /\ loaded[r] # NoSnapshot /\ loaded[r].localDate = Today
                              /\ o = loaded[r].baselines
       \/ file \in Snapshot /\ file.localDate = Today /\ o = file.baselines
BY Zenon DEF Readings

\* The baselines of a snapshot are a reading.
LEMMA BaselinesAre ==
  ASSUME NEW snap \in Snapshot
  PROVE  snap.baselines \in Observation /\ snap.localDate \in Nat
BY DEF Snapshot, Observation

\* Every reading of the day maps some of the sources to figures.
LEMMA ReadingsTyped == TypeOK => \A r \in Readings : r \in Observation
<1> SUFFICES ASSUME TypeOK, NEW o \in Readings PROVE o \in Observation
  OBVIOUS
<1>1. counter \in Observation
  BY DEF TypeOK, Observation, SomeSources
<1>2. \A r \in Requests : Figures(seen[r]) \in Observation
  <2>1. \A r \in Requests : seen[r] \in SomeSources(Reading)
    BY DEF TypeOK
  <2>. QED
    BY <2>1, CollectedIs
<1>3. \A r \in Requests : loaded[r] # NoSnapshot => loaded[r] \in Snapshot
  BY DEF TypeOK
<1>. QED
  BY <1>1, <1>2, <1>3, ReadingsAre, BaselinesAre

\* A step on the same day that leaves the counters alone and adds no reading
\* but parts of those there are keeps DayInv.
LEMMA SameDay ==
  ASSUME TypeOK, TypeOK', DayInv, counter' = counter, Today' = Today, moved' = moved,
         straddled => straddled',
         ~straddled' =>
           /\ \A r \in Requests :
                /\ at'[r] # "idle" /\ seenOn'[r] = Today =>
                     \E o \in Readings : Part(Figures(seen'[r]), o)
                /\ loaded'[r] # NoSnapshot /\ loaded'[r].localDate = Today =>
                     \E o \in Readings : Part(loaded'[r].baselines, o)
           /\ file' \in Snapshot /\ file'.localDate = Today =>
                \E o \in Readings : Part(file'.baselines, o)
  PROVE  DayInv'
<1> SUFFICES ASSUME ~straddled', NEW q \in Readings', NEW t \in Readings'
             PROVE  Gap(q, t) <= moved
  BY DEF DayInv
<1>1. ASSUME NEW v \in Readings' PROVE \E o \in Readings : Part(v, o)
  <2>1. \/ v = counter'
        \/ \E r \in Requests : at'[r] # "idle" /\ seenOn'[r] = Today' /\ v = Figures(seen'[r])
        \/ \E r \in Requests : /\ loaded'[r] # NoSnapshot /\ loaded'[r].localDate = Today'
                               /\ v = loaded'[r].baselines
        \/ file' \in Snapshot /\ file'.localDate = Today' /\ v = file'.baselines
    BY Zenon DEF Readings
  <2>2. counter \in Readings /\ Part(counter, counter)
    BY ReadingsAre DEF Part
  <2>. QED
    BY <2>1, <2>2
<1>2. PICK o \in Readings : Part(q, o)
  BY <1>1
<1>3. PICK p \in Readings : Part(t, p)
  BY <1>1
<1>4. o \in Observation /\ p \in Observation
  BY ReadingsTyped
<1>5. q \in Observation /\ t \in Observation
  <2>1. TypeOK' => (\A r \in Readings : r \in Observation)'
    BY ReadingsTyped, PTL
  <2>. QED
    BY <2>1
<1>6. Gap(q, t) <= Gap(o, p)
  BY <1>2, <1>3, <1>4, <1>5, GapPart
<1>7. Gap(o, p) <= moved
  BY DEF DayInv
<1>8. Gap(q, t) \in Nat /\ Gap(o, p) \in Nat
  BY <1>4, <1>5, GapNat
<1>9. moved \in Nat
  BY DEF TypeOK
<1>. QED
  BY <1>6, <1>7, <1>8, <1>9

\* Time: on a new day there is no reading yet but the counters.
LEMMA TickDay ==
  ASSUME TypeOK, TypeOK', DayInv, Tick
  PROVE  DayInv'
<1>1. /\ now' = now + 1 /\ straddled' = straddled /\ counter' = counter
      /\ at' = at /\ seen' = seen /\ seenOn' = seenOn /\ loaded' = loaded /\ file' = file
      /\ moved' = IF Today' = Today THEN moved ELSE 0
  BY DEF Tick, reqVars, Today
<1>2. CASE Today' = Today
  <2>1. moved' = moved
    BY <1>1, <1>2
  <2>2. \A o : Part(o, o)
    BY DEF Part
  <2>. QED
    BY <1>1, <1>2, <2>1, <2>2, SameDay, ReadingsAre
<1>3. CASE Today' # Today
  <2>1. Today \in Nat /\ Today' \in Nat /\ Today < Today'
    <3>1. now \in Nat
      BY ClockIs
    <3>2. /\ LocalDate(now) \in Nat /\ LocalDate(now + 1) \in Nat
          /\ LocalDate(now) <= LocalDate(now + 1)
      BY <3>1, LaterDate
    <3>3. Today = LocalDate(now) /\ Today' = LocalDate(now + 1)
      BY <1>1 DEF Today
    <3>. QED
      BY <1>3, <3>2, <3>3
  <2>2. \A r \in Requests : seenOn'[r] # Today'
    <3>1. seenOn \in [Requests -> 0..Today] /\ seenOn' = seenOn
      BY <1>1 DEF TypeOK
    <3>. QED
      BY <2>1, <3>1
  <2>3. ASSUME NEW r \in Requests PROVE loaded'[r] = NoSnapshot \/ loaded'[r].localDate # Today'
    <3>1. loaded[r] = NoSnapshot \/ (loaded[r].localDate \in Nat /\ loaded[r].localDate <= Today)
      BY BaselinesAre DEF TypeOK
    <3>2. loaded' = loaded
      BY <1>1
    <3>. QED
      BY <2>1, <3>1, <3>2
  <2>4. file' \in Snapshot => file'.localDate # Today'
    <3>1. file \in Snapshot => file.localDate \in Nat /\ file.localDate <= Today
      BY BaselinesAre DEF TypeOK
    <3>2. file' = file
      BY <1>1
    <3>. QED
      BY <2>1, <3>1, <3>2
  <2>5. ASSUME NEW o \in Readings' PROVE o = counter
    <3>1. \/ o = counter'
          \/ \E r \in Requests : at'[r] # "idle" /\ seenOn'[r] = Today' /\ o = Figures(seen'[r])
          \/ \E r \in Requests : /\ loaded'[r] # NoSnapshot /\ loaded'[r].localDate = Today'
                                 /\ o = loaded'[r].baselines
          \/ file' \in Snapshot /\ file'.localDate = Today' /\ o = file'.baselines
      BY Zenon DEF Readings
    <3>. QED
      BY <1>1, <2>2, <2>3, <2>4, <3>1
  <2>6. counter \in Observation
    BY ReadingsAre, ReadingsTyped
  <2>7. Gap(counter, counter) <= 0
    BY <2>6, GapSelf
  <2>. QED
    BY <1>1, <1>3, <2>5, <2>7 DEF DayInv
<1>. QED
  BY <1>2, <1>3

\* Traffic: a counter that moves by k takes the other readings k farther away.
LEMMA MoveDay ==
  ASSUME TypeOK, TypeOK', DayInv, NEW s \in Sources, Grow(s) \/ Reset(s)
  PROVE  DayInv'
<1>1. /\ counter[s] \in Nat /\ moved \in Nat
      /\ counter' = [counter EXCEPT ![s] = counter'[s]] /\ counter'[s] \in Nat
      /\ moved' = moved + Abs(counter'[s] - counter[s])
      /\ now' = now /\ file' = file /\ straddled' = straddled
      /\ at' = at /\ seen' = seen /\ loaded' = loaded /\ seenOn' = seenOn
  <2>1. counter \in [Sources -> 0..MaxUsed] /\ MaxUsed \in Nat /\ moved \in Nat
    BY DailySpendAssumption DEF TypeOK
  <2>2. CASE Grow(s)
    <3>1. counter' = [counter EXCEPT ![s] = counter[s] + 1] /\ moved' = moved + 1
      BY <2>2 DEF Grow
    <3>2. counter'[s] = counter[s] + 1 /\ counter[s] \in Nat
      BY <2>1, <3>1
    <3>3. Abs(counter'[s] - counter[s]) = 1
      BY <3>2 DEF Abs
    <3>4. /\ counter[s] \in Nat /\ moved \in Nat
          /\ counter' = [counter EXCEPT ![s] = counter'[s]] /\ counter'[s] \in Nat
          /\ moved' = moved + Abs(counter'[s] - counter[s])
      BY <2>1, <3>1, <3>2, <3>3
    <3>5. /\ now' = now /\ file' = file /\ straddled' = straddled
          /\ at' = at /\ seen' = seen /\ loaded' = loaded /\ seenOn' = seenOn
      BY <2>2 DEF Grow, reqVars
    <3>. QED
      BY <3>4, <3>5
  <2>3. CASE Reset(s)
    <3>1. counter' = [counter EXCEPT ![s] = 0] /\ moved' = moved + counter[s]
      BY <2>3 DEF Reset
    <3>2. counter'[s] = 0 /\ counter[s] \in Nat
      BY <2>1, <3>1
    <3>3. Abs(counter'[s] - counter[s]) = counter[s]
      BY <3>2 DEF Abs
    <3>4. /\ counter[s] \in Nat /\ moved \in Nat
          /\ counter' = [counter EXCEPT ![s] = counter'[s]] /\ counter'[s] \in Nat
          /\ moved' = moved + Abs(counter'[s] - counter[s])
      BY <2>1, <3>1, <3>2, <3>3
    <3>5. /\ now' = now /\ file' = file /\ straddled' = straddled
          /\ at' = at /\ seen' = seen /\ loaded' = loaded /\ seenOn' = seenOn
      BY <2>3 DEF Reset, reqVars
    <3>. QED
      BY <3>4, <3>5
  <2>. QED
    BY <2>2, <2>3
<1> DEFINE k == Abs(counter'[s] - counter[s])
<1>2. k \in Nat /\ moved \in Nat
  BY <1>1 DEF Abs
<1>3. /\ counter \in Observation /\ counter' \in Observation
      /\ DOMAIN counter = Sources /\ DOMAIN counter' = Sources
  <2>1. counter \in [Sources -> 0..MaxUsed] /\ counter' \in [Sources -> 0..MaxUsed]
    BY DEF TypeOK
  <2>. QED
    BY <2>1 DEF Observation, SomeSources
<1>4. \A t \in Sources \ {s} : counter'[t] = counter[t]
  BY <1>1, <1>3
<1>5. ASSUME NEW o \in Readings' PROVE o = counter' \/ o \in Readings
  <2>1. \/ o = counter'
        \/ \E r \in Requests : at'[r] # "idle" /\ seenOn'[r] = Today' /\ o = Figures(seen'[r])
        \/ \E r \in Requests : /\ loaded'[r] # NoSnapshot /\ loaded'[r].localDate = Today'
                               /\ o = loaded'[r].baselines
        \/ file' \in Snapshot /\ file'.localDate = Today' /\ o = file'.baselines
    BY Zenon DEF Readings
  <2>2. Today' = Today
    BY <1>1 DEF Today
  <2>. QED
    BY <1>1, <2>1, <2>2, ReadingsAre
<1>6. ASSUME ~straddled, NEW o \in Readings
      PROVE  Gap(o, counter') <= moved + k /\ Gap(counter', o) <= moved + k
  <2>1. o \in Observation
    BY ReadingsTyped
  <2>2. Gap(o, counter') <= Gap(o, counter) + k
    <3> HIDE DEF k
    <3>1. Gap(o, counter') <= Gap(o, counter) + Abs(counter'[s] - counter[s])
      BY <1>3, <1>4, <2>1, GapMove
    <3>. QED
      BY <3>1 DEF k
  <2>3. Gap(o, counter) <= moved
    BY <1>6, ReadingsAre DEF DayInv
  <2>4. Gap(counter', o) <= Gap(o, counter')
    <3>1. Part(counter', counter') /\ Part(o, o)
      BY DEF Part
    <3>. QED
      BY <1>3, <2>1, <3>1, GapPart
  <2>5. Gap(o, counter) \in Nat /\ Gap(o, counter') \in Nat /\ Gap(counter', o) \in Nat
    BY <1>3, <2>1, GapNat
  <2> HIDE DEF k
  <2>. QED
    BY <1>2, <2>2, <2>3, <2>4, <2>5
<1>7. Gap(counter', counter') <= moved + k
  <2> HIDE DEF k
  <2>1. Gap(counter', counter') = 0
    BY <1>3, GapSelf
  <2>. QED
    BY <1>2, <2>1
<1>8. ASSUME ~straddled, NEW o \in Readings, NEW p \in Readings
      PROVE  Gap(o, p) <= moved + k
  <2>1. Gap(o, p) \in Nat
    BY ReadingsTyped, GapNat
  <2>2. Gap(o, p) <= moved
    BY <1>8 DEF DayInv
  <2> HIDE DEF k
  <2>. QED
    BY <1>2, <2>1, <2>2
<1>9. moved' = moved + k /\ straddled' = straddled
  BY <1>1
<1> HIDE DEF k
<1>10. SUFFICES ASSUME ~straddled', NEW q \in Readings', NEW t \in Readings'
                PROVE  Gap(q, t) <= moved'
  BY DEF DayInv
<1>. QED
  BY <1>5, <1>6, <1>7, <1>8, <1>9, <1>10

\* Requests: what one collects is part of the counters; what it captures, loads
\* or saves are readings there are.
LEMMA RequestDay ==
  ASSUME TypeOK, TypeOK', DayInv, NEW r \in Requests, RequestStep(r)
  PROVE  DayInv'
<1>1. now' = now /\ Today' = Today /\ counter' = counter /\ moved' = moved
  BY DEF RequestStep, Collect, Load, ComposeHeader, ComposeNothing, Save, Today
<1>2. \A o : Part(o, o)
  BY DEF Part
<1>3. CASE Collect(r)
  <2>1. /\ seen' = [seen EXCEPT ![r] = [s \in held |-> Userinfo(s)]]
        /\ seenOn' = [seenOn EXCEPT ![r] = Today] /\ at' = [at EXCEPT ![r] = "load"]
        /\ file' = file /\ loaded' = loaded /\ straddled' = straddled
    BY <1>3 DEF Collect
  <2>2. Part(Figures(seen'[r]), counter)
    <3>1. seen'[r] = [s \in held |-> Userinfo(s)]
      BY <2>1 DEF TypeOK
    <3>2. held \subseteq Sources /\ counter \in [Sources -> 0..MaxUsed]
      BY DEF TypeOK
    <3>3. \A s \in held : Cumulative(Userinfo(s)) = counter[s] /\ s \in DOMAIN counter
      BY <3>2, ClockIs DEF Cumulative, Userinfo
    <3>. QED
      BY <3>1, <3>3 DEF Part, Figures
  <2>3. ASSUME NEW q \in Requests, at'[q] # "idle", seenOn'[q] = Today
        PROVE  \E o \in Readings : Part(Figures(seen'[q]), o)
    <3>1. CASE q = r
      BY <2>2, <3>1, ReadingsAre
    <3>2. CASE q # r
      <4>1. at'[q] = at[q] /\ seenOn'[q] = seenOn[q] /\ seen'[q] = seen[q]
        BY <2>1, <3>2 DEF TypeOK
      <4>. QED
        BY <1>2, <2>3, <4>1, ReadingsAre
    <3>. QED
      BY <3>1, <3>2
  <2>. QED
    BY <1>1, <1>2, <2>1, <2>3, SameDay, ReadingsAre
<1>4. CASE Load(r)
  <2>1. PICK snap \in {file, NoSnapshot} :
          loaded' = [loaded EXCEPT ![r] =
            IF snap \in {NoSnapshot, Damaged} THEN NoSnapshot
            ELSE IF ValidSnapshot(snap) THEN snap ELSE NoSnapshot]
    BY <1>4 DEF Load
  <2>2. at' = [at EXCEPT ![r] = "compose"] /\ at[r] = "load"
    BY <1>4 DEF Load
  <2>3. file' = file /\ seen' = seen /\ seenOn' = seenOn /\ straddled' = straddled
    BY <1>4 DEF Load
  <2>4. \A q \in Requests : at'[q] # "idle" => at[q] # "idle"
    BY <2>2 DEF TypeOK
  <2>5. ASSUME NEW q \in Requests, loaded'[q] # NoSnapshot, loaded'[q].localDate = Today
        PROVE  \E o \in Readings : Part(loaded'[q].baselines, o)
    <3>1. loaded'[q] = loaded[q] \/ (loaded'[q] = file /\ file \in Snapshot)
      BY <2>1, <2>5 DEF TypeOK
    <3>. QED
      BY <1>2, <2>5, <3>1, ReadingsAre
  <2>. QED
    BY <1>1, <1>2, <2>3, <2>4, <2>5, SameDay, ReadingsAre
<1>5. CASE ComposeHeader(r) /\ IsRolloverNeeded(loaded[r], now)
  <2> DEFINE new == NewSnapshot(seen[r], loaded[r], now)
  <2>1. /\ loaded' = [loaded EXCEPT ![r] = new]
        /\ at[r] = "compose" /\ at' = [at EXCEPT ![r] = "save"]
        /\ straddled' = (straddled \/ seenOn[r] # Today)
        /\ seen' = seen /\ seenOn' = seenOn /\ file' = file
    BY <1>5 DEF ComposeHeader
  <2>2. new.baselines = Figures(seen[r])
    <3>1. seen \in [Requests -> SomeSources(Reading)] /\ now \in 0..LastSecond
      BY DEF TypeOK
    <3>2. seen[r] \in SomeSources(Reading) /\ now \in Nat
      BY <3>1
    <3>. QED
      BY <1>5, <3>2, NewSnapshotIs
  <2> HIDE DEF new
  <2>3. \A q \in Requests : at'[q] # "idle" => at[q] # "idle"
    BY <2>1 DEF TypeOK
  <2>4. ASSUME ~straddled',
               NEW q \in Requests, loaded'[q] # NoSnapshot, loaded'[q].localDate = Today
        PROVE  \E o \in Readings : Part(loaded'[q].baselines, o)
    <3>1. CASE q = r
      <4>1. loaded'[q] = new
        BY <2>1, <3>1 DEF TypeOK
      <4>2. Figures(seen[r]) \in Readings
        BY <2>1, <2>4, ReadingsAre
      <4>. QED
        BY <1>2, <2>2, <4>1, <4>2
    <3>2. CASE q # r
      <4>1. loaded'[q] = loaded[q]
        BY <2>1, <3>2 DEF TypeOK
      <4>. QED
        BY <1>2, <2>4, <4>1, ReadingsAre
    <3>. QED
      BY <3>1, <3>2
  <2>. QED
    BY <1>1, <1>2, <2>1, <2>3, <2>4, SameDay, ReadingsAre
<1>6. CASE \/ ComposeHeader(r) /\ ~IsRolloverNeeded(loaded[r], now)
           \/ ComposeNothing(r) \/ Save(r)
  <2>1. Finish(r) /\ straddled' = straddled
    BY <1>6 DEF ComposeHeader, ComposeNothing, Save
  <2>2. file' = file \/ file' = Damaged \/ (file' = loaded[r] /\ at[r] = "save")
    BY <1>6 DEF ComposeHeader, ComposeNothing, Save
  <2>3. /\ at' = [at EXCEPT ![r] = "idle"] /\ seen' = [seen EXCEPT ![r] = NoUserinfo]
        /\ loaded' = [loaded EXCEPT ![r] = NoSnapshot] /\ seenOn' = [seenOn EXCEPT ![r] = 0]
    BY <2>1 DEF Finish
  <2>4. at'[r] = "idle" /\ loaded'[r] = NoSnapshot
    BY <2>3 DEF TypeOK
  <2>5. \A q \in Requests \ {r} : /\ at'[q] = at[q] /\ seen'[q] = seen[q]
                                  /\ seenOn'[q] = seenOn[q] /\ loaded'[q] = loaded[q]
    BY <2>3 DEF TypeOK
  <2>6. ASSUME NEW q \in Requests
        PROVE  /\ at'[q] # "idle" /\ seenOn'[q] = Today =>
                    \E o \in Readings : Part(Figures(seen'[q]), o)
               /\ loaded'[q] # NoSnapshot /\ loaded'[q].localDate = Today =>
                    \E o \in Readings : Part(loaded'[q].baselines, o)
    BY <1>2, <2>4, <2>5, ReadingsAre
  <2>7. ASSUME file' \in Snapshot, file'.localDate = Today
        PROVE  \E o \in Readings : Part(file'.baselines, o)
    <3>1. file' = file \/ (file' = loaded[r] /\ loaded[r] # NoSnapshot)
      BY <2>2, <2>7, DailySpendAssumption DEF TypeOK
    <3>. QED
      BY <1>2, <2>7, <3>1, ReadingsAre
  <2>. QED
    BY <1>1, <2>1, <2>6, <2>7, SameDay
<1>. QED
  BY <1>3, <1>4, <1>5, <1>6 DEF RequestStep

\* SpendInv is inductive.
LEMMA SpendStep ==
  ASSUME SpendInv, [Next]_spendVars
  PROVE  SpendInv'
<1>1. TypeOK' /\ SavedIsLoadable'
  BY TypeStep DEF SpendInv
<1>2. TypeOK /\ DayInv
  BY DEF SpendInv
<1>3. CASE Tick
  BY <1>1, <1>2, <1>3, TickDay DEF SpendInv
<1>4. CASE Restart
  <2>1. /\ at' = [r \in Requests |-> "idle"] /\ loaded' = [r \in Requests |-> NoSnapshot]
        /\ now' = now /\ counter' = counter /\ file' = file /\ moved' = moved
        /\ straddled' = straddled
    BY <1>4 DEF Restart
  <2>2. Today' = Today
    BY <2>1 DEF Today
  <2>3. \A o : Part(o, o)
    BY DEF Part
  <2>4. DayInv'
    BY <1>1, <1>2, <2>1, <2>2, <2>3, SameDay, ReadingsAre
  <2>. QED
    BY <1>1, <2>4 DEF SpendInv
<1>5. ASSUME NEW s \in Sources, Grow(s) \/ Reset(s) PROVE SpendInv'
  BY <1>1, <1>2, <1>5, MoveDay DEF SpendInv
<1>6. CASE (\E s \in Sources : Toggle(s)) \/ UNCHANGED spendVars
  <2>1. /\ now' = now /\ counter' = counter /\ file' = file /\ moved' = moved
        /\ straddled' = straddled
        /\ at' = at /\ seen' = seen /\ loaded' = loaded /\ seenOn' = seenOn
    BY <1>6 DEF Toggle, spendVars, reqVars
  <2>2. Today' = Today
    BY <2>1 DEF Today
  <2>3. \A o : Part(o, o)
    BY DEF Part
  <2>4. DayInv'
    BY <1>1, <1>2, <2>1, <2>2, <2>3, SameDay, ReadingsAre
  <2>. QED
    BY <1>1, <2>4 DEF SpendInv
<1>7. ASSUME NEW r \in Requests, RequestStep(r) PROVE SpendInv'
  BY <1>1, <1>2, <1>7, RequestDay DEF SpendInv
<1>. QED
  BY <1>3, <1>4, <1>5, <1>6, <1>7 DEF Next

\* Before the first second there is one reading, of zeros.
LEMMA SpendInit == Init => SpendInv
<1> SUFFICES ASSUME Init PROVE SpendInv
  OBVIOUS
<1>1. Today \in Nat
  BY LaterDate DEF Today, Init
<1>2. NoUserinfo \in SomeSources(Reading)
  <2>1. NoUserinfo \in [{} -> Reading]
    BY DEF NoUserinfo
  <2>. QED
    BY <2>1 DEF SomeSources
<1>3. TypeOK
  <2>1. 0 \in 0..LastSecond /\ 0 \in 0..MaxUsed /\ 0 \in 0..Today
    BY <1>1, DailySpendAssumption
  <2>2. file = NoSnapshot /\ NoSnapshot \notin Snapshot
    BY DailySpendAssumption DEF Init
  <2>3. \A r \in Requests : loaded[r] = NoSnapshot /\ at[r] = "idle"
    BY DEF Init
  <2>. QED
    BY <1>2, <2>1, <2>2, <2>3 DEF Init, TypeOK
<1>4. SavedIsLoadable
  BY DEF Init, SavedIsLoadable
<1>5. ASSUME NEW o \in Readings PROVE o = counter
  BY ReadingsAre, DailySpendAssumption DEF Init
<1>6. Gap(counter, counter) = 0
  BY <1>3, ReadingsAre, ReadingsTyped, GapSelf
<1>7. DayInv
  BY <1>5, <1>6 DEF DayInv, Init
<1>. QED
  BY <1>3, <1>4, <1>7 DEF SpendInv

\* The inductive invariant holds of every run.
THEOREM SpendInvariant == Spec => []SpendInv
<1>1. SpendInv /\ [Next]_spendVars => SpendInv'
  BY SpendStep
<1>. QED
  BY <1>1, SpendInit, PTL DEF Spec

\* The variables keep their types, whatever is interleaved: no snapshot is
\* dated ahead of the clock and Save is never called without one
\* (snapshot.go Save, pipeline.go Build).
THEOREM SpendTyped == Spec => []TypeOK
<1>1. SpendInv => TypeOK
  BY DEF SpendInv
<1>. QED
  BY <1>1, SpendInvariant, PTL

\* Every snapshot about to be saved is one that validateSnapshot accepts when
\* it is loaded again (snapshot.go CaptureSnapshot, Load).
THEOREM SavedAlwaysLoadable == Spec => []SavedIsLoadable
<1>1. SpendInv => SavedIsLoadable
  BY DEF SpendInv
<1>. QED
  BY <1>1, SpendInvariant, PTL
-----------------------------------------------------------------------------
(* SpendIsTodays *)

\* A plain sum of deltas is at most the distance to the baselines.
LEMMA UsedWithin ==
  ASSUME NEW per \in SomeSources(Reading), NEW snap, snap.baselines \in Observation
  PROVE  /\ ComputeUsedToday(per, snap) \in Nat
         /\ ComputeUsedToday(per, snap) <= Gap(Figures(per), snap.baselines)
<1> DEFINE o == Figures(per)
<1> DEFINE p == snap.baselines
<1> DEFINE D == DOMAIN o \cap DOMAIN p
<1> DEFINE E == DOMAIN per \ DOMAIN p
<1> DEFINE e == [s \in DOMAIN per |-> Delta(per, snap, s)]
<1> DEFINE f == Apart(o, p)
<1>1. o \in Observation /\ p \in Observation /\ DOMAIN o = DOMAIN per /\ IsFiniteSet(DOMAIN per)
  BY CollectedIs DEF Figures
<1>2. /\ IsFiniteSet(D) /\ Gap(o, p) = SumFunctionOnSet(f, D)
      /\ \A s \in D : f[s] = Abs(o[s] - p[s]) /\ f[s] \in Nat
  <2> HIDE DEF o, p
  <2>. QED
    BY <1>1, ApartIs
<1>3. ComputeUsedToday(per, snap) = SumFunctionOnSet(e, DOMAIN per)
  <2>1. ComputeUsedToday(per, snap) = SumFunctionOnSet(e, DOMAIN e)
    BY Zenon DEF ComputeUsedToday, SumFunction
  <2>2. DOMAIN e = DOMAIN per
    OBVIOUS
  <2> HIDE DEF e
  <2>. QED
    BY <2>1, <2>2, Zenon
<1>4. ASSUME NEW s \in D PROVE e[s] \in Nat /\ e[s] <= f[s]
  <2>1. s \in DOMAIN per /\ s \in DOMAIN p
    BY <1>1
  <2>2. o[s] = Cumulative(per[s]) /\ o[s] \in Int /\ p[s] \in Int
    <3>1. o[s] = Cumulative(per[s])
      BY <2>1 DEF Figures
    <3> HIDE DEF o, p
    <3>2. o[s] \in Int /\ p[s] \in Int
      BY <1>1, <2>1, ObservationIs
    <3>. QED
      BY <3>1, <3>2
  <2>3. e[s] = AtLeast(o[s] - p[s], 0)
    BY <2>1, <2>2 DEF Delta
  <2>4. f[s] = Abs(o[s] - p[s])
    BY <1>2
  <2> HIDE DEF e, f, o, p
  <2>. QED
    BY <2>2, <2>3, <2>4 DEF AtLeast, Abs
<1>5. ASSUME NEW s \in E PROVE e[s] = 0
  BY DEF Delta
<1>6. DOMAIN per = D \cup E /\ D \cap E = {}
  BY <1>1
<1>7. IsFiniteSet(E)
  BY <1>1, FS_Difference
<1> HIDE DEF D, E, e, f, o, p
<1>8. SumFunctionOnSet(e, E) = 0
  BY <1>5, <1>7, SumZero
<1>9. SumFunctionOnSet(e, D \cup E) = SumFunctionOnSet(e, D) + SumFunctionOnSet(e, E)
  <2>1. (\A s \in D : e[s] \in Int) /\ (\A s \in E : e[s] \in Int)
    BY <1>4, <1>5
  <2>. QED
    BY <1>2, <1>6, <1>7, <2>1, SumUnion
<1>10. SumFunctionOnSet(e, DOMAIN per) = SumFunctionOnSet(e, D \cup E)
  BY <1>6, Zenon
<1>11. SumFunctionOnSet(e, D) <= SumFunctionOnSet(f, D) /\ SumFunctionOnSet(e, D) \in Nat
  BY <1>2, <1>4, SumLe, SumNat
<1>12. ComputeUsedToday(per, snap) \in Nat /\ ComputeUsedToday(per, snap) <= Gap(o, p)
  BY <1>2, <1>3, <1>8, <1>9, <1>10, <1>11
<1>. QED
  BY <1>12 DEF o, p

\* The request that rolls over reads no spend at all.
LEMMA NothingUsedAtRollover ==
  ASSUME NEW per \in SomeSources(Reading), NEW snap, snap.baselines = Figures(per)
  PROVE  ComputeUsedToday(per, snap) = 0
<1>1. Figures(per) \in Observation
  BY CollectedIs
<1>2. /\ ComputeUsedToday(per, snap) \in Nat
      /\ ComputeUsedToday(per, snap) <= Gap(Figures(per), Figures(per))
  BY <1>1, UsedWithin
<1>. QED
  BY <1>1, <1>2, GapSelf

\* A request reports at most what the counters moved since midnight, for any
\* number of requests and sources: never yesterday's spend.  Its figures and
\* the baselines it goes by are both readings of the day
\* (pipeline.go Build, traffic.go ComposeServedTrafficHeaderWithSpend).
THEOREM SpendAlwaysTodays == Spec => SpendIsTodays
<1>1. ASSUME SpendInv, [Next]_spendVars, NEW r \in Requests,
             header'[r] # header[r], header'[r] # NoHeader, seenOn[r] = Today, ~straddled'
      PROVE  header'[r].used <= moved
  <2>1. ComposeHeader(r)
    <3>1. ASSUME NEW q \in Requests, RequestStep(q) PROVE ComposeHeader(r)
      <4>1. CASE q = r
        BY <1>1, <3>1, <4>1
          DEF RequestStep, Collect, Load, ComposeNothing, Save, SpendInv, TypeOK
      <4>2. CASE q # r
        BY <1>1, <3>1, <4>2
          DEF RequestStep, Collect, Load, ComposeHeader, ComposeNothing, Save, SpendInv, TypeOK
      <4>. QED
        BY <4>1, <4>2
    <3>2. ASSUME \/ Tick \/ UNCHANGED spendVars
                 \/ \E s \in Sources : Grow(s) \/ Reset(s) \/ Toggle(s)
          PROVE  header' = header
      BY <3>2 DEF Tick, Grow, Reset, Toggle, spendVars, reqVars
    <3>3. Restart => header'[r] = NoHeader
      BY DEF Restart
    <3>. QED
      BY <1>1, <3>1, <3>2, <3>3 DEF Next
  <2> DEFINE snap == NewSnapshot(seen[r], loaded[r], now)
  <2>2. header'[r].used = ComputeUsedToday(seen[r], snap)
    BY <1>1, <2>1 DEF ComposeHeader, Compose, SpendInv, TypeOK
  <2>3. seen[r] \in SomeSources(Reading) /\ now \in Nat /\ moved \in Nat
    <3>1. /\ seen \in [Requests -> SomeSources(Reading)]
          /\ now \in 0..LastSecond /\ moved \in Nat
      BY <1>1 DEF SpendInv, TypeOK
    <3>. QED
      BY <3>1
  <2>4. CASE IsRolloverNeeded(loaded[r], now)
    <3>1. snap.baselines = Figures(seen[r])
      BY <2>3, <2>4, NewSnapshotIs
    <3> HIDE DEF snap
    <3>. QED
      BY <2>2, <2>3, <3>1, NothingUsedAtRollover
  <2>5. CASE ~IsRolloverNeeded(loaded[r], now)
    <3>1. snap = loaded[r] /\ loaded[r] # NoSnapshot /\ loaded[r].localDate = Today
      BY <2>3, <2>5, NewSnapshotIs DEF IsRolloverNeeded, Today
    <3>2. loaded[r].baselines \in Readings /\ loaded[r].baselines \in Observation
      BY <1>1, <3>1, ReadingsAre, ReadingsTyped DEF SpendInv
    <3>3. Figures(seen[r]) \in Readings /\ Figures(seen[r]) \in Observation
      BY <1>1, <2>1, ReadingsAre, ReadingsTyped DEF SpendInv, ComposeHeader
    <3>4. ~straddled
      BY <1>1, <2>1, <2>5 DEF ComposeHeader
    <3>5. Gap(Figures(seen[r]), loaded[r].baselines) <= moved
      BY <1>1, <3>2, <3>3, <3>4 DEF SpendInv, DayInv
    <3> HIDE DEF snap
    <3>6. /\ ComputeUsedToday(seen[r], loaded[r]) \in Nat
          /\ ComputeUsedToday(seen[r], loaded[r]) <= Gap(Figures(seen[r]), loaded[r].baselines)
      BY <2>3, <3>2, UsedWithin
    <3>7. Gap(Figures(seen[r]), loaded[r].baselines) \in Nat
      BY <3>2, <3>3, GapNat
    <3>. QED
      BY SMTT(30), <2>2, <2>3, <3>1, <3>5, <3>6, <3>7
  <2>. QED
    BY <2>4, <2>5
<1>2. SpendInv /\ [Next]_spendVars =>
        [\A r \in Requests :
           header'[r] # header[r] /\ header'[r] # NoHeader /\ seenOn[r] = Today /\ ~straddled'
             => header'[r].used <= moved]_spendVars
  BY <1>1
<1>. QED
  BY <1>2, SpendInvariant, PTL DEF Spec, SpendIsTodays
=============================================================================
