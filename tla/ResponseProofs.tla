--------------------------- MODULE ResponseProofs ---------------------------
(***************************************************************************)
(* Theorems about Response: which configurations are ever in force, and    *)
(* what the traffic headers say, for all files, replies, clocks and        *)
(* clients.                                                                *)
(***************************************************************************)
EXTENDS ResponseProperties, ConfigProofs

-----------------------------------------------------------------------------
(* The configuration in force *)

\* What run() found decides, once and for all, what is in force.
ConfigInv ==
  /\ stage \in {"start", "up", "fatal"}
  /\ stage = "up" => files \in StartFiles /\ Run(files).ok /\ config = Run(files).val

\* Nothing is in force before run().
LEMMA ConfigInvInit == ResponseInit => ConfigInv
BY DEF ResponseInit, ConfigInv

\* Start is the only step that loads files.
LEMMA ConfigInvNext == ConfigInv /\ [ResponseNext]_responseVars => ConfigInv'
<1> SUFFICES ASSUME ConfigInv, [ResponseNext]_responseVars PROVE ConfigInv'
  OBVIOUS
<1>1. ASSUME NEW found \in StartFiles, Start(found) PROVE ConfigInv'
  BY <1>1 DEF Start, ConfigInv
<1>2. ASSUME NEW replies \in ReplyMaps, Refresh(replies) PROVE ConfigInv'
  BY <1>2 DEF Refresh, ConfigInv
<1>3. ASSUME NEW time \in Nat, Advance(time) PROVE ConfigInv'
  BY <1>3 DEF Advance, ConfigInv
<1>4. ASSUME NEW ua \in UserAgents, Serve(ua) PROVE ConfigInv'
  BY <1>4 DEF Serve, ConfigInv
<1>5. ASSUME UNCHANGED responseVars PROVE ConfigInv'
  BY <1>5 DEF responseVars, ConfigInv
<1>. QED BY <1>1, <1>2, <1>3, <1>4, <1>5 DEF ResponseNext

\* The rows of a configuration in force have different names, one for each
\* record with a proper name; its numbers are positive, its prefixes not blank
\* and its custom rule sets in order: whatever the files, the loaders of run()
\* let no other through, and no later step replaces it.
THEOREM ConfigAlwaysSound == ResponseSpec => []AcceptedConfigIsSound
<1>1. ConfigInv => AcceptedConfigIsSound
  <2> SUFFICES ASSUME ConfigInv, stage = "up" PROVE AcceptedConfigIsSound
    BY DEF AcceptedConfigIsSound
  <2> DEFINE named == {i \in DOMAIN files.csv.records :
                         NameFormatOk(Cells(files.csv.header, files.csv.records[i])["name"])}
  <2>1. WellFormed(files) /\ Run(files).ok /\ config = Run(files).val
    BY ResponseAssumption DEF ConfigInv
  <2>2. /\ config.rows \in Seq(RowType)
        /\ \A i, j \in DOMAIN config.rows : config.rows[i].name = config.rows[j].name => i = j
        /\ Len(config.rows) = Cardinality(named)
        /\ \A k \in DOMAIN config.cfg.ints : config.cfg.ints[k] \in Nat \ {0}
        /\ <<>> \notin ToSet(config.cfg.agents)
        /\ config.customs \in Seq(CustomType)
        /\ \A i, j \in DOMAIN config.customs :
             i < j => config.customs[i].priority <= config.customs[j].priority
    BY <2>1, RunIs, Zenon
  <2> HIDE DEF named
  <2>3. Len(config.rows) = Cardinality({config.rows[i].name : i \in DOMAIN config.rows})
    BY <2>2, NamesCount
  <2>4. \A i \in DOMAIN config.rows :
          config.rows[i].staleOnError >= 0 /\ config.rows[i].rank > 0
    <3> TAKE i \in DOMAIN config.rows
    <3>1. config.rows[i] \in RowType
      BY <2>2
    <3>. QED BY <3>1 DEF RowType
  <2>5. \A k \in DOMAIN config.cfg.ints : config.cfg.ints[k] > 0
    BY <2>2
  <2>6. \A i \in DOMAIN config.customs : 0 <= config.customs[i].priority
    <3> TAKE i \in DOMAIN config.customs
    <3>1. config.customs[i] \in CustomType
      BY <2>2
    <3>. QED BY <3>1 DEF CustomType
  <2>. QED BY <2>2, <2>3, <2>4, <2>5, <2>6, Zenon DEF AcceptedConfigIsSound, named
<1>. QED BY <1>1, ConfigInvInit, ConfigInvNext, PTL DEF ResponseSpec

-----------------------------------------------------------------------------
(* Readings and snapshots *)

\* There are finitely many sources.
LEMMA SourcesFinite ==
  ASSUME NEW T, NEW per \in Partial(T)
  PROVE  /\ DOMAIN per \subseteq ToSet(Alphabet) /\ IsFiniteSet(DOMAIN per)
         /\ \A s \in DOMAIN per : per[s] \in T
<1>1. PICK D \in SUBSET ToSet(Alphabet) : per \in [D -> T]
  BY DEF Partial
<1>2. Alphabet \in Seq(STRING)
  BY ConfigAssumption
<1>3. ToSet(Alphabet) = Range(Alphabet)
  BY DEF ToSet, Range
<1>4. IsFiniteSet(ToSet(Alphabet))
  <2>1. Alphabet \in [1..Len(Alphabet) -> ToSet(Alphabet)] /\ Len(Alphabet) \in Nat
    BY <1>2 DEF ToSet
  <2>2. IsFiniteSet(1..Len(Alphabet))
    BY <2>1, FS_Interval
  <2>3. \A y \in ToSet(Alphabet) : \E x \in 1..Len(Alphabet) : Alphabet[x] = y
    BY <1>2 DEF ToSet
  <2>4. Alphabet \in Surjection(1..Len(Alphabet), ToSet(Alphabet))
    BY <2>1, <2>3 DEF Surjection
  <2>. QED BY <2>2, <2>4, FS_Surjection
<1>5. DOMAIN per = D
  BY <1>1
<1>6. IsFiniteSet(DOMAIN per)
  BY <1>4, <1>5, FS_Subset
<1>. QED BY <1>1, <1>5, <1>6

\* Read from the sources, they are a reading.
LEMMA ReadingIs ==
  ASSUME NEW per \in Partial(UserinfoType) PROVE Measured(per)
BY SourcesFinite DEF Measured

\* The snapshot of a day is one.
LEMMA PinnedIs ==
  ASSUME NEW p \in Partial(UserinfoType), NEW a \in Int, NEW day \in Int
  PROVE  /\ Pinned(p, a, day) \in SnapshotType /\ Pinned(p, a, day) # NoSnapshot
         /\ Pinned(p, a, day).localDate = day
         /\ Counted(p) /\ a \in Nat => ValidSnapshot(Pinned(p, a, day))
<1> DEFINE snap == Pinned(p, a, day)
<1>1. DOMAIN p \in SUBSET ToSet(Alphabet)
  BY SourcesFinite
<1>2. /\ snap.localDate = day /\ snap.allowanceToday = a
      /\ snap.baselines \in [DOMAIN p -> Int]
      /\ snap.uploadRatios \in [DOMAIN p -> [n : Int, d : Int]]
      /\ Counted(p) /\ a \in Nat => ValidSnapshot(snap)
  BY ReadingIs, PinnedLoads
<1>3. snap.baselines \in Partial(Int) /\ snap.uploadRatios \in Partial([n : Int, d : Int])
  BY <1>1, <1>2 DEF Partial
<1>4. snap = [localDate |-> snap.localDate, allowanceToday |-> snap.allowanceToday,
              baselines |-> snap.baselines, uploadRatios |-> snap.uploadRatios]
  BY DEF Pinned
<1>5. snap \in SnapshotType
  <2> HIDE DEF snap
  <2>. QED BY <1>2, <1>3, <1>4 DEF SnapshotType
<1>6. snap # NoSnapshot
  BY <1>5, ResponseAssumption
<1>. QED BY <1>2, <1>5, <1>6

-----------------------------------------------------------------------------
(* The header, read back *)

\* The figures a client reads are the ones the header was made of.
LEMMA HeaderIs ==
  ASSUME NEW h
  PROVE  /\ UserinfoHeader(h) # <<>>
         /\ Shown(UserinfoHeader(h))["upload"] = h.split.upload
         /\ Shown(UserinfoHeader(h))["download"] = h.split.download
         /\ Shown(UserinfoHeader(h))["total"] = IF h.total = 0 THEN h.allowance ELSE h.total
<1> DEFINE pairs == UserinfoHeader(h)
           Where(f) == {i \in 1..Len(pairs) : pairs[i].key = f}
           LastOf(f) == IF Where(f) # {} THEN Max(Where(f)) ELSE 0
           bad == \/ \E i \in DOMAIN pairs : pairs[i].key = "" \/ ~IsInt(pairs[i].val)
                  \/ \A f \in UserinfoFields : LastOf(f) = 0
<1>1. /\ Len(pairs) = 4 /\ DOMAIN pairs = 1..4 /\ pairs # <<>>
      /\ pairs[1] = [key |-> "upload", val |-> Num(h.split.upload)]
      /\ pairs[2] = [key |-> "download", val |-> Num(h.split.download)]
      /\ pairs[3] = [key |-> "total", val |-> Num(IF h.total = 0 THEN h.allowance ELSE h.total)]
      /\ pairs[4] = [key |-> "expire", val |-> Num(h.expire)]
  BY DEF UserinfoHeader
<1>2. Shown(pairs) = IF bad THEN NoUserinfo
        ELSE [f \in UserinfoFields |-> IF LastOf(f) = 0 THEN 0 ELSE pairs[LastOf(f)].val.n]
  BY DEF Shown, ParseSubscriptionUserinfo, SelectLastInSeq
<1> HIDE DEF pairs
<1>3. Where("upload") = {1} /\ Where("download") = {2} /\ Where("total") = {3}
  BY <1>1
<1>4. LastOf("upload") = 1 /\ LastOf("download") = 2 /\ LastOf("total") = 3
  <2>1. \A k \in 1..4 : Max({k}) = k
    <3> TAKE k \in 1..4
    <3>1. {k} \in SUBSET (0..4) /\ {k} # {}
      OBVIOUS
    <3>2. Max({k}) \in {k}
      BY <3>1, MaxIs
    <3>. QED BY <3>2
  <2> HIDE DEF Where
  <2>. QED BY <1>3, <2>1
<1>5. \A i \in DOMAIN pairs : pairs[i].key \in UserinfoFields /\ IsInt(pairs[i].val)
  <2> TAKE i \in DOMAIN pairs
  <2>1. i \in {1, 2, 3, 4}
    BY <1>1
  <2>. QED BY <1>1, <2>1 DEF IsInt, Num, UserinfoFields
<1>6. "" \notin UserinfoFields
  BY Zenon DEF UserinfoFields
<1>7. "upload" \in UserinfoFields /\ "download" \in UserinfoFields /\ "total" \in UserinfoFields
  BY DEF UserinfoFields
<1> HIDE DEF LastOf
<1>9. LastOf("upload") # 0
  BY <1>4
<1>8. ~bad
  BY <1>5, <1>6, <1>7, <1>9, Zenon
<1> HIDE DEF bad
<1>10. \A f \in UserinfoFields : LastOf(f) # 0 => Shown(pairs)[f] = pairs[LastOf(f)].val.n
  BY <1>2, <1>8
<1>11. /\ Shown(pairs)["upload"] = pairs[1].val.n
       /\ Shown(pairs)["download"] = pairs[2].val.n
       /\ Shown(pairs)["total"] = pairs[3].val.n
  BY <1>4, <1>7, <1>10
<1>. QED BY <1>1, <1>11 DEF Num, pairs

-----------------------------------------------------------------------------
(* What is held, and what the first request of the day left *)

\* Figures are held for sources with a proper name only, and are what a
\* userinfo header parses to.
HeldInv ==
  /\ now \in Nat
  /\ DOMAIN held \subseteq ToSet(Alphabet)
  /\ \A s \in DOMAIN held : held[s].userinfo \in {NoUserinfo} \cup UserinfoType
  /\ stage = "start" => answer = NoAnswer

\* The first request with figures of a day leaves the snapshot of the day.  If
\* its figures counted for something, that is what it read, with the allowance
\* it showed; a request that finds this snapshot saves it again unchanged.
PinInv ==
  /\ first.day \in Int /\ first.day <= LocalDate(now)
  /\ snapshot # NoSnapshot => snapshot.localDate = first.day
  /\ first.day = LocalDate(now) =>
       /\ first.perSource \in Partial(UserinfoType)
       /\ Shown(first.userinfo)["total"] \in Nat
       /\ Counted(first.perSource) =>
            snapshot = Pinned(first.perSource, Shown(first.userinfo)["total"], first.day)

\* The sources that are enabled are among those with a proper name.
LEMMA EnabledIs == ConfigInv /\ stage = "up" => Enabled \subseteq ToSet(Alphabet)
<1> SUFFICES ASSUME ConfigInv, stage = "up" PROVE Enabled \subseteq ToSet(Alphabet)
  OBVIOUS
<1>1. WellFormed(files) /\ Run(files).ok /\ config = Run(files).val
  BY ResponseAssumption DEF ConfigInv
<1>2. config.rows \in Seq(RowType)
  BY <1>1, RunIs
<1>3. \A i \in DOMAIN config.rows : config.rows[i] \in RowType
  BY <1>2
<1>4. \A i \in DOMAIN config.rows : config.rows[i].name \in ToSet(Alphabet)
  BY <1>3 DEF RowType
<1>. QED BY <1>4 DEF Enabled

\* The figures a request collects.
LEMMA PerSourceIs ==
  HeldInv => /\ PerSource(held) \in Partial(UserinfoType)
             /\ \A s \in DOMAIN PerSource(held) : PerSource(held)[s] = held[s].userinfo
<1> SUFFICES ASSUME HeldInv
             PROVE  /\ PerSource(held) \in Partial(UserinfoType)
                    /\ \A s \in DOMAIN PerSource(held) : PerSource(held)[s] = held[s].userinfo
  OBVIOUS
<1> DEFINE D == {t \in DOMAIN held : held[t].userinfo # NoUserinfo}
<1>1. D \in SUBSET ToSet(Alphabet) /\ \A s \in D : held[s].userinfo \in UserinfoType
  BY DEF HeldInv
<1>2. PerSource(held) = [s \in D |-> held[s].userinfo]
  BY DEF PerSource
<1> HIDE DEF D
<1>3. PerSource(held) \in [D -> UserinfoType]
  BY <1>1, <1>2
<1>. QED BY <1>1, <1>2, <1>3 DEF Partial

\* At first nothing is held, saved or shown.
LEMMA HeldInvInit == ResponseInit => HeldInv /\ PinInv
<1> SUFFICES ASSUME ResponseInit PROVE HeldInv /\ PinInv
  OBVIOUS
<1>1. DOMAIN held = {}
  BY DEF ResponseInit
<1>2. HeldInv
  BY <1>1 DEF ResponseInit, HeldInv
<1>3. first.day = -1 /\ snapshot = NoSnapshot /\ now \in Nat
  BY DEF ResponseInit, NoRequest
<1>4. LocalDate(now) \in Nat
  BY <1>3, TrafficAssumption DEF LocalDate
<1>. QED BY <1>2, <1>3, <1>4 DEF PinInv

\* A refresh adds what a userinfo header parses to, for enabled sources only.
LEMMA HeldInvNext == ConfigInv /\ HeldInv /\ [ResponseNext]_responseVars => HeldInv'
<1> SUFFICES ASSUME ConfigInv, HeldInv, [ResponseNext]_responseVars PROVE HeldInv'
  OBVIOUS
<1>1. ASSUME NEW found \in StartFiles, Start(found) PROVE HeldInv'
  BY <1>1 DEF Start, HeldInv
<1>2. ASSUME NEW replies \in ReplyMaps, Refresh(replies) PROVE HeldInv'
  <2> DEFINE fetched == {s \in Enabled : Outcome(replies[s]) = "success"}
  <2>1. /\ stage = "up" /\ Enabled \subseteq DOMAIN replies
        /\ held' = [s \in DOMAIN held \cup fetched |->
                      IF s \in fetched THEN Payload(replies[s]) ELSE held[s]]
        /\ answer' = NoAnswer /\ stage' = stage /\ now' = now
    BY <1>2 DEF Refresh
  <2>2. fetched \subseteq ToSet(Alphabet) /\ fetched \subseteq DOMAIN replies
    BY <2>1, EnabledIs
  <2>3. ASSUME NEW s \in fetched
        PROVE  Payload(replies[s]).userinfo \in {NoUserinfo} \cup UserinfoType
    <3>1. replies[s] \in ReplyType
      BY <2>2, ResponseAssumption
    <3>2. replies[s].userinfo \in Seq([key : STRING, val : CellType])
      BY <3>1 DEF ReplyType
    <3>. QED BY <3>2, UserinfoIs DEF Payload
  <2> HIDE DEF fetched
  <2>4. DOMAIN held' = DOMAIN held \cup fetched
    BY <2>1
  <2>5. \A s \in DOMAIN held' : held'[s].userinfo \in {NoUserinfo} \cup UserinfoType
    BY <2>1, <2>3 DEF HeldInv
  <2>. QED BY <2>1, <2>2, <2>4, <2>5 DEF HeldInv
<1>3. ASSUME NEW time \in Nat, Advance(time) PROVE HeldInv'
  BY <1>3 DEF Advance, HeldInv
<1>4. ASSUME NEW ua \in UserAgents, Serve(ua) PROVE HeldInv'
  <2>1. stage = "up" /\ UNCHANGED <<stage, held, now>>
    BY <1>4 DEF Serve
  <2>. QED BY <2>1 DEF HeldInv
<1>5. ASSUME UNCHANGED responseVars PROVE HeldInv'
  BY <1>5 DEF responseVars, HeldInv
<1>. QED BY <1>1, <1>2, <1>3, <1>4, <1>5 DEF ResponseNext

\* The request that finds no snapshot of the day shows the allowance.
LEMMA FirstShows ==
  ASSUME NEW per \in Partial(UserinfoType), NEW loaded, NEW n \in Nat, IsRolloverNeeded(loaded, n)
  PROVE  Shown(UserinfoHeader(Compose(per, loaded, n)))["total"] = Allowance(per, n)
<1> DEFINE a == Allowance(per, n)
           snap == Pinned(per, a, LocalDate(n))
           h == Compose(per, loaded, n)
<1>1. NewSnapshot(per, loaded, n) = snap
  BY SnapshotIs
<1>2. ComputeUsedToday(per, snap) = 0
  BY ReadingIs, UsedIs
<1>3. snap.allowanceToday = a
  BY DEF Pinned
<1>4. a \in Nat
  BY ReadingIs, AllowanceIs
<1>5. h.allowance = a /\ h.total = a + 0
  <2>1. h.allowance = snap.allowanceToday
        /\ h.total = snap.allowanceToday + ComputeUsedToday(per, snap)
    BY <1>1, ComposeIs
  <2> HIDE DEF snap, a, h
  <2>. QED BY <1>2, <1>3, <2>1
<1> HIDE DEF a, h
<1>6. Shown(UserinfoHeader(h))["total"] = IF h.total = 0 THEN h.allowance ELSE h.total
  BY HeaderIs
<1>7. Shown(UserinfoHeader(h))["total"] = a
  BY <1>4, <1>5, <1>6
<1>. QED BY <1>7 DEF a, h

\* A request that goes by a pinned snapshot shows its allowance on top of
\* what was used.
LEMMA LaterShows ==
  ASSUME NEW p \in Partial(UserinfoType), Counted(p), NEW a \in Nat, NEW day,
         NEW per \in Partial(UserinfoType), NEW loaded, NEW n,
         NewSnapshot(per, loaded, n) = Pinned(p, a, day)
  PROVE  LET header == UserinfoHeader(Compose(per, loaded, n))
             snap   == Pinned(p, a, day)
         IN  /\ Used(header) = ComputeUsedToday(per, snap)
             /\ Shown(header)["total"] = a + Used(header)
             /\ Shown(header)["upload"]
                  = SplitUsedToday(ComputeUsedToday(per, snap), per, snap).upload
<1> DEFINE snap == Pinned(p, a, day)
           h == Compose(per, loaded, n)
           used == ComputeUsedToday(per, snap)
           split == SplitUsedToday(used, per, snap)
<1>1. /\ used \in Nat /\ split.upload \in Nat /\ split.download = used - split.upload
  BY ReadingIs, SplitIs
<1>2. snap.allowanceToday = a
  BY DEF Pinned
<1>3. h.allowance = snap.allowanceToday /\ h.total = snap.allowanceToday + used /\ h.split = split
  BY ComposeIs
<1> HIDE DEF h, used, split, snap
<1>4. /\ Shown(UserinfoHeader(h))["upload"] = split.upload
      /\ Shown(UserinfoHeader(h))["download"] = split.download
      /\ Shown(UserinfoHeader(h))["total"] = IF h.total = 0 THEN h.allowance ELSE h.total
  BY <1>3, HeaderIs
<1>5. Used(UserinfoHeader(h)) = used
  BY <1>1, <1>4 DEF Used
<1>6. Shown(UserinfoHeader(h))["total"] = a + used
  BY <1>1, <1>2, <1>3, <1>4
<1>. QED BY <1>4, <1>5, <1>6 DEF h, used, split, snap

\* A request on a new day finds no snapshot of the day ...
LEMMA NewDay ==
  HeldInv /\ PinInv /\ first.day # LocalDate(now) => IsRolloverNeeded(LoadSnapshot(snapshot), now)
BY DEF PinInv, LoadSnapshot, IsRolloverNeeded

\* ... a later one the snapshot that the first one left.
LEMMA SameDay ==
  /\ HeldInv /\ PinInv /\ first.day = LocalDate(now) /\ Counted(first.perSource)
  => LET pin == Pinned(first.perSource, Shown(first.userinfo)["total"], first.day)
     IN  /\ snapshot = pin
         /\ \A per : NewSnapshot(per, LoadSnapshot(snapshot), now) = pin
<1> SUFFICES ASSUME HeldInv, PinInv, first.day = LocalDate(now), Counted(first.perSource)
             PROVE  LET pin == Pinned(first.perSource, Shown(first.userinfo)["total"], first.day)
                    IN  /\ snapshot = pin
                        /\ \A per : NewSnapshot(per, LoadSnapshot(snapshot), now) = pin
  OBVIOUS
<1> DEFINE a == Shown(first.userinfo)["total"]
           pin == Pinned(first.perSource, a, first.day)
<1>1. /\ snapshot = pin /\ a \in Nat
      /\ first.perSource \in Partial(UserinfoType) /\ first.day \in Int
  BY DEF PinInv
<1>2. pin # NoSnapshot /\ pin.localDate = first.day /\ ValidSnapshot(pin)
  <2> HIDE DEF a
  <2>. QED BY <1>1, PinnedIs
<1> HIDE DEF pin
<1>3. LoadSnapshot(snapshot) = pin
  BY <1>1, <1>2 DEF LoadSnapshot
<1>4. ~IsRolloverNeeded(pin, now)
  BY <1>2 DEF IsRolloverNeeded
<1>5. \A per : NewSnapshot(per, LoadSnapshot(snapshot), now) = pin
  BY <1>3, <1>4, SnapshotIs
<1>. QED BY <1>1, <1>5 DEF pin, a

\* What a request that passes the filter does to the snapshot and to first.
LEMMA ServeIs ==
  ASSUME NEW ua, Serve(ua)
  PROVE  LET per    == PerSource(held)
             loaded == LoadSnapshot(snapshot)
             header == UserinfoHeader(Compose(per, loaded, now))
         IN  /\ stage = "up" /\ UNCHANGED <<stage, files, config, held, now>>
             /\ \/ UNCHANGED <<snapshot, first>>
                \/ /\ snapshot' = NewSnapshot(per, loaded, now)
                   /\ first' = IF first.day = LocalDate(now) THEN first
                               ELSE [day |-> LocalDate(now), perSource |-> per,
                                     userinfo |-> header]
             /\ Answers => answer'.userinfo = header
<1> DEFINE per == PerSource(held)
           loaded == LoadSnapshot(snapshot)
           header == UserinfoHeader(Compose(per, loaded, now))
           served == IF DOMAIN per = {} THEN <<>> ELSE header
<1>1. PICK merged, hours :
        /\ stage = "up" /\ UNCHANGED <<stage, files, config, held, now>>
        /\ IF ~RequireUserAgent(config.cfg.agents, ua)
           THEN answer' = [status |-> 403] /\ UNCHANGED <<snapshot, first>>
           ELSE /\ answer' = IF config.template.kind = "mapping"
                             THEN Rendered(merged, served, hours) ELSE [status |-> 500]
                /\ snapshot' = IF DOMAIN per = {} THEN snapshot
                               ELSE NewSnapshot(per, loaded, now)
                /\ first' = IF DOMAIN per = {} \/ first.day = LocalDate(now) THEN first
                            ELSE [day |-> LocalDate(now), perSource |-> per,
                                  userinfo |-> served]
  BY Zenon DEF Serve
<1>2. Rendered(merged, served, hours).userinfo = served
  BY DEF Rendered
<1> HIDE DEF per, loaded, header
<1>3. Answers => answer'.userinfo = header
  BY <1>1, <1>2 DEF Answers
<1>4. \/ UNCHANGED <<snapshot, first>>
      \/ /\ snapshot' = NewSnapshot(per, loaded, now)
         /\ first' = IF first.day = LocalDate(now) THEN first
                     ELSE [day |-> LocalDate(now), perSource |-> per, userinfo |-> header]
  BY <1>1
<1>. QED BY <1>1, <1>3, <1>4, Zenon DEF per, loaded, header

\* Every step keeps what the first request of the day left.
LEMMA PinInvNext == HeldInv /\ PinInv /\ [ResponseNext]_responseVars => PinInv'
<1> SUFFICES ASSUME HeldInv, PinInv, [ResponseNext]_responseVars PROVE PinInv'
  OBVIOUS
<1>1. ASSUME NEW found \in StartFiles, Start(found) PROVE PinInv'
  BY <1>1 DEF Start, PinInv
<1>2. ASSUME NEW replies \in ReplyMaps, Refresh(replies) PROVE PinInv'
  BY <1>2 DEF Refresh, PinInv
<1>3. ASSUME NEW time \in Nat, Advance(time) PROVE PinInv'
  <2>1. now \in Nat /\ now' \in Nat /\ now <= now' /\ UNCHANGED <<snapshot, first>>
    BY <1>3 DEF Advance, HeldInv
  <2>2. /\ LocalDate(now) \in Nat /\ LocalDate(now') \in Nat
        /\ LocalDate(now) <= LocalDate(now')
    BY <2>1, DaysPass
  <2>3. first.day \in Int /\ first.day <= LocalDate(now)
    BY DEF PinInv
  <2>4. /\ first.day <= LocalDate(now')
        /\ first.day = LocalDate(now') => first.day = LocalDate(now)
    BY <2>2, <2>3
  <2>. QED BY <2>1, <2>3, <2>4 DEF PinInv
<1>4. ASSUME NEW ua \in UserAgents, Serve(ua) PROVE PinInv'
  <2> DEFINE per == PerSource(held)
             loaded == LoadSnapshot(snapshot)
             header == UserinfoHeader(Compose(per, loaded, now))
             today == LocalDate(now)
  <2>1. /\ now' = now
        /\ \/ UNCHANGED <<snapshot, first>>
           \/ /\ snapshot' = NewSnapshot(per, loaded, now)
              /\ first' = IF first.day = today THEN first
                          ELSE [day |-> today, perSource |-> per, userinfo |-> header]
    BY <1>4, ServeIs
  <2>2. now \in Nat /\ today \in Nat
    BY DaysPass DEF HeldInv
  <2>3. per \in Partial(UserinfoType)
    BY PerSourceIs
  <2>4. NewSnapshot(per, loaded, now).localDate = today
    <3>1. CASE IsRolloverNeeded(loaded, now)
      BY <3>1, SnapshotIs DEF Pinned
    <3>2. CASE ~IsRolloverNeeded(loaded, now)
      BY <3>2, SnapshotIs DEF IsRolloverNeeded
    <3>. QED BY <3>1, <3>2
  <2>5. CASE UNCHANGED <<snapshot, first>>
    BY <2>1, <2>5 DEF PinInv
  <2>6. CASE /\ snapshot' = NewSnapshot(per, loaded, now)
             /\ first.day = today /\ first' = first
    <3>1. Counted(first.perSource) =>
            snapshot' = Pinned(first.perSource, Shown(first.userinfo)["total"], first.day)
      BY <2>6, SameDay
    <3> HIDE DEF per, loaded
    <3>2. snapshot'.localDate = first.day
      BY <2>4, <2>6
    <3>. QED BY <2>1, <2>6, <3>1, <3>2 DEF PinInv
  <2>7. CASE /\ snapshot' = NewSnapshot(per, loaded, now) /\ first.day # today
             /\ first' = [day |-> today, perSource |-> per, userinfo |-> header]
    <3>1. IsRolloverNeeded(loaded, now)
      BY <2>7, NewDay
    <3>2. snapshot' = Pinned(per, Allowance(per, now), today)
      BY <2>7, <3>1, SnapshotIs
    <3>3. Shown(header)["total"] = Allowance(per, now)
      BY <2>2, <2>3, <3>1, FirstShows
    <3>4. Allowance(per, now) \in Nat
      BY <2>2, <2>3, ReadingIs, AllowanceIs
    <3> HIDE DEF per, loaded, header, today
    <3>5. first'.day = today /\ first'.perSource = per /\ first'.userinfo = header
      BY <2>7
    <3>6. LocalDate(now') = today
      BY <2>1 DEF today
    <3>7. snapshot'.localDate = today
      BY <2>4, <2>7
    <3>. QED BY <2>2, <2>3, <3>2, <3>3, <3>4, <3>5, <3>6, <3>7 DEF PinInv
  <2>. QED BY <2>1, <2>5, <2>6, <2>7
<1>5. ASSUME UNCHANGED responseVars PROVE PinInv'
  BY <1>5 DEF responseVars, PinInv
<1>. QED BY <1>1, <1>2, <1>3, <1>4, <1>5 DEF ResponseNext

\* The three together hold in every state.
LEMMA FiguresInv == ResponseSpec => [](ConfigInv /\ HeldInv /\ PinInv)
<1>1. ResponseInit => ConfigInv /\ HeldInv /\ PinInv
  BY ConfigInvInit, HeldInvInit
<1>2. ConfigInv /\ HeldInv /\ PinInv /\ [ResponseNext]_responseVars
      => (ConfigInv /\ HeldInv /\ PinInv)'
  BY ConfigInvNext, HeldInvNext, PinInvNext
<1>. QED BY <1>1, <1>2, PTL DEF ResponseSpec

\* Only a request gives an answer with figures.
LEMMA OnlyServeAnswers ==
  ASSUME HeldInv, ResponseNext, Answers PROVE \E ua \in UserAgents : Serve(ua)
<1>1. \A found \in StartFiles : ~Start(found)
  BY DEF Start, HeldInv, Answers, NoAnswer
<1>2. \A replies \in ReplyMaps : ~Refresh(replies)
  BY DEF Refresh, Answers, NoAnswer
<1>3. \A time \in Nat : ~Advance(time)
  BY DEF Advance, Answers, NoAnswer
<1>. QED BY <1>1, <1>2, <1>3 DEF ResponseNext

\* Whatever the sources report, the first request of a day shows an allowance
\* that lasts: of each source the most it can spend on every day that begins
\* before its expiry (ComputeDailyAllowance, CeilDiv and the integer divisions
\* included).
THEOREM AllowanceAlwaysLasts == ResponseSpec => AllowanceLasts
<1> DEFINE A == Answers /\ first.day # LocalDate(now) =>
       LET per == PerSource(held)
           left(s) == AtLeast(per[s]["total"] - Cumulative(per[s]), 0)
           days(s) == Min({k \in 1..per[s]["expire"] :
                             now + k * SecondsPerDay >= per[s]["expire"]})
           share(s) == IF NoExpiry(per[s]) THEN left(s)
                       ELSE IF per[s]["expire"] <= now THEN 0
                       ELSE Max({n \in 0..left(s) : n * days(s) <= left(s)})
       IN  Shown(answer'.userinfo)["total"] = SumFunction([s \in DOMAIN per |-> share(s)])
<1>1. HeldInv /\ PinInv /\ [ResponseNext]_responseVars => [A]_responseVars
  <2> SUFFICES ASSUME HeldInv, PinInv, ResponseNext, Answers, first.day # LocalDate(now)
               PROVE  Shown(answer'.userinfo)["total"]
                        = SumFunction([s \in DOMAIN PerSource(held) |-> Share(PerSource(held)[s], now)])
    BY Zenon DEF Share, Days
  <2> DEFINE per == PerSource(held)
             loaded == LoadSnapshot(snapshot)
  <2>1. PICK ua \in UserAgents : Serve(ua)
    BY OnlyServeAnswers
  <2>2. answer'.userinfo = UserinfoHeader(Compose(per, loaded, now))
    BY <2>1, ServeIs
  <2>3. now \in Nat /\ per \in Partial(UserinfoType) /\ IsRolloverNeeded(loaded, now)
    BY PerSourceIs, NewDay DEF HeldInv
  <2> HIDE DEF per, loaded
  <2>4. Shown(answer'.userinfo)["total"] = Allowance(per, now)
    BY <2>2, <2>3, FirstShows
  <2>5. Allowance(per, now) = SumFunction([s \in DOMAIN per |-> Share(per[s], now)])
    BY <2>3, ReadingIs, AllowanceIs
  <2>. QED BY <2>4, <2>5 DEF per
<1>2. ResponseSpec => [][ResponseNext]_responseVars
  BY PTL DEF ResponseSpec
<1>. QED BY <1>1, <1>2, FiguresInv, PTL DEF AllowanceLasts

\* The two readings of a later request: its own, and the first one's, pinned.
LEMMA LaterIs ==
  ASSUME HeldInv, PinInv, ResponseNext, LaterSameDay
  PROVE  LET p      == first.perSource
             per    == PerSource(held)
             a      == Shown(first.userinfo)["total"]
             snap   == Pinned(p, a, first.day)
             used   == ComputeUsedToday(per, snap)
         IN  /\ p \in Partial(UserinfoType) /\ per \in Partial(UserinfoType) /\ Counted(p)
             /\ a \in Nat
             /\ Used(answer'.userinfo) = used
             /\ Shown(answer'.userinfo)["total"] = a + used
             /\ Shown(answer'.userinfo)["upload"] = SplitUsedToday(used, per, snap).upload
<1> DEFINE p == first.perSource
           per == PerSource(held)
           loaded == LoadSnapshot(snapshot)
           a == Shown(first.userinfo)["total"]
           snap == Pinned(p, a, first.day)
<1>1. Answers /\ first.day = LocalDate(now) /\ Counted(p)
  BY DEF LaterSameDay
<1>2. PICK ua \in UserAgents : Serve(ua)
  BY <1>1, OnlyServeAnswers
<1>3. answer'.userinfo = UserinfoHeader(Compose(per, loaded, now))
  BY <1>1, <1>2, ServeIs
<1>4. p \in Partial(UserinfoType) /\ per \in Partial(UserinfoType) /\ a \in Nat
  BY <1>1, PerSourceIs DEF PinInv
<1>5. NewSnapshot(per, loaded, now) = snap
  BY <1>1, SameDay
<1> HIDE DEF p, per, a, loaded
<1>6. /\ Used(answer'.userinfo) = ComputeUsedToday(per, snap)
      /\ Shown(answer'.userinfo)["total"] = a + Used(answer'.userinfo)
      /\ Shown(answer'.userinfo)["upload"]
           = SplitUsedToday(ComputeUsedToday(per, snap), per, snap).upload
  BY <1>1, <1>3, <1>4, <1>5, LaterShows
<1>. QED BY <1>1, <1>4, <1>6, Zenon DEF p, per, a

\* Whatever is fetched and whatever a restart, a new day or a refused request
\* does in between, a later request of the day shows the allowance the first
\* one showed, and as used the growth of the sources both knew.
THEOREM PinAlwaysKept == ResponseSpec => LaterRequestKeepsPin
<1> DEFINE A == LaterSameDay =>
       LET used == Used(answer'.userinfo)
       IN  /\ Shown(answer'.userinfo)["total"] - used = Shown(first.userinfo)["total"]
           /\ used = SumFunction([s \in Known |-> AtLeast(Growth(s), 0)])
<1>1. HeldInv /\ PinInv /\ [ResponseNext]_responseVars => [A]_responseVars
  <2> SUFFICES ASSUME HeldInv, PinInv, ResponseNext, LaterSameDay
               PROVE  LET used == Used(answer'.userinfo)
                      IN  /\ Shown(answer'.userinfo)["total"] - used
                               = Shown(first.userinfo)["total"]
                          /\ used = SumFunction([s \in Known |-> AtLeast(Growth(s), 0)])
    BY Zenon
  <2> DEFINE p == first.perSource
             per == PerSource(held)
             a == Shown(first.userinfo)["total"]
             used == ComputeUsedToday(per, Pinned(p, a, first.day))
             both == DOMAIN p \cap DOMAIN per
             f == [s \in both |-> Grew(per, p, s)]
  <2>1. /\ p \in Partial(UserinfoType) /\ per \in Partial(UserinfoType) /\ a \in Nat
        /\ Used(answer'.userinfo) = used /\ Shown(answer'.userinfo)["total"] = a + used
    BY LaterIs
  <2>2. used \in Nat /\ used = SumFunctionOnSet(f, both)
    <3> HIDE DEF p, per, a
    <3>. QED BY <2>1, ReadingIs, UsedIs
  <2>3. f = [s \in Known |-> AtLeast(Growth(s), 0)]
    <3>1. Known = both
      BY DEF Known
    <3>2. \A s \in both : AtLeast(Growth(s), 0) = Grew(per, p, s)
      BY PerSourceIs DEF Growth, Grew
    <3>. QED BY <3>1, <3>2
  <2>4. SumFunction(f) = SumFunctionOnSet(f, both)
    <3> HIDE DEF both
    <3>. QED BY DEF SumFunction
  <2> HIDE DEF used, a, f, both
  <2>. QED BY <2>1, <2>2, <2>3, <2>4 DEF a
<1>2. ResponseSpec => [][ResponseNext]_responseVars
  BY PTL DEF ResponseSpec
<1>. QED BY <1>1, <1>2, FiguresInv, PTL DEF LaterRequestKeepsPin

\* The upload part of what a later request shows lies, to the nearest unit,
\* between the lowest and the highest upload ratio of the sources that grew,
\* though the code rounds a sum of fractions.
THEOREM SplitAlwaysProportional == ResponseSpec => SplitIsProportional
<1> DEFINE A == LaterSameDay =>
       LET used == Used(answer'.userinfo)
           u == Shown(answer'.userinfo)["upload"]
           grown == {s \in Known : Growth(s) > 0}
           sum(s) == AtLeast(Cumulative(first.perSource[s]), 1)
           part(s) == 2 * used * first.perSource[s]["upload"]
       IN  grown # {} => /\ \E s \in grown : (2 * u + 1) * sum(s) >= part(s)
                         /\ \E s \in grown : (2 * u - 1) * sum(s) <= part(s)
<1>1. HeldInv /\ PinInv /\ [ResponseNext]_responseVars => [A]_responseVars
  <2> SUFFICES ASSUME HeldInv, PinInv, ResponseNext, LaterSameDay PROVE A
    BY Zenon
  <2> DEFINE p == first.perSource
             per == PerSource(held)
             a == Shown(first.userinfo)["total"]
             snap == Pinned(p, a, first.day)
             used == ComputeUsedToday(per, snap)
             u == SplitUsedToday(used, per, snap).upload
             grown == {s \in Known : Growth(s) > 0}
  <2>1. /\ p \in Partial(UserinfoType) /\ per \in Partial(UserinfoType) /\ Counted(p)
        /\ Used(answer'.userinfo) = used /\ Shown(answer'.userinfo)["upload"] = u
    BY LaterIs
  <2>2. Grown(p, per) = grown
    <3>1. Known = DOMAIN p \cap DOMAIN per
      BY DEF Known
    <3>2. \A s \in Known : Growth(s) = Cumulative(per[s]) - Cumulative(p[s])
      BY <3>1, PerSourceIs DEF Growth
    <3>. QED BY <3>1, <3>2 DEF Grown
  <2> HIDE DEF p, per, a
  <2>3. Grown(p, per) # {} =>
          /\ \E s \in Grown(p, per) :
               (2 * u + 1) * AtLeast(Cumulative(p[s]), 1) >= 2 * used * p[s]["upload"]
          /\ \E s \in Grown(p, per) :
               (2 * u - 1) * AtLeast(Cumulative(p[s]), 1) <= 2 * used * p[s]["upload"]
    BY <2>1, ReadingIs, SplitIs
  <2> HIDE DEF used, u, grown
  <2>4. grown # {} =>
          /\ \E s \in grown :
               (2 * u + 1) * AtLeast(Cumulative(p[s]), 1) >= 2 * used * p[s]["upload"]
          /\ \E s \in grown :
               (2 * u - 1) * AtLeast(Cumulative(p[s]), 1) <= 2 * used * p[s]["upload"]
    BY <2>2, <2>3, Zenon
  <2>. QED BY <2>1, <2>4, Zenon DEF grown, p
<1>2. ResponseSpec => [][ResponseNext]_responseVars
  BY PTL DEF ResponseSpec
<1>. QED BY <1>1, <1>2, FiguresInv, PTL DEF SplitIsProportional
=============================================================================
