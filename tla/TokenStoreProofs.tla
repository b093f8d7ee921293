-------------------------- MODULE TokenStoreProofs --------------------------
(***************************************************************************)
(* Proofs about TokenStore, for any number of versions, tokens and edits:  *)
(* the store is always one accepted version of the file, and a revocation  *)
(* is final when a reload takes less time than the debounce.               *)
(***************************************************************************)
EXTENDS TokenStore, SequenceTheorems, FiniteSetTheorems, TLAPS

\* At most one timer runs; a file that is being rewritten will become one more
\* version; every other content, and what a reload has read, has been written
\* by the operator; nothing is watched before Watch.
VersionInv ==
  /\ file \in Versions \cup {Torn} /\ latest \in Versions
  /\ phase \in {"off", "loaded", "watching", "stopped", "fatal"}
  /\ store \in Versions \cup {Empty}
  /\ events \in Seq({"path", "other"})
  /\ timers = {} \/ \E d \in 0..Debounce : timers = {d}
  /\ loads \subseteq Load
  /\ lapsed \in BOOLEAN
  /\ file \in {latest, Torn}
  /\ file = Torn => latest < MaxVersion
  /\ \A l \in loads : l.seen \in (1..latest) \cup {Torn, Unread}
  /\ StoreIsAVersion
  /\ phase \in {"off", "loaded", "fatal"} => events = <<>> /\ timers = {} /\ loads = {}
  /\ phase = "off" => store = Empty

\* Notify appends an event to a queue.
LEMMA NotifyType ==
  ASSUME NEW name \in {"path", "other"}, events \in Seq({"path", "other"}), Notify(name)
  PROVE  events' \in Seq({"path", "other"})
  BY AppendProperties DEF Notify

\* A token of the operator's file, an event, a timer or a reload: every step
\* keeps the store one accepted version.
LEMMA VersionStep == VersionInv /\ [Next]_vars => VersionInv'
  <1> SUFFICES ASSUME VersionInv, [Next]_vars PROVE VersionInv'
    OBVIOUS
  <1> USE TokenStoreAssumption
      DEF VersionInv, StoreIsAVersion, Versions, Torn, Unread, Empty, Load
  <1>1. CASE Rename
    BY <1>1, NotifyType DEF Rename, Write, Notify
  <1>2. CASE Truncate
    BY <1>2, NotifyType DEF Truncate, Write, Notify
  <1>3. CASE Rewrite
    BY <1>3, NotifyType DEF Rewrite, Write, Notify
  <1>4. CASE Swap
    BY <1>4, NotifyType DEF Swap, Write, Notify
  <1>5. CASE Lapse
    BY <1>5 DEF Lapse
  <1>6. CASE FirstLoad
    BY <1>6 DEF FirstLoad, Acceptable
  <1>7. CASE Watch
    BY <1>7 DEF Watch
  <1>8. CASE HandleEvent
    <2>1. Tail(events) \in Seq({"path", "other"})
      BY <1>8, HeadTailProperties DEF HandleEvent
    <2> QED BY <1>8, <2>1 DEF HandleEvent, TriggerReload
  <1>9. CASE Fire
    BY <1>9 DEF Fire
  <1>10. ASSUME NEW l \in loads, ReadFile(l) PROVE VersionInv'
    <2>1. [l EXCEPT !.seen = file] \in Load /\ [l EXCEPT !.seen = file].seen = file
      OBVIOUS
    <2>2. file \in (1..latest) \cup {Torn, Unread}
      OBVIOUS
    <2>3. loads # {} /\ loads' = (loads \ {l}) \cup {[l EXCEPT !.seen = file]}
      BY <1>10 DEF ReadFile
    <2>4. /\ loads' \subseteq Load
          /\ \A m \in loads' : m.seen \in (1..latest) \cup {Torn, Unread}
      BY <2>1, <2>2, <2>3
    <2> QED BY <1>10, <2>3, <2>4 DEF ReadFile
  <1>11. ASSUME NEW l \in loads, Install(l) PROVE VersionInv'
    BY <1>11 DEF Install, Acceptable
  <1>12. CASE StopWatch
    BY <1>12 DEF StopWatch
  <1>13. CASE Advance
    <2>1. ASSUME NEW m \in loads'
          PROVE  m \in Load /\ m.seen \in (1..latest) \cup {Torn, Unread}
      <3>1. PICK l \in loads : m = [l EXCEPT !.age = l.age + 1]
        BY <1>13 DEF Advance
      <3>2. l.age < LoadTime /\ l \in Load
        BY <1>13 DEF Advance
      <3>3. m.seen = l.seen /\ m.age = l.age + 1
        BY <3>1, <3>2
      <3> QED BY <3>1, <3>2, <3>3
    <2>2. timers' = {} \/ \E d \in 0..Debounce : timers' = {d}
      <3>1. CASE timers = {}
        BY <1>13, <3>1 DEF Advance
      <3>2. ASSUME NEW d \in 0..Debounce, timers = {d}
            PROVE  \E e \in 0..Debounce : timers' = {e}
        <4>1. timers' = {IF d > 0 THEN d - 1 ELSE 0}
          BY <1>13, <3>2 DEF Advance
        <4>2. (IF d > 0 THEN d - 1 ELSE 0) \in 0..Debounce
          OBVIOUS
        <4> QED BY <4>1, <4>2, Zenon
      <3> QED BY <3>1, <3>2
    <2>3. loads = {} => loads' = {}
      BY <1>13 DEF Advance
    <2>4. timers = {} => timers' = {}
      BY <1>13 DEF Advance
    <2> QED BY <1>13, <2>1, <2>2, <2>3, <2>4 DEF Advance
  <1>14. CASE UNCHANGED vars
    BY <1>14 DEF vars
  <1> QED BY <1>1, <1>2, <1>3, <1>4, <1>5, <1>6, <1>7, <1>8, <1>9, <1>10, <1>11,
             <1>12, <1>13, <1>14 DEF Next, Server

\* VersionInv as an invariant of the specification.
LEMMA VersionInvariant == Spec => []VersionInv
  <1>1. Init => VersionInv
    <2> SUFFICES ASSUME Init PROVE VersionInv
      OBVIOUS
    <2>1. events \in Seq({"path", "other"})
      BY EmptySeq DEF Init
    <2>2. /\ file \in Versions /\ latest \in Versions /\ store \in Versions \cup {Empty}
          /\ file = latest /\ file # Torn
      BY TokenStoreAssumption DEF Init, Versions, Torn, Empty
    <2>3. StoreIsAVersion
      BY DEF Init, StoreIsAVersion
    <2> QED BY <2>1, <2>2, <2>3 DEF Init, VersionInv
  <1> QED BY <1>1, VersionStep, PTL DEF Spec

\* The types, at most one debounce timer among them.
THEOREM TokenTypeCorrect == Spec => []TypeOK
  <1>1. VersionInv => TypeOK
    <2> SUFFICES ASSUME VersionInv PROVE TypeOK
      OBVIOUS
    <2>1. Cardinality(timers) <= 1
      <3>1. Cardinality(timers) \in {0, 1}
        BY FS_EmptySet, FS_Singleton, Zenon DEF VersionInv
      <3> QED BY <3>1
    <2>2. timers \subseteq 0..Debounce
      BY DEF VersionInv
    <2> QED BY <2>1, <2>2 DEF VersionInv, TypeOK
  <1> QED BY <1>1, VersionInvariant, PTL

\* Load and FR-017: whatever a reload finds in a file that is being rewritten,
\* the store is one version as a whole that Load accepted.
THEOREM StoreVersioned == Spec => []StoreIsAVersion
  <1>1. VersionInv => StoreIsAVersion
    BY DEF VersionInv
  <1> QED BY <1>1, VersionInvariant, PTL
-----------------------------------------------------------------------------
\* Reloads come in the order of their timers: what is left of the running
\* timer and the age of a reload add up to the debounce, so no reload is under
\* way when a timer expires, and the one under way has not read anything older
\* than the store.
OrderInv ==
  /\ \A l \in loads, d \in timers : d + l.age >= Debounce
  /\ \A l, m \in loads : l = m
  /\ \A l \in loads : l.seen \in Versions => store <= l.seen

\* A reload that is shorter than the debounce keeps that order.
LEMMA OrderStep ==
  ASSUME LoadTime < Debounce
  PROVE  VersionInv /\ OrderInv /\ [Next]_vars => OrderInv'
  <1> SUFFICES ASSUME VersionInv, OrderInv, [Next]_vars PROVE OrderInv'
    OBVIOUS
  <1> USE TokenStoreAssumption
      DEF VersionInv, OrderInv, StoreIsAVersion, Versions, Torn, Unread, Empty, Load
  <1>1. CASE Rename \/ Truncate \/ Rewrite \/ Swap \/ Lapse
    BY <1>1 DEF Rename, Truncate, Rewrite, Swap, Lapse, Write
  <1>2. CASE FirstLoad \/ Watch
    BY <1>2 DEF FirstLoad, Watch
  <1>3. CASE HandleEvent
    BY <1>3 DEF HandleEvent, TriggerReload
  <1>4. CASE Fire
    <2>1. loads = {}
      BY <1>4 DEF Fire
    <2> QED BY <1>4, <2>1 DEF Fire
  <1>5. ASSUME NEW l \in loads, ReadFile(l) PROVE OrderInv'
    <2>1. loads' = {[l EXCEPT !.seen = file]}
      BY <1>5 DEF ReadFile
    <2>2. store <= latest
      <3>1. phase \in {"watching", "stopped"}
        OBVIOUS
      <3> QED BY <3>1
    <2>3. [l EXCEPT !.seen = file].seen = file /\ [l EXCEPT !.seen = file].age = l.age
      OBVIOUS
    <2>4. timers' = timers /\ store' = store /\ file \in {latest, Torn}
      BY <1>5 DEF ReadFile
    <2>5. \A m \in loads' : m.seen = file /\ m.age = l.age
      BY <2>1, <2>3
    <2> QED BY <2>1, <2>2, <2>4, <2>5
  <1>6. ASSUME NEW l \in loads, Install(l) PROVE OrderInv'
    <2>1. loads' = {}
      BY <1>6 DEF Install
    <2> QED BY <2>1
  <1>7. CASE StopWatch
    BY <1>7 DEF StopWatch
  <1>8. CASE Advance
    <2>1. ASSUME NEW m \in loads', NEW e \in timers' PROVE e + m.age >= Debounce
      <3>1. PICK l \in loads : m = [l EXCEPT !.age = l.age + 1]
        BY <1>8, <2>1 DEF Advance
      <3>2. PICK d \in timers : e = IF d > 0 THEN d - 1 ELSE 0
        BY <1>8, <2>1 DEF Advance
      <3>3. d + l.age >= Debounce /\ l.age < LoadTime
        BY <1>8 DEF Advance
      <3> QED BY <3>1, <3>2, <3>3
    <2>2. \A l, m \in loads' : l = m
      BY <1>8 DEF Advance
    <2>3. \A m \in loads' : m.seen \in Versions => store <= m.seen
      BY <1>8 DEF Advance
    <2> QED BY <1>8, <2>1, <2>2, <2>3 DEF Advance
  <1>9. CASE UNCHANGED vars
    BY <1>9 DEF vars
  <1> QED BY <1>1, <1>2, <1>3, <1>4, <1>5, <1>6, <1>7, <1>8, <1>9 DEF Next, Server

\* The store changes only at FirstLoad, from empty, and at Install, to a
\* version that is not older.
LEMMA StoreGrows ==
  ASSUME VersionInv, OrderInv, [Next]_vars, store # Empty
  PROVE  store' \in store..MaxVersion
  <1> USE TokenStoreAssumption DEF VersionInv, OrderInv, Versions, Empty
  <1>1. store \in store..MaxVersion
    OBVIOUS
  <1>2. CASE FirstLoad
    BY <1>2 DEF FirstLoad
  <1>3. ASSUME NEW l \in loads, Install(l) PROVE store' \in store..MaxVersion
    BY <1>1, <1>3 DEF Install, Acceptable
  <1>4. CASE store' = store
    BY <1>1, <1>4
  <1> QED BY <1>2, <1>3, <1>4
          DEF Next, Server, Rename, Truncate, Rewrite, Swap, Write, Lapse, Watch,
              HandleEvent, Fire, ReadFile, StopWatch, Advance, vars

\* RequireToken and FR-019a: when a reload takes less time than the debounce,
\* no reload brings a revoked or an expired token back.
THEOREM RevocationFinal ==
  ASSUME LoadTime < Debounce
  PROVE  Spec => RevocationIsFinal
  <1> DEFINE Dead(t, v) == \/ Records[v][t] \in {"absent", "revoked"}
                           \/ Records[v][t] = "lapsing" /\ lapsed
             Final == \A t \in Tokens :
                        /\ store # Empty /\ RequireToken(t) = "401"
                        /\ \A v \in store..MaxVersion : Dead(t, v)
                        => RequireToken(t)' = "401"
  <1>1. Init => OrderInv
    BY DEF Init, OrderInv
  <1>2. ASSUME VersionInv, OrderInv, [Next]_vars PROVE Final
    <2> SUFFICES ASSUME NEW t \in Tokens, store # Empty,
                        \A v \in store..MaxVersion : Dead(t, v)
                 PROVE  RequireToken(t)' = "401"
      OBVIOUS
    <2>1. Dead(t, store')
      BY <1>2, StoreGrows
    <2>2. lapsed => lapsed'
      BY <1>2 DEF Next, Server, Rename, Truncate, Rewrite, Swap, Write, Lapse, FirstLoad,
              Watch, HandleEvent, Fire, ReadFile, Install, StopWatch, Advance, vars
    <2>3. ~Lookup(t)'
      BY <2>1, <2>2 DEF Lookup
    <2> QED BY <2>3 DEF RequireToken
  <1>3. Final <=> \A t \in Tokens :
       /\ store # Empty /\ RequireToken(t) = "401"
       /\ \A v \in store..MaxVersion :
            Records[v][t] \in {"absent", "revoked"} \/ (Records[v][t] = "lapsing" /\ lapsed)
       => RequireToken(t)' = "401"
    OBVIOUS
  <1> QED BY <1>1, <1>2, <1>3, OrderStep, VersionInvariant, PTL DEF Spec, RevocationIsFinal
=============================================================================
