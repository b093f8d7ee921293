---------------------------- MODULE ConfigProofs ----------------------------
(***************************************************************************)
(* What the loaders of start-up (Config) accept, and what a userinfo       *)
(* header (Upstream) parses to, whatever the files and the header contain; *)
(* before that, what flattening, filtering and sorting do (Lists).         *)
(***************************************************************************)
EXTENDS Config, OperatorProofs

-----------------------------------------------------------------------------
(* Sequences: FlattenSeq of the community modules, and Lists. *)

\* g[i] is the first i sequences of ss, one after the other.
FlatUpTo(ss, n, g) ==
  g = [i \in 1..n |-> IF i = 1 THEN ss[i] ELSE g[i - 1] \o ss[i]]

\* F is the first n sequences of ss one after the other: element k of F is
\* element b[k] of sequence a[k], in the order of the pairs, and none is left out.
Lays(ss, n, F, a, b) ==
  /\ a \in [DOMAIN F -> 1..n] /\ b \in [DOMAIN F -> Nat]
  /\ \A k \in DOMAIN F : b[k] \in DOMAIN ss[a[k]] /\ F[k] = ss[a[k]][b[k]]
  /\ \A k, l \in DOMAIN F : k < l => a[k] < a[l] \/ (a[k] = a[l] /\ b[k] < b[l])
  /\ \A i \in 1..n : \A j \in DOMAIN ss[i] : \E k \in DOMAIN F : a[k] = i /\ b[k] = j

\* The recursive function that FlattenSeq chooses exists ...
LEMMA FlatExists ==
  ASSUME NEW ss, NEW N \in Nat
  PROVE  \E g : FlatUpTo(ss, N, g)
<1> DEFINE U == {n \in Nat : \E g : FlatUpTo(ss, n, g)}
<1>1. 0 \in U
  <2>1. FlatUpTo(ss, 0, [i \in 1..0 |-> 0])
    BY DEF FlatUpTo
  <2>. QED BY <2>1
<1>2. ASSUME NEW n \in Nat, n \in U PROVE n + 1 \in U
  <2>1. PICK g : FlatUpTo(ss, n, g)
    BY <1>2
  <2> DEFINE h == [i \in 1..(n + 1) |-> IF i <= n THEN g[i]
                                       ELSE IF i = 1 THEN ss[i] ELSE g[i - 1] \o ss[i]]
  <2>2. ASSUME NEW i \in 1..(n + 1)
        PROVE  h[i] = IF i = 1 THEN ss[i] ELSE h[i - 1] \o ss[i]
    <3>1. i # 1 => i - 1 \in 1..n /\ h[i - 1] = g[i - 1]
      OBVIOUS
    <3>2. i \in 1..n => g[i] = IF i = 1 THEN ss[i] ELSE g[i - 1] \o ss[i]
      BY <2>1, Zenon DEF FlatUpTo
    <3>3. i \in 1..n \/ ~(i <= n)
      OBVIOUS
    <3>. QED BY <3>1, <3>2, <3>3
  <2>3. h = [i \in 1..(n + 1) |-> h[i]]
    OBVIOUS
  <2> HIDE DEF h
  <2>4. FlatUpTo(ss, n + 1, h)
    BY <2>2, <2>3, Zenon DEF FlatUpTo
  <2>. QED BY <2>4
<1>3. Nat \subseteq U
  <2> HIDE DEF U
  <2>. QED BY <1>1, <1>2, NatInduct
<1>. QED BY <1>3

\* One sequence more.
LEMMA LaysMore ==
  ASSUME NEW T, NEW ss, NEW n \in Nat, ss[n + 1] \in Seq(T),
         NEW F \in Seq(T), NEW a, NEW b, Lays(ss, n, F, a, b)
  PROVE  F \o ss[n + 1] \in Seq(T) /\ \E c, d : Lays(ss, n + 1, F \o ss[n + 1], c, d)
<1> DEFINE s == ss[n + 1]
           G == F \o s
           c == [k \in DOMAIN G |-> IF k <= Len(F) THEN a[k] ELSE n + 1]
           d == [k \in DOMAIN G |-> IF k <= Len(F) THEN b[k] ELSE k - Len(F)]
<1>1. /\ G \in Seq(T) /\ Len(G) = Len(F) + Len(s) /\ DOMAIN G = 1..Len(G)
      /\ DOMAIN F = 1..Len(F) /\ DOMAIN s = 1..Len(s) /\ Len(F) \in Nat /\ Len(s) \in Nat
  OBVIOUS
<1>2. \A k \in DOMAIN G : k <= Len(F) => k \in DOMAIN F /\ G[k] = F[k]
  OBVIOUS
<1>3. \A k \in DOMAIN G : ~(k <= Len(F)) => k - Len(F) \in DOMAIN s /\ G[k] = s[k - Len(F)]
  OBVIOUS
<1>4. \A k \in DOMAIN F : a[k] \in 1..n /\ b[k] \in Nat
  BY DEF Lays
<1> HIDE DEF G, s
<1>5. c \in [DOMAIN G -> 1..(n + 1)] /\ d \in [DOMAIN G -> Nat]
  BY <1>1, <1>2, <1>3, <1>4
<1>6. ASSUME NEW k \in DOMAIN G
      PROVE  d[k] \in DOMAIN ss[c[k]] /\ G[k] = ss[c[k]][d[k]]
  <2>1. CASE k <= Len(F)
    BY <2>1, <1>2 DEF Lays
  <2>2. CASE ~(k <= Len(F))
    BY <2>2, <1>3 DEF s
  <2>. QED BY <2>1, <2>2
<1>7. ASSUME NEW k \in DOMAIN G, NEW l \in DOMAIN G, k < l
      PROVE  c[k] < c[l] \/ (c[k] = c[l] /\ d[k] < d[l])
  <2>1. CASE l <= Len(F)
    <3>1. k <= Len(F) BY <2>1, <1>7, <1>1
    <3>. QED BY <2>1, <3>1, <1>2, <1>7 DEF Lays
  <2>2. CASE ~(l <= Len(F)) /\ k <= Len(F)
    BY <2>2, <1>2, <1>4
  <2>3. CASE ~(l <= Len(F)) /\ ~(k <= Len(F))
    BY <2>3, <1>1, <1>7
  <2>. QED BY <2>1, <2>2, <2>3
<1>8. ASSUME NEW i \in 1..(n + 1), NEW j \in DOMAIN ss[i]
      PROVE  \E k \in DOMAIN G : c[k] = i /\ d[k] = j
  <2>1. CASE i \in 1..n
    <3>1. PICK k \in DOMAIN F : a[k] = i /\ b[k] = j
      BY <2>1, <1>8 DEF Lays
    <3>2. k \in DOMAIN G /\ k <= Len(F)
      BY <1>1
    <3>. QED BY <3>1, <3>2
  <2>2. CASE i = n + 1
    <3>1. j \in 1..Len(s) BY <2>2, <1>1, <1>8 DEF s
    <3>2. Len(F) + j \in DOMAIN G /\ ~(Len(F) + j <= Len(F)) /\ Len(F) + j - Len(F) = j
      BY <3>1, <1>1
    <3>. QED BY <3>2, <2>2
  <2>. QED BY <2>1, <2>2
<1>9. Lays(ss, n + 1, G, c, d)
  <2> HIDE DEF c, d
  <2>. QED BY <1>5, <1>6, <1>7, <1>8 DEF Lays
<1>. QED
  <2> HIDE DEF c, d
  <2>. QED BY <1>1, <1>9 DEF G, s

\* ... and so FlattenSeq lays the sequences out one after the other.
LEMMA FlattenLays ==
  ASSUME NEW T, NEW ss \in Seq(Seq(T))
  PROVE  FlattenSeq(ss) \in Seq(T) /\ \E a, b : Lays(ss, Len(ss), FlattenSeq(ss), a, b)
<1> DEFINE g == CHOOSE g : FlatUpTo(ss, Len(ss), g)
           U == {n \in Nat : n \in 1..Len(ss) =>
                   g[n] \in Seq(T) /\ \E a, b : Lays(ss, n, g[n], a, b)}
<1>0. Len(ss) \in Nat /\ DOMAIN ss = 1..Len(ss) /\ \A i \in 1..Len(ss) : ss[i] \in Seq(T)
  OBVIOUS
<1>1. CASE Len(ss) = 0
  <2>1. FlattenSeq(ss) = ss /\ ss = << >>
    BY <1>1, EmptySeq DEF FlattenSeq
  <2>2. Lays(ss, 0, ss, ss, ss)
    BY <2>1 DEF Lays
  <2>. QED BY <1>1, <2>1, <2>2
<1>2. CASE Len(ss) # 0
  <2>1. FlattenSeq(ss) = g[Len(ss)]
    BY <1>2 DEF FlattenSeq, FlatUpTo
  <2>2. FlatUpTo(ss, Len(ss), g)
    BY <1>0, FlatExists
  <2> HIDE DEF g
  <2>7. \A i \in 1..Len(ss) : g[i] = IF i = 1 THEN ss[i] ELSE g[i - 1] \o ss[i]
    BY <2>2, Zenon DEF FlatUpTo
  <2>3. 0 \in U
    OBVIOUS
  <2>4. ASSUME NEW n \in Nat, n \in U PROVE n + 1 \in U
    <3>1. SUFFICES ASSUME n + 1 \in 1..Len(ss)
                   PROVE  g[n + 1] \in Seq(T) /\ \E a, b : Lays(ss, n + 1, g[n + 1], a, b)
      OBVIOUS
    <3>2. CASE n = 0
      <4>1. g[1] = ss[1] /\ ss[1] \in Seq(T)
        BY <2>2, <3>1, <3>2, <1>0 DEF FlatUpTo
      <4>2. Lays(ss, 0, << >>, << >>, << >>)
        BY DEF Lays
      <4>3. << >> \in Seq(T) /\ << >> \o ss[1] = ss[1]
        BY <4>1
      <4>4. ss[0 + 1] \in Seq(T) /\ ss[0 + 1] = ss[1]
        BY <4>1
      <4>5. << >> \o ss[0 + 1] \in Seq(T) /\ \E c, d : Lays(ss, 0 + 1, << >> \o ss[0 + 1], c, d)
        BY <4>2, <4>3, <4>4, LaysMore, Zenon
      <4>. QED BY <3>2, <4>1, <4>3, <4>4, <4>5
    <3>3. CASE n # 0
      <4>1. n \in 1..Len(ss) /\ n + 1 # 1 /\ n + 1 - 1 = n
        BY <3>1, <3>3, <1>0
      <4>5. g[n + 1] = IF n + 1 = 1 THEN ss[n + 1] ELSE g[n + 1 - 1] \o ss[n + 1]
        BY <2>7, <3>1
      <4>2. g[n + 1] = g[n] \o ss[n + 1]
        BY <4>1, <4>5, Zenon
      <4>3. PICK a, b : Lays(ss, n, g[n], a, b)
        BY <2>4, <4>1
      <4>4. g[n] \in Seq(T) /\ ss[n + 1] \in Seq(T)
        BY <2>4, <3>1, <4>1, <1>0
      <4>. QED BY <4>2, <4>3, <4>4, LaysMore
    <3>. QED BY <3>2, <3>3
  <2>5. Nat \subseteq U
    <3> HIDE DEF U
    <3>. QED BY <2>3, <2>4, NatInduct, Zenon
  <2>6. Len(ss) \in 1..Len(ss)
    BY <1>0, <1>2
  <2>. QED BY <2>1, <2>5, <2>6, <1>0
<1>. QED BY <1>1, <1>2

\* KeepAt takes the elements at I, in their order, each once.
LEMMA KeepAtIs ==
  ASSUME NEW T, NEW s \in Seq(T), NEW I \in SUBSET DOMAIN s
  PROVE  /\ KeepAt(s, I) \in Seq(T)
         /\ \E e \in [DOMAIN KeepAt(s, I) -> I] :
              /\ \A k \in DOMAIN KeepAt(s, I) : KeepAt(s, I)[k] = s[e[k]]
              /\ \A k, l \in DOMAIN KeepAt(s, I) : k < l => e[k] < e[l]
              /\ \A i \in I : \E k \in DOMAIN KeepAt(s, I) : e[k] = i
<1> DEFINE ss == [i \in DOMAIN s |-> IF i \in I THEN <<s[i]>> ELSE << >>]
           F == KeepAt(s, I)
<1>1. ss \in Seq(Seq(T)) /\ Len(ss) = Len(s) /\ DOMAIN s = 1..Len(s) /\ DOMAIN ss = 1..Len(s)
  <2>1. \A i \in 1..Len(s) : s[i] \in T /\ <<s[i]>> \in Seq(T) /\ << >> \in Seq(T)
    OBVIOUS
  <2>2. DOMAIN s = 1..Len(s) /\ Len(s) \in Nat
    OBVIOUS
  <2>3. \A i \in 1..Len(s) : ss[i] \in Seq(T)
    BY <2>1, <2>2
  <2>. QED BY <2>2, <2>3
<1>2. F = FlattenSeq(ss)
  BY DEF KeepAt
<1>3. \A i \in DOMAIN s : \A j \in DOMAIN ss[i] : i \in I /\ j = 1 /\ ss[i][j] = s[i]
  OBVIOUS
<1>4. \A i \in I : 1 \in DOMAIN ss[i]
  OBVIOUS
<1> HIDE DEF ss, F
<1>5. F \in Seq(T)
  BY <1>1, <1>2, FlattenLays
<1>6. PICK a, b : Lays(ss, Len(ss), F, a, b)
  BY <1>1, <1>2, FlattenLays
<1>7. \A k \in DOMAIN F : a[k] \in DOMAIN s /\ b[k] \in DOMAIN ss[a[k]] /\ F[k] = ss[a[k]][b[k]]
  BY <1>1, <1>6 DEF Lays
<1>8. \A k \in DOMAIN F : a[k] \in I /\ b[k] = 1 /\ F[k] = s[a[k]]
  BY <1>3, <1>7
<1>9. a \in [DOMAIN F -> I]
  BY <1>6, <1>8 DEF Lays
<1>10. \A k, l \in DOMAIN F : k < l => a[k] < a[l]
  BY <1>6, <1>8 DEF Lays
<1>11. \A i \in I : \E k \in DOMAIN F : a[k] = i
  BY <1>1, <1>4, <1>6 DEF Lays
<1>. QED BY <1>5, <1>8, <1>9, <1>10, <1>11 DEF F

\* A sequence without repetitions has as many elements as its range.
LEMMA InjectiveLength ==
  ASSUME NEW n \in Nat, NEW f, NEW S, f \in [1..n -> S],
         \A k, l \in 1..n : f[k] = f[l] => k = l,
         \A x \in S : \E k \in 1..n : f[k] = x
  PROVE  Cardinality(S) = n /\ IsFiniteSet(S)
<1>1. f \in Bijection(1..n, S)
  BY DEF Bijection, Injection, Surjection, IsInjective
<1>2. ExistsBijection(1..n, S)
  BY <1>1 DEF ExistsBijection
<1>3. IsFiniteSet(1..n)
  BY FS_Interval
<1>. QED BY <1>2, <1>3, FS_CountingElements, FS_Bijection

\* It takes as many as there are positions.
LEMMA KeepAtLength ==
  ASSUME NEW T, NEW s \in Seq(T), NEW I \in SUBSET DOMAIN s
  PROVE  Len(KeepAt(s, I)) = Cardinality(I) /\ IsFiniteSet(I)
<1> DEFINE F == KeepAt(s, I)
<1>1. F \in Seq(T) /\ DOMAIN F = 1..Len(F) /\ Len(F) \in Nat
  BY KeepAtIs
<1>2. PICK e \in [DOMAIN F -> I] :
        /\ \A k, l \in DOMAIN F : k < l => e[k] < e[l]
        /\ \A i \in I : \E k \in DOMAIN F : e[k] = i
  BY KeepAtIs
<1> HIDE DEF F
<1>3. I \in SUBSET Nat
  OBVIOUS
<1>4. e \in [1..Len(F) -> I] /\ \A i \in I : \E k \in 1..Len(F) : e[k] = i
  BY <1>1, <1>2
<1>5. ASSUME NEW k \in 1..Len(F), NEW l \in 1..Len(F), e[k] = e[l] PROVE k = l
  <2>1. e[k] \in Nat /\ e[l] \in Nat
    BY <1>3, <1>4
  <2>2. k < l => e[k] < e[l]
    BY <1>1, <1>2
  <2>3. l < k => e[l] < e[k]
    BY <1>1, <1>2
  <2>. QED BY <1>5, <2>1, <2>2, <2>3
<1>6. \A k, l \in 1..Len(F) : e[k] = e[l] => k = l
  BY <1>5
<1>7. Cardinality(I) = Len(F) /\ IsFiniteSet(I)
  BY <1>1, <1>4, <1>6, InjectiveLength, Zenon
<1>. QED BY <1>7 DEF F

\* Of a strict total order, given by the set before[i] of what precedes i,
\* RankedBy lists every element once and in that order.
LEMMA RankedIs ==
  ASSUME NEW I, IsFiniteSet(I), NEW before \in [I -> SUBSET I],
         \A i \in I : i \notin before[i],
         \A i \in I : \A j \in before[i] : before[j] \subseteq before[i],
         \A i, j \in I : i # j => i \in before[j] \/ j \in before[i]
  PROVE  /\ RankedBy(before) \in [1..Cardinality(I) -> I]
         /\ \A k, l \in 1..Cardinality(I) :
              k < l => RankedBy(before)[k] \in before[RankedBy(before)[l]]
         /\ \A i \in I : \E k \in 1..Cardinality(I) : RankedBy(before)[k] = i
<1> DEFINE R == RankedBy(before)
           n == Cardinality(I)
           rank == [i \in I |-> Cardinality(before[i]) + 1]
<1>1. n \in Nat /\ \A i \in I : IsFiniteSet(before[i]) /\ Cardinality(before[i]) \in Nat
  BY FS_Subset, FS_CardinalityType
<1>2. ASSUME NEW A \in SUBSET I, NEW i \in I \ A
      PROVE  /\ IsFiniteSet(A) /\ Cardinality(A \cup {i}) = Cardinality(A) + 1
             /\ Cardinality(A) + 1 <= n
  <2>1. IsFiniteSet(A) /\ Cardinality(A) \in Nat
    BY FS_Subset, FS_CardinalityType
  <2>2. Cardinality(A \cup {i}) = Cardinality(A) + 1
    BY <2>1, FS_AddElement, Zenon
  <2>3. Cardinality(A \cup {i}) <= n
    BY FS_Subset, A \cup {i} \in SUBSET I
  <2>. QED BY <2>1, <2>2, <2>3
<1>3. rank \in [I -> 1..n]
  <2>1. ASSUME NEW i \in I PROVE Cardinality(before[i]) + 1 \in 1..n
    <3>1. before[i] \in SUBSET I /\ i \in I \ before[i] /\ Cardinality(before[i]) \in Nat
      BY <1>1
    <3>2. Cardinality(before[i]) + 1 <= n
      BY <1>2, <3>1, Zenon
    <3>. QED BY <1>1, <3>1, <3>2
  <2>. QED BY <2>1
<1>4. ASSUME NEW i \in I, NEW j \in before[i] PROVE rank[j] < rank[i]
  <2>1. j \in I /\ j \notin before[j] /\ before[j] \cup {j} \in SUBSET before[i]
    OBVIOUS
  <2>2. Cardinality(before[j] \cup {j}) = Cardinality(before[j]) + 1
    BY <2>1, <1>2
  <2>3. Cardinality(before[j] \cup {j}) <= Cardinality(before[i])
    BY <1>1, <2>1, FS_Subset
  <2>. QED BY <1>1, <2>1, <2>2, <2>3
<1> HIDE DEF rank
<1>9. \A i \in I : rank[i] \in Nat
  BY <1>1, <1>3
<1>5. rank \in Injection(I, 1..n)
  <2>1. ASSUME NEW i \in I, NEW j \in I, rank[i] = rank[j] PROVE i = j
    BY <1>4, <1>9, <2>1
  <2>. QED BY <1>3, <2>1 DEF Injection, IsInjective
<1>6. rank \in Surjection(I, 1..n)
  <2>1. IsFiniteSet(1..n) /\ Cardinality(1..n) = n
    BY <1>1, FS_Interval
  <2>. QED BY <1>5, <2>1, FS_Injection
<1>7. ASSUME NEW k \in 1..n PROVE R[k] \in I /\ rank[R[k]] = k
  <2>1. \E i \in I : rank[i] = k
    BY <1>6 DEF Surjection
  <2>2. \E i \in I : Cardinality(before[i]) = k - 1
    BY <1>1, <2>1 DEF rank
  <2>3. R[k] = CHOOSE i \in I : Cardinality(before[i]) = k - 1
    BY DEF RankedBy
  <2>4. R[k] \in I /\ Cardinality(before[R[k]]) = k - 1
    BY <2>2, <2>3
  <2>. QED BY <1>1, <2>4 DEF rank
<1>8. R = [k \in 1..n |-> R[k]]
  BY DEF RankedBy
<1> HIDE DEF R
<1>10. R \in [1..n -> I]
  BY <1>7, <1>8
<1>11. ASSUME NEW k \in 1..n, NEW l \in 1..n, k < l PROVE R[k] \in before[R[l]]
  <2>1. R[k] \in I /\ R[l] \in I /\ rank[R[k]] = k /\ rank[R[l]] = l
    BY <1>7
  <2>2. R[k] # R[l]
    BY <2>1, <1>11
  <2>3. R[l] \notin before[R[k]]
    BY <2>1, <1>4, <1>11
  <2>. QED BY <2>1, <2>2, <2>3
<1>12. ASSUME NEW i \in I PROVE \E k \in 1..n : R[k] = i
  <2>1. rank[i] \in 1..n
    BY <1>3
  <2>2. R[rank[i]] \in I /\ rank[R[rank[i]]] = rank[i]
    BY <2>1, <1>7
  <2>3. R[rank[i]] = i
    BY <2>2, <1>5 DEF Injection, IsInjective
  <2>. QED BY <2>1, <2>3
<1>. QED BY <1>10, <1>11, <1>12 DEF R

\* Sorting by two keys, with the place as the third: what comes before what,
\* and the order that makes.
LexBefore(n, p, q, before) ==
  /\ n \in Nat /\ p \in [1..n -> Int] /\ q \in [1..n -> Int]
  /\ before \in [1..n -> SUBSET (1..n)]
  /\ \A i, j \in 1..n : j \in before[i] <=>
       \/ p[j] < p[i] \/ (p[j] = p[i] /\ q[j] < q[i])
       \/ ~(p[i] < p[j] \/ (p[i] = p[j] /\ q[i] < q[j])) /\ j < i
LexOrder(n, p, q, order) ==
  /\ order \in [1..n -> 1..n]
  /\ \A i \in 1..n : \E k \in 1..n : order[k] = i
  /\ \A k, l \in 1..n : k < l =>
       \/ p[order[k]] < p[order[l]]
       \/ p[order[k]] = p[order[l]] /\ q[order[k]] < q[order[l]]
       \/ p[order[k]] = p[order[l]] /\ q[order[k]] = q[order[l]] /\ order[k] < order[l]

\* What SliceStable does for a Less that compares p and, where those are
\* equal, q.
LEMMA LexSorted ==
  ASSUME NEW n, NEW p, NEW q, NEW before, LexBefore(n, p, q, before)
  PROVE  LexOrder(n, p, q, RankedBy(before))
<1> USE DEF LexBefore
<1> DEFINE I == 1..n
           R == RankedBy(before)
           B(j, i) == \/ p[j] < p[i]
                      \/ p[j] = p[i] /\ q[j] < q[i]
                      \/ p[j] = p[i] /\ q[j] = q[i] /\ j < i
<1>1. IsFiniteSet(I) /\ Cardinality(I) = n
  BY FS_Interval
<1>2. before \in [I -> SUBSET I]
  OBVIOUS
<1>3. \A i, j \in I : j \in before[i] <=> B(j, i)
  <2> TAKE i, j \in I
  <2>1. p[i] \in Int /\ p[j] \in Int /\ q[i] \in Int /\ q[j] \in Int
    OBVIOUS
  <2>. QED BY <2>1
<1>4. \A i \in I : i \notin before[i]
  BY <1>3
<1>5. ASSUME NEW i \in I, NEW j \in before[i], NEW k \in before[j] PROVE k \in before[i]
  <2>1. j \in I /\ k \in I
    BY <1>2
  <2>2. B(j, i) /\ B(k, j)
    BY <1>3, <1>5, <2>1
  <2>3. /\ p[i] \in Int /\ p[j] \in Int /\ p[k] \in Int
        /\ q[i] \in Int /\ q[j] \in Int /\ q[k] \in Int
    BY <2>1
  <2>4. B(k, i)
    BY <2>1, <2>2, <2>3
  <2>. QED BY <1>3, <2>1, <2>4
<1>6. ASSUME NEW i \in I, NEW j \in I, i # j PROVE i \in before[j] \/ j \in before[i]
  <2>1. p[i] \in Int /\ p[j] \in Int /\ q[i] \in Int /\ q[j] \in Int
    OBVIOUS
  <2>2. B(i, j) \/ B(j, i)
    BY <1>6, <2>1
  <2>. QED BY <1>3, <2>2
<1>7. /\ R \in [1..n -> I]
      /\ \A k, l \in 1..n : k < l => R[k] \in before[R[l]]
      /\ \A i \in I : \E k \in 1..n : R[k] = i
  <2>1. \A i \in I : \A j \in before[i] : before[j] \subseteq before[i]
    BY <1>2, <1>5
  <2> HIDE DEF I
  <2>3. \A i, j \in I : i # j => i \in before[j] \/ j \in before[i]
    BY <1>6
  <2>2. /\ RankedBy(before) \in [1..Cardinality(I) -> I]
        /\ \A k, l \in 1..Cardinality(I) :
             k < l => RankedBy(before)[k] \in before[RankedBy(before)[l]]
        /\ \A i \in I : \E k \in 1..Cardinality(I) : RankedBy(before)[k] = i
    BY <1>1, <1>2, <1>4, <2>1, <2>3, RankedIs, Zenon
  <2>. QED BY <2>2, <1>1, Zenon
<1> HIDE DEF R
<1>8. ASSUME NEW k \in 1..n, NEW l \in 1..n, k < l PROVE B(R[k], R[l])
  <2>1. R[k] \in I /\ R[l] \in I /\ R[k] \in before[R[l]]
    BY <1>7, <1>8
  <2>. QED BY <1>3, <2>1
<1>9. \A k, l \in 1..n : k < l => B(R[k], R[l])
  BY <1>8
<1>. QED BY <1>7, <1>9, Zenon DEF R, LexOrder, I

-----------------------------------------------------------------------------
(* What the loaders accept *)

RowType == [name : ToSet(Alphabet), rank : Nat \ {0}, priority : Int, enable : BOOLEAN,
            refresh : Int, staleOnError : Nat]
CustomType == [name : ToSet(Alphabet), rank : Nat \ {0}, priority : Nat,
               rules : Seq(RuleType)]

\* A name of the alphabet has a rank, and two names have two.
LEMMA RankIs ==
  ASSUME NEW name \in ToSet(Alphabet)
  PROVE  RankOf(name) \in Nat \ {0} /\ RankOf(name) \in DOMAIN Alphabet
         /\ Alphabet[RankOf(name)] = name
<1> DEFINE I == {i \in 1..Len(Alphabet) : Alphabet[i] = name}
<1>1. Alphabet \in Seq(STRING) /\ DOMAIN Alphabet = 1..Len(Alphabet) /\ Len(Alphabet) \in Nat
  BY ConfigAssumption
<1>2. I # {} /\ I \in SUBSET Nat
  BY <1>1 DEF ToSet
<1>3. RankOf(name) = Min(I)
  BY <1>2 DEF RankOf, SelectInSeq
<1>4. Min(I) \in I
  <2> HIDE DEF I
  <2>. QED BY <1>2, MinIs
<1>. QED BY <1>1, <1>3, <1>4

\* The record's cell in a column is a cell.
LEMMA CellsAre ==
  ASSUME NEW header \in Seq(STRING), NEW rec \in Seq(CellType)
  PROVE  Cells(header, rec) \in [RequiredCols \cup OptionalCols -> CellType]
<1> SUFFICES ASSUME NEW c \in RequiredCols \cup OptionalCols
             PROVE  Cells(header, rec)[c] \in CellType
  BY Zenon DEF Cells
<1> DEFINE I == {i \in 1..Len(header) : header[i] = c}
           at == IF I # {} THEN Max(I) ELSE 0
<1>1. Cells(header, rec)[c] = IF at = 0 \/ at > Len(rec) THEN Blank ELSE rec[at]
  BY DEF Cells, SelectLastInSeq
<1>2. at \in Nat
  <2>1. I \in SUBSET (0..Len(header)) /\ Len(header) \in Nat
    OBVIOUS
  <2>2. I # {} => Max(I) \in I
    <3> HIDE DEF I
    <3>. QED BY <2>1, MaxIs, Zenon
  <2>. QED BY <2>1, <2>2
<1>3. Blank \in CellType
  BY DEF CellType
<1> HIDE DEF at
<1>. QED BY <1>1, <1>2, <1>3

\* A cell that is an integer has one.
LEMMA IntCell ==
  ASSUME NEW c \in CellType
  PROVE  /\ IsInt(c) => c.n \in Int
         /\ c.is = "word" => c = Word(c.s) /\ c.s \in STRING
BY DEF CellType, NumberType, IsInt, Blank, Word

\* The kept records: those with a proper name, in their order.
LEMMA KeptAre ==
  ASSUME NEW csv \in TableType
  PROVE  LET cells == [i \in DOMAIN csv.records |-> Cells(csv.header, csv.records[i])]
             kept  == Filter(cells, LAMBDA c : NameFormatOk(c["name"]))
             named == {i \in DOMAIN csv.records : NameFormatOk(cells[i]["name"])}
         IN  /\ kept \in Seq([RequiredCols \cup OptionalCols -> CellType])
             /\ Len(kept) = Cardinality(named)
             /\ \A k \in DOMAIN kept : NameFormatOk(kept[k]["name"])
<1> DEFINE V == [RequiredCols \cup OptionalCols -> CellType]
           cells == [i \in DOMAIN csv.records |-> Cells(csv.header, csv.records[i])]
           named == {i \in DOMAIN csv.records : NameFormatOk(cells[i]["name"])}
           kept == Filter(cells, LAMBDA c : NameFormatOk(c["name"]))
<1>1. /\ csv.header \in Seq(STRING) /\ csv.records \in Seq(Seq(CellType))
      /\ DOMAIN csv.records = 1..Len(csv.records) /\ Len(csv.records) \in Nat
  BY DEF TableType
<1>2. \A i \in DOMAIN csv.records : csv.records[i] \in Seq(CellType)
  BY <1>1
<1>3. \A i \in DOMAIN csv.records : Cells(csv.header, csv.records[i]) \in V
  BY <1>1, <1>2, CellsAre, Zenon
<1> HIDE DEF V
<1>4. cells \in Seq(V) /\ DOMAIN cells = DOMAIN csv.records
  BY <1>1, <1>3
<1>5. kept = KeepAt(cells, named)
  BY DEF Filter
<1> HIDE DEF cells, kept
<1>6. named \in SUBSET DOMAIN cells
  BY <1>4
<1>10. \A i \in named : NameFormatOk(cells[i]["name"])
  OBVIOUS
<1> HIDE DEF named
<1>7. kept \in Seq(V)
  BY <1>4, <1>5, <1>6, KeepAtIs
<1>8. PICK e \in [DOMAIN kept -> named] :
        /\ \A k \in DOMAIN kept : kept[k] = cells[e[k]]
        /\ \A k, l \in DOMAIN kept : k < l => e[k] < e[l]
        /\ \A i \in named : \E k \in DOMAIN kept : e[k] = i
  BY <1>4, <1>5, <1>6, KeepAtIs
<1>9. Len(kept) = Cardinality(named)
  BY <1>4, <1>5, <1>6, KeepAtLength
<1>11. \A k \in DOMAIN kept : NameFormatOk(kept[k]["name"])
  BY <1>8, <1>10
<1>. QED BY <1>7, <1>9, <1>11, Zenon DEF V, kept, cells, named

\* A valid record makes a row.
LEMMA ParseRowIs ==
  ASSUME NEW c \in [RequiredCols \cup OptionalCols -> CellType],
         NameFormatOk(c["name"]), ValidRow(c)
  PROVE  ParseRow(c) \in RowType /\ ParseRow(c).name = c["name"].s
         /\ c["name"] = Word(c["name"].s)
<1>1. /\ c["name"] \in CellType /\ c["priority"] \in CellType
      /\ c["refresh"] \in CellType /\ c["stale_on_error_seconds"] \in CellType
  BY DEF RequiredCols, OptionalCols
<1>2. c["name"] = Word(c["name"].s) /\ c["name"].s \in ToSet(Alphabet)
  BY <1>1, IntCell DEF NameFormatOk
<1>3. RankOf(c["name"].s) \in Nat \ {0}
  BY <1>2, RankIs
<1>4. c["priority"].n \in Int
  BY <1>1, IntCell DEF ValidRow
<1>5. c["refresh"] # Blank => c["refresh"].n \in Int
  BY <1>1, IntCell DEF ValidRow
<1>6. c["stale_on_error_seconds"] # Blank => c["stale_on_error_seconds"].n \in Nat
  BY <1>1, IntCell DEF ValidRow, PositiveOrBlank
<1>7. (IF c["refresh"] = Blank THEN 0 ELSE c["refresh"].n) \in Int
  BY <1>5
<1>8. (IF c["stale_on_error_seconds"] = Blank THEN 0 ELSE c["stale_on_error_seconds"].n) \in Nat
  BY <1>6
<1>9. (c["enable"] = Word("Enable")) \in BOOLEAN
  OBVIOUS
<1>. QED BY <1>2, <1>3, <1>4, <1>7, <1>8, <1>9 DEF ParseRow, RowType

\* The rows of an accepted table: one for each record with a proper name, and
\* no two of the same name.
LEMMA RowsAre ==
  ASSUME NEW csv \in TableType, ParseSubscriptions(csv).ok
  PROVE  LET rows  == ParseSubscriptions(csv).val
             named == {i \in DOMAIN csv.records :
                         NameFormatOk(Cells(csv.header, csv.records[i])["name"])}
         IN  /\ rows \in Seq(RowType)
             /\ Len(rows) = Cardinality(named)
             /\ \A i, j \in DOMAIN rows : rows[i].name = rows[j].name => i = j
<1> DEFINE V == [RequiredCols \cup OptionalCols -> CellType]
           cells == [i \in DOMAIN csv.records |-> Cells(csv.header, csv.records[i])]
           named == {i \in DOMAIN csv.records : NameFormatOk(cells[i]["name"])}
           kept == Filter(cells, LAMBDA c : NameFormatOk(c["name"]))
           rows == [i \in DOMAIN kept |-> ParseRow(kept[i])]
<1>1. /\ kept \in Seq(V) /\ Len(kept) = Cardinality(named)
      /\ \A k \in DOMAIN kept : NameFormatOk(kept[k]["name"])
  BY KeptAre, Zenon
<1>2. named = {i \in DOMAIN csv.records :
                 NameFormatOk(Cells(csv.header, csv.records[i])["name"])}
  OBVIOUS
<1>3. /\ \A i \in DOMAIN kept : ValidRow(kept[i])
      /\ Distinct([i \in DOMAIN kept |-> kept[i]["name"]])
      /\ ParseSubscriptions(csv).val = rows
  <2> HIDE DEF kept
  <2>. QED BY Zenon DEF ParseSubscriptions, Refused, Accepted, kept, cells
<1> HIDE DEF V, kept, named
<1>4. DOMAIN kept = 1..Len(kept) /\ Len(kept) \in Nat /\ DOMAIN rows = DOMAIN kept
      /\ \A i \in DOMAIN kept : kept[i] \in V
  BY <1>1
<1>5. ASSUME NEW i \in DOMAIN kept
      PROVE  rows[i] \in RowType /\ rows[i].name = kept[i]["name"].s
             /\ kept[i]["name"] = Word(kept[i]["name"].s)
  <2>1. /\ kept[i] \in [RequiredCols \cup OptionalCols -> CellType]
        /\ NameFormatOk(kept[i]["name"]) /\ ValidRow(kept[i])
    BY <1>1, <1>3, <1>4, Zenon DEF V
  <2>. QED BY <2>1, ParseRowIs
<1> HIDE DEF rows
<1>6. rows \in Seq(RowType) /\ Len(rows) = Len(kept)
  BY <1>4, <1>5 DEF rows
<1>7. ASSUME NEW i \in DOMAIN rows, NEW j \in DOMAIN rows, rows[i].name = rows[j].name
      PROVE  i = j
  <2>1. kept[i]["name"] = kept[j]["name"]
    BY <1>4, <1>5, <1>7
  <2>. QED BY <1>3, <1>4, <2>1 DEF Distinct
<1>. QED BY <1>1, <1>2, <1>3, <1>6, <1>7, Zenon

\* A sequence of rows with different names has as many as it has names.
LEMMA NamesCount ==
  ASSUME NEW rows \in Seq(RowType),
         \A i, j \in DOMAIN rows : rows[i].name = rows[j].name => i = j
  PROVE  Len(rows) = Cardinality({rows[i].name : i \in DOMAIN rows})
<1> DEFINE S == {rows[i].name : i \in DOMAIN rows}
           f == [i \in 1..Len(rows) |-> rows[i].name]
<1>1. DOMAIN rows = 1..Len(rows) /\ Len(rows) \in Nat
  OBVIOUS
<1>2. f \in [1..Len(rows) -> S] /\ \A x \in S : \E k \in 1..Len(rows) : f[k] = x
  BY <1>1
<1>3. \A k, l \in 1..Len(rows) : f[k] = f[l] => k = l
  BY <1>1
<1> HIDE DEF f, S
<1>4. Cardinality(S) = Len(rows)
  BY <1>1, <1>2, <1>3, InjectiveLength
<1>. QED BY <1>4 DEF S

\* Every default is positive.
LEMMA DefaultsPositive == \A k \in DOMAIN IntDefaults : IntDefaults[k] \in Nat \ {0}
BY DEF IntDefaults

\* What an accepted environment says: positive numbers, two names, and
\* prefixes that are not blank.
LEMMA LoadIs ==
  ASSUME NEW env, \A k \in DOMAIN env : env[k] \in EnvValues(k), Load(env).ok
  PROVE  LET cfg == Load(env).val
         IN  /\ DOMAIN cfg.ints = DOMAIN IntDefaults
             /\ \A k \in DOMAIN IntDefaults : cfg.ints[k] \in Nat \ {0}
             /\ cfg.proxiesGroup \in NameType /\ cfg.fallback \in NameType
             /\ cfg.agents \in Seq(Seq(STRING)) /\ <<>> \notin ToSet(cfg.agents)
<1> DEFINE cfg == Load(env).val
           ua == Getenv(env, "HONKAI_RULE_CLIENT_UA")
<1>1. ValidEnv(env)
  BY DEF Load, Refused
<1>2. /\ cfg.ints = [k \in DOMAIN IntDefaults |->
                      IF Getenv(env, k) = Blank THEN IntDefaults[k] ELSE Getenv(env, k).n]
      /\ cfg.proxiesGroup = IF Getenv(env, "PROXIES_GROUP_NAME") = Blank THEN <<"Proxies">>
                            ELSE Getenv(env, "PROXIES_GROUP_NAME").s
      /\ cfg.fallback = IF Getenv(env, "FALLBACK_RULE_TARGET") = Blank THEN <<"auto">>
                        ELSE Getenv(env, "FALLBACK_RULE_TARGET").s
      /\ cfg.agents = AllowedUserAgentPrefixes(ua)
  BY <1>1, Zenon DEF Load, Accepted
<1> HIDE DEF cfg
<1>3. ASSUME NEW k \in DOMAIN IntDefaults PROVE cfg.ints[k] \in Nat \ {0}
  <2>1. EnvValues(k) = CellType
    BY DEF EnvValues, IntDefaults
  <2>2. Getenv(env, k) \in CellType
    BY <2>1 DEF Getenv, CellType
  <2>3. PositiveOrBlank(Getenv(env, k))
    BY <1>1 DEF ValidEnv
  <2>4. Getenv(env, k) # Blank => Getenv(env, k).n \in Nat \ {0}
    BY <2>2, <2>3, IntCell DEF PositiveOrBlank
  <2>. QED BY <1>2, <2>4, DefaultsPositive
<1>4. \A k \in {"PROXIES_GROUP_NAME", "FALLBACK_RULE_TARGET"} :
        Getenv(env, k) # Blank => Getenv(env, k).s \in NameType
  <2> TAKE k \in {"PROXIES_GROUP_NAME", "FALLBACK_RULE_TARGET"}
  <2>1. EnvValues(k) = {Blank} \cup [is : {"word"}, s : NameType]
    BY DEF EnvValues
  <2>. QED BY <2>1 DEF Getenv
<1>5. <<"Proxies">> \in NameType /\ <<"auto">> \in NameType
  <2>. QED BY ConfigAssumption DEF NameType
<1>6. cfg.agents \in Seq(Seq(STRING)) /\ <<>> \notin ToSet(cfg.agents)
  <2>1. CASE ua = Blank
    <3>1. cfg.agents = <<>>
      BY <1>2, <2>1 DEF AllowedUserAgentPrefixes
    <3>. QED BY <3>1 DEF ToSet
  <2>2. CASE ua # Blank
    <3> DEFINE T == Seq(STRING)
               s == ua.s
               I == {i \in DOMAIN s : s[i] # <<>>}
    <3>1. EnvValues("HONKAI_RULE_CLIENT_UA")
            = {Blank} \cup [is : {"word"}, s : Seq(Seq(STRING))]
      BY DEF EnvValues
    <3>2. s \in Seq(T)
      BY <2>2, <3>1 DEF Getenv
    <3>3. cfg.agents = KeepAt(s, I)
      BY <1>2, <2>2 DEF AllowedUserAgentPrefixes, Filter
    <3> HIDE DEF s
    <3>4. I \in SUBSET DOMAIN s /\ \A i \in I : s[i] # <<>>
      OBVIOUS
    <3> HIDE DEF I, T
    <3>5. KeepAt(s, I) \in Seq(T)
      BY <3>2, <3>4, KeepAtIs
    <3>6. PICK e \in [DOMAIN KeepAt(s, I) -> I] :
            \A k \in DOMAIN KeepAt(s, I) : KeepAt(s, I)[k] = s[e[k]]
      BY <3>2, <3>4, KeepAtIs
    <3>7. \A k \in DOMAIN KeepAt(s, I) : KeepAt(s, I)[k] # <<>>
      BY <3>4, <3>6
    <3>. QED BY <3>3, <3>5, <3>7 DEF ToSet, T
  <2>. QED BY <2>1, <2>2
<1>7. cfg.proxiesGroup \in NameType /\ cfg.fallback \in NameType
  BY <1>2, <1>4, <1>5
<1>8. DOMAIN cfg.ints = DOMAIN IntDefaults
  BY <1>2
<1>. QED BY <1>3, <1>6, <1>7, <1>8 DEF cfg

\* The custom rule sets come sorted by priority and, among equals, by name.
LEMMA CustomsAre ==
  ASSUME NEW folder \in Seq(CustomFileType)
  PROVE  LET sets == LoadCustomRules(folder)
         IN  /\ sets \in Seq(CustomType)
             /\ \A i, j \in DOMAIN sets : i < j => sets[i].priority <= sets[j].priority
<1> DEFINE usable == Filter(folder, UsableEntry)
           sets == [i \in DOMAIN usable |-> CustomRuleSet(usable[i])]
           I == {i \in DOMAIN folder : UsableEntry(folder[i])}
           n == Len(usable)
<1>1. usable = KeepAt(folder, I) /\ I \in SUBSET DOMAIN folder
  BY DEF Filter
<1>2. \A i \in I : UsableEntry(folder[i])
  OBVIOUS
<1> HIDE DEF usable, I
<1>3. usable \in Seq(CustomFileType)
  BY <1>1, KeepAtIs
<1>4. PICK e \in [DOMAIN usable -> I] : \A k \in DOMAIN usable : usable[k] = folder[e[k]]
  BY <1>1, KeepAtIs
<1>5. DOMAIN usable = 1..n /\ n \in Nat
  BY <1>3
<1>6. ASSUME NEW k \in 1..n PROVE sets[k] \in CustomType
  <2> DEFINE entry == usable[k]
  <2>1. entry \in CustomFileType /\ UsableEntry(entry)
    BY <1>2, <1>3, <1>4, <1>5
  <2> HIDE DEF entry
  <2>2. entry.priority # Blank => entry.priority.n \in Nat
    <3>1. entry.priority \in {Blank} \cup NumberType
      BY <2>1, Zenon DEF CustomFileType
    <3>2. entry.priority = Blank \/ entry.priority.n >= 0
      BY <2>1 DEF UsableEntry
    <3>. QED BY <3>1, <3>2 DEF NumberType
  <2>3. (IF entry.name = "" THEN entry.file ELSE entry.name) \in ToSet(Alphabet)
    BY <2>1, Zenon DEF CustomFileType
  <2>4. (IF entry.priority = Blank THEN DefaultPriority ELSE entry.priority.n) \in Nat
    BY <2>2 DEF DefaultPriority
  <2>5. RankOf(IF entry.name = "" THEN entry.file ELSE entry.name) \in Nat \ {0}
    BY <2>3, RankIs, Zenon
  <2>6. entry.rules \in Seq(RuleType)
    BY <2>1, Zenon DEF CustomFileType
  <2>7. CustomRuleSet(entry) \in CustomType
    BY <2>3, <2>4, <2>5, <2>6, Zenon DEF CustomRuleSet, CustomType
  <2>. QED BY <1>5, <2>7 DEF entry
<1>7. sets \in Seq(CustomType) /\ Len(sets) = n /\ DOMAIN sets = 1..n
  BY <1>5, <1>6
<1> DEFINE p == [i \in 1..n |-> sets[i].priority]
           q == [i \in 1..n |-> sets[i].rank]
           Less(a, b) == a.priority < b.priority \/ (a.priority = b.priority /\ a.rank < b.rank)
           before == [i \in DOMAIN sets |-> {j \in DOMAIN sets :
                        Less(sets[j], sets[i]) \/ (~Less(sets[i], sets[j]) /\ j < i)}]
           R == RankedBy(before)
<1>8. LoadCustomRules(folder) = [k \in DOMAIN sets |-> sets[R[k]]]
  BY DEF LoadCustomRules, SliceStable, usable
<1> HIDE DEF sets
<1>9. p \in [1..n -> Int] /\ q \in [1..n -> Int]
  BY <1>6 DEF CustomType
<1>10. before \in [1..n -> SUBSET (1..n)]
  BY <1>7
<1>11. \A i, j \in 1..n : j \in before[i] <=>
            \/ p[j] < p[i] \/ (p[j] = p[i] /\ q[j] < q[i])
            \/ ~(p[i] < p[j] \/ (p[i] = p[j] /\ q[i] < q[j])) /\ j < i
  BY <1>7
<1> HIDE DEF before, p, q, n
<1>12. LexOrder(n, p, q, R)
  <2>1. LexBefore(n, p, q, before)
    BY <1>5, <1>9, <1>10, <1>11, Zenon DEF LexBefore
  <2>. QED BY <2>1, LexSorted
<1> HIDE DEF R
<1> DEFINE out == [k \in DOMAIN sets |-> sets[R[k]]]
<1>13. out \in Seq(CustomType) /\ DOMAIN out = 1..n
  BY <1>5, <1>6, <1>7, <1>12 DEF LexOrder
<1>14. ASSUME NEW i \in 1..n, NEW j \in 1..n, i < j PROVE out[i].priority <= out[j].priority
  <2>1. R[i] \in 1..n /\ R[j] \in 1..n
    BY <1>12, Zenon DEF LexOrder
  <2>3. p[R[i]] < p[R[j]] \/ p[R[i]] = p[R[j]]
    BY <1>12, <1>14 DEF LexOrder
  <2>4. p[R[i]] \in Int /\ p[R[j]] \in Int
    BY <1>9, <2>1
  <2>2. p[R[i]] <= p[R[j]]
    BY <2>3, <2>4
  <2>. QED BY <1>7, <2>1, <2>2 DEF p
<1>. QED BY <1>8, <1>13, <1>14

\* What a successful start accepts, of files that are well formed.
LEMMA RunIs ==
  ASSUME NEW f, WellFormed(f), Run(f).ok
  PROVE  LET c == Run(f).val
             named == {i \in DOMAIN f.csv.records :
                         NameFormatOk(Cells(f.csv.header, f.csv.records[i])["name"])}
         IN  /\ c.rows \in Seq(RowType)
             /\ \A i, j \in DOMAIN c.rows : c.rows[i].name = c.rows[j].name => i = j
             /\ Len(c.rows) = Cardinality(named)
             /\ \A k \in DOMAIN c.cfg.ints : c.cfg.ints[k] \in Nat \ {0}
             /\ c.cfg.proxiesGroup \in NameType /\ c.cfg.fallback \in NameType
             /\ c.cfg.agents \in Seq(Seq(STRING)) /\ <<>> \notin ToSet(c.cfg.agents)
             /\ c.customs \in Seq(CustomType)
             /\ \A i, j \in DOMAIN c.customs :
                  i < j => c.customs[i].priority <= c.customs[j].priority
<1>1. /\ Load(f.env).ok /\ ParseSubscriptions(f.csv).ok
      /\ Run(f).val.cfg = Load(f.env).val /\ Run(f).val.rows = ParseSubscriptions(f.csv).val
      /\ Run(f).val.customs = LoadCustomRules(f.custom)
  BY DEF Run, Refused, Accepted
<1>2. /\ \A k \in DOMAIN f.env : f.env[k] \in EnvValues(k)
      /\ f.csv \in TableType /\ f.custom \in Seq(CustomFileType)
  BY DEF WellFormed
<1>3. LET cfg == Load(f.env).val
      IN  /\ DOMAIN cfg.ints = DOMAIN IntDefaults
          /\ \A k \in DOMAIN IntDefaults : cfg.ints[k] \in Nat \ {0}
          /\ cfg.proxiesGroup \in NameType /\ cfg.fallback \in NameType
          /\ cfg.agents \in Seq(Seq(STRING)) /\ <<>> \notin ToSet(cfg.agents)
  BY <1>1, <1>2, LoadIs
<1>4. LET rows  == ParseSubscriptions(f.csv).val
          named == {i \in DOMAIN f.csv.records :
                      NameFormatOk(Cells(f.csv.header, f.csv.records[i])["name"])}
      IN  /\ rows \in Seq(RowType)
          /\ Len(rows) = Cardinality(named)
          /\ \A i, j \in DOMAIN rows : rows[i].name = rows[j].name => i = j
  BY <1>1, <1>2, RowsAre, Zenon
<1>5. LET sets == LoadCustomRules(f.custom)
      IN  /\ sets \in Seq(CustomType)
          /\ \A i, j \in DOMAIN sets : i < j => sets[i].priority <= sets[j].priority
  BY <1>2, CustomsAre
<1>. QED BY <1>1, <1>3, <1>4, <1>5, Zenon

-----------------------------------------------------------------------------
(* The configuration in force is the one that the files at start-up gave.  *)

-----------------------------------------------------------------------------
(* Headers *)

\* What a header parses to: the four figures, or nothing.
LEMMA UserinfoIs ==
  ASSUME NEW pairs \in Seq([key : STRING, val : CellType])
  PROVE  ParseSubscriptionUserinfo(pairs) \in {NoUserinfo} \cup UserinfoType
<1> DEFINE Where(f) == {i \in 1..Len(pairs) : pairs[i].key = f}
           LastOf(f) == IF Where(f) # {} THEN Max(Where(f)) ELSE 0
           bad == \/ \E i \in DOMAIN pairs : pairs[i].key = "" \/ ~IsInt(pairs[i].val)
                  \/ \A f \in UserinfoFields : LastOf(f) = 0
<1>1. ParseSubscriptionUserinfo(pairs) = IF bad THEN NoUserinfo
        ELSE [f \in UserinfoFields |-> IF LastOf(f) = 0 THEN 0 ELSE pairs[LastOf(f)].val.n]
  BY DEF ParseSubscriptionUserinfo, SelectLastInSeq
<1>2. ASSUME NEW f PROVE LastOf(f) = 0 \/ LastOf(f) \in DOMAIN pairs
  <2>1. Where(f) \in SUBSET (0..Len(pairs)) /\ Len(pairs) \in Nat /\ DOMAIN pairs = 1..Len(pairs)
    OBVIOUS
  <2>2. Where(f) \subseteq 1..Len(pairs)
    OBVIOUS
  <2> HIDE DEF Where
  <2>3. Where(f) # {} => Max(Where(f)) \in Where(f)
    BY <2>1, MaxIs, Zenon
  <2>. QED BY <2>1, <2>2, <2>3
<1>3. ASSUME NEW f, ~bad, LastOf(f) # 0 PROVE pairs[LastOf(f)].val.n \in Int
  <2>1. LastOf(f) \in DOMAIN pairs
    BY <1>2, <1>3, Zenon
  <2>2. IsInt(pairs[LastOf(f)].val)
    BY <1>3, <2>1, Zenon
  <2> HIDE DEF LastOf
  <2> DEFINE P == [key : STRING, val : CellType]
  <2>5. pairs \in Seq(P)
    OBVIOUS
  <2>3. pairs[LastOf(f)] \in P
    <3> HIDE DEF P
    <3>. QED BY <2>1, <2>5
  <2>4. pairs[LastOf(f)].val \in CellType
    BY <2>3
  <2>. QED BY <2>2, <2>4, IntCell
<1> HIDE DEF bad, LastOf
<1>. QED BY <1>1, <1>3 DEF UserinfoType, UserinfoFields
=============================================================================
