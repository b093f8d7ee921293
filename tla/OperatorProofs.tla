--------------------------- MODULE OperatorProofs ---------------------------
(***************************************************************************)
(* What the operators of Traffic and Layout compute, for every reading of  *)
(* the sources and every mapping, and the facts about numbers, finite sets *)
(* and sums it takes to show that.                                         *)
(*                                                                         *)
(* Induction is over a set T, the numbers or sets for which the claim has  *)
(* been shown, so that it can be cited: the induction theorems of the      *)
(* library have an operator as their parameter, which the provers cannot   *)
(* instantiate.  It comes from the library's theorem that a well-founded   *)
(* relation has minimal elements.                                          *)
(***************************************************************************)
EXTENDS Traffic, Layout, FiniteSetTheorems, SequenceTheorems, TLAPS

-----------------------------------------------------------------------------
(* Induction *)

\* A set of naturals that is not empty has a least element.
LEMMA LeastNat == ASSUME NEW T \in SUBSET Nat, T # {} PROVE \E x \in T : \A y \in T : x <= y
<1> DEFINE R == {ss \in Nat \X Nat : ss[1] < ss[2]}
<1>1. IsWellFoundedOn(R, Nat)
  BY NatLessThanWellFounded DEF OpToRel
<1>2. \E x \in T : \A y \in T : ~(<<y, x>> \in R)
  <2> HIDE DEF R
  <2>2. QED BY WFMin, <1>1
<1>3. PICK x \in T : \A y \in T : ~(<<y, x>> \in R)
  BY <1>2
<1>4. ASSUME NEW y \in T PROVE x <= y
  <2>1. ~(<<y, x>> \in R) BY <1>3
  <2>3. <<y,x>> \in Nat \X Nat OBVIOUS
  <2>2. ~(<<y,x>>[1] < <<y,x>>[2]) BY <2>1, <2>3
  <2>4. QED BY <2>2
<1>5. QED BY <1>4

\* A set that holds 0 and with every n also n + 1 holds every natural.
LEMMA NatInduct ==
  ASSUME NEW T, 0 \in T, \A n \in Nat : n \in T => n+1 \in T
  PROVE  Nat \subseteq T
<1> DEFINE U == Nat \ T
<1>1. SUFFICES ASSUME U # {} PROVE FALSE OBVIOUS
<1>2. PICK x \in U : \A y \in U : x <= y BY <1>1, LeastNat, U \in SUBSET Nat
<1>3. x # 0 /\ x - 1 \in Nat OBVIOUS
<1>4. x-1 \notin U BY <1>2
<1>5. QED BY <1>3,<1>4

\* Induction on a finite set, one element more at a time ...
LEMMA SetInduct ==
  ASSUME NEW S, IsFiniteSet(S), NEW T, {} \in T,
         \A A \in SUBSET S : \A x \in S \ A : A \in T => A \cup {x} \in T
  PROVE  S \in T
<1> DEFINE U == {n \in Nat : \A A \in SUBSET S : Cardinality(A) = n => A \in T}
<1>0. \A A \in SUBSET S : IsFiniteSet(A) /\ Cardinality(A) \in Nat
  BY FS_Subset, FS_CardinalityType
<1>1. 0 \in U
  BY <1>0, FS_EmptySet
<1>2. ASSUME NEW n \in Nat, n \in U PROVE n + 1 \in U
  <2>1. SUFFICES ASSUME NEW A \in SUBSET S, Cardinality(A) = n + 1 PROVE A \in T
    OBVIOUS
  <2>0. n + 1 # 0
    OBVIOUS
  <2>2. PICK x : x \in A
    BY <2>0, <2>1, FS_EmptySet
  <2>3. Cardinality(A \ {x}) = Cardinality(A) - 1
    BY <1>0, <2>2, FS_RemoveElement
  <2>4. A \ {x} \in T
    BY <1>2, <2>1, <2>3
  <2>5. A = (A \ {x}) \cup {x}
    BY <2>2
  <2>. QED
    BY <2>2, <2>4, <2>5
<1>3. Nat \subseteq U
  <2> HIDE DEF U
  <2>. QED BY <1>1, <1>2, NatInduct
<1>. QED
  BY <1>0, <1>3

\* ... and on its subsets, from those with one element less.
LEMMA SubsetInduct ==
  ASSUME NEW S, IsFiniteSet(S), NEW T,
         \A A \in SUBSET S : (\A x \in A : A \ {x} \in T) => A \in T
  PROVE  S \in T
<1> DEFINE U == {n \in Nat : \A A \in SUBSET S : Cardinality(A) = n => A \in T}
<1>0. \A A \in SUBSET S : IsFiniteSet(A) /\ Cardinality(A) \in Nat
  BY FS_Subset, FS_CardinalityType
<1>1. 0 \in U
  <2>1. \A A \in SUBSET S : Cardinality(A) = 0 => A = {}
    BY <1>0, FS_EmptySet
  <2>. QED BY <2>1
<1>2. ASSUME NEW n \in Nat, n \in U PROVE n + 1 \in U
  <2>1. SUFFICES ASSUME NEW A \in SUBSET S, Cardinality(A) = n + 1 PROVE A \in T
    OBVIOUS
  <2>2. ASSUME NEW x \in A PROVE A \ {x} \in T
    <3>1. Cardinality(A \ {x}) = Cardinality(A) - 1
      BY <1>0, FS_RemoveElement
    <3>. QED BY <1>2, <2>1, <3>1
  <2>. QED BY <2>2
<1>3. Nat \subseteq U
  <2> HIDE DEF U
  <2>. QED BY <1>1, <1>2, NatInduct
<1>. QED BY <1>0, <1>3

-----------------------------------------------------------------------------
(* Sums: SumFunction of the community modules, over a set of indices. *)

Pick(s) == CHOOSE x \in s : TRUE

\* g[s] is the sum of f over s, for the sets s in D.
SumsUpTo(f, D, g) ==
  g = [s \in D |-> IF s = {} THEN 0 ELSE f[Pick(s)] + g[s \ {Pick(s)}]]

\* The element a fold takes next is one of the set.
LEMMA PickIn == ASSUME NEW s, s # {} PROVE Pick(s) \in s
BY DEF Pick

\* The sum, with the recursive function its definition chooses in sight.
LEMMA SumUnfold == ASSUME NEW f, NEW S PROVE 
   SumFunctionOnSet(f, S) = (CHOOSE g : SumsUpTo(f, SUBSET S, g))[S]
BY DEF SumFunctionOnSet, FoldFunctionOnSet, MapThenFoldSet, SumsUpTo, Pick

\* On a finite set there is such a function ...
LEMMA SumsExist ==
  ASSUME NEW f, NEW S, IsFiniteSet(S)
  PROVE  \E g : SumsUpTo(f, SUBSET S, g)
<1> DEFINE D(n) == {s \in SUBSET S : Cardinality(s) <= n}
           U == {n \in Nat : \E g : SumsUpTo(f, D(n), g)}
<1>0. \A A \in SUBSET S :
        IsFiniteSet(A) /\ Cardinality(A) \in Nat /\ Cardinality(A) <= Cardinality(S)
  BY FS_Subset, FS_CardinalityType
<1>1. 0 \in U
  <2>1. D(0) = {{}}
    BY <1>0, FS_EmptySet
  <2>2. SumsUpTo(f, D(0), [s \in D(0) |-> 0])
    BY <2>1 DEF SumsUpTo
  <2>. QED BY <2>2
<1>2. ASSUME NEW n \in Nat, n \in U PROVE n + 1 \in U
  <2>1. PICK g : SumsUpTo(f, D(n), g)
    BY <1>2
  <2> DEFINE h == [s \in D(n + 1) |->
               IF s \in D(n) THEN g[s] ELSE f[Pick(s)] + g[s \ {Pick(s)}]]
  <2>2. ASSUME NEW s \in D(n + 1), s # {} 
        PROVE  Pick(s) \in s /\ s \ {Pick(s)} \in D(n)
    <3>1. Pick(s) \in s BY <2>2, PickIn
    <3>2. Cardinality(s \ {Pick(s)}) = Cardinality(s) - 1
      BY <3>1, <1>0, FS_RemoveElement
    <3>. QED BY <3>1, <3>2, <1>0
  <2>3. ASSUME NEW s \in D(n + 1) 
        PROVE  h[s] = IF s = {} THEN 0 ELSE f[Pick(s)] + h[s \ {Pick(s)}]
    <3>1. CASE s \in D(n)
      <4>1. h[s] = g[s] BY <3>1
      <4>2. g[s] = IF s = {} THEN 0 ELSE f[Pick(s)] + g[s \ {Pick(s)}]
        BY <2>1, <3>1 DEF SumsUpTo
      <4>3. s # {} => h[s \ {Pick(s)}] = g[s \ {Pick(s)}]
        <5> SUFFICES ASSUME s # {} PROVE h[s \ {Pick(s)}] = g[s \ {Pick(s)}] OBVIOUS
        <5>1. s \ {Pick(s)} \in D(n) BY <2>2
        <5>2. s \ {Pick(s)} \in D(n+1) BY <5>1, <1>0
        <5> HIDE DEF D
        <5>. QED BY <5>1, <5>2
      <4>. QED BY <4>1, <4>2, <4>3
    <3>2. CASE s \notin D(n)
      <4>1. s # {} BY <3>2, <1>0, FS_EmptySet
      <4>2. s \ {Pick(s)} \in D(n) BY <2>2, <4>1
      <4>3. s \ {Pick(s)} \in D(n+1) BY <4>2, <1>0
      <4> HIDE DEF D
      <4>. QED BY <3>2, <4>1, <4>2, <4>3
    <3>. QED BY <3>1, <3>2
  <2>4. h = [s \in D(n+1) |-> h[s]] OBVIOUS
  <2>5. SumsUpTo(f, D(n + 1), h)
    <3> HIDE DEF h, D
    <3>. QED BY <2>3, <2>4 DEF SumsUpTo
  <2> HIDE DEF D, h
  <2>. QED BY <2>5
<1>3. Nat \subseteq U
  <2> HIDE DEF U
  <2>. QED BY <1>1, <1>2, NatInduct
<1>4. Cardinality(S) \in U
  BY <1>0, <1>3
<1>5. D(Cardinality(S)) = SUBSET S
  BY <1>0
<1>. QED
  BY <1>4, <1>5

\* ... and no two that differ, on a set on which the summands are the same.
LEMMA SumsAgree ==
  ASSUME NEW f, NEW S, IsFiniteSet(S), NEW R \in SUBSET S, NEW g, NEW h, NEW e,
         SumsUpTo(f, SUBSET S, g), SumsUpTo(e, SUBSET R, h), \A x \in R : e[x] = f[x]
  PROVE  \A s \in SUBSET R : g[s] = h[s]
<1> DEFINE U == {n \in Nat : \A s \in SUBSET R : Cardinality(s) = n => g[s] = h[s]}
<1>0. \A A \in SUBSET S : IsFiniteSet(A) /\ Cardinality(A) \in Nat
  BY FS_Subset, FS_CardinalityType
<1>9. \A s \in SUBSET R : s \in SUBSET S OBVIOUS
<1>1. 0 \in U
  <2>1. g[{}] = 0 /\ h[{}] = 0 BY DEF SumsUpTo
  <2>. QED BY <1>0, FS_EmptySet, <2>1
<1>2. ASSUME NEW n \in Nat, n \in U PROVE n + 1 \in U
  <2>1. SUFFICES ASSUME NEW s \in SUBSET R, Cardinality(s) = n + 1 PROVE g[s] = h[s]
    OBVIOUS
  <2>2. s # {} BY <2>1, FS_EmptySet
  <2>3. Pick(s) \in s BY <2>2, PickIn
  <2>4. Cardinality(s \ {Pick(s)}) = n
    BY <1>0, <2>1, <2>3, FS_RemoveElement
  <2>5. g[s \ {Pick(s)}] = h[s \ {Pick(s)}] BY <1>2, <2>4
  <2>6. g[s] = f[Pick(s)] + g[s \ {Pick(s)}]  BY <2>2 DEF SumsUpTo
  <2>7. h[s] = e[Pick(s)] + h[s \ {Pick(s)}]  BY <2>2 DEF SumsUpTo
  <2>. QED BY <2>3, <2>5, <2>6, <2>7
<1>3. Nat \subseteq U
  <2> HIDE DEF U
  <2>. QED BY <1>1, <1>2, NatInduct
<1>. QED BY <1>0, <1>3

\* The equations the sum is defined by.
LEMMA SumStep ==
  ASSUME NEW f, NEW S, IsFiniteSet(S)
  PROVE  /\ SumFunctionOnSet(f, {}) = 0
         /\ S # {} => SumFunctionOnSet(f, S) = f[Pick(S)] + SumFunctionOnSet(f, S \ {Pick(S)})
<1> DEFINE G(R) == CHOOSE g : SumsUpTo(f, SUBSET R, g)
<1>1. \A R : IsFiniteSet(R) => SumsUpTo(f, SUBSET R, G(R)) /\ SumFunctionOnSet(f, R) = G(R)[R]
  BY SumsExist, SumUnfold
<1> HIDE DEF G
<1>2. IsFiniteSet({}) /\ \A x : IsFiniteSet(S \ {x}) 
  BY FS_EmptySet, FS_RemoveElement
<1>3. SumFunctionOnSet(f, {}) = 0
  BY <1>1, <1>2 DEF SumsUpTo
<1>4. ASSUME S # {} PROVE SumFunctionOnSet(f, S) = f[Pick(S)] + SumFunctionOnSet(f, S \ {Pick(S)})
  <2> DEFINE R == S \ {Pick(S)}
  <2>1. SumsUpTo(f, SUBSET S, G(S)) /\ SumsUpTo(f, SUBSET R, G(R)) BY <1>1, <1>2
  <2>2. G(S)[R] = G(R)[R]
    <3> HIDE DEF R
    <3>1. R \in SUBSET S BY DEF R
    <3>. QED BY <2>1, <3>1, SumsAgree
  <2>3. G(S)[S] = f[Pick(S)] + G(S)[R] BY <2>1, <1>4 DEF SumsUpTo
  <2>. QED BY <1>1, <1>2, <2>2, <2>3
<1>. QED BY <1>3, <1>4

\* The sum depends on the summands only.
LEMMA SumSame ==
  ASSUME NEW f, NEW e, NEW S, IsFiniteSet(S), \A x \in S : e[x] = f[x]
  PROVE  SumFunctionOnSet(e, S) = SumFunctionOnSet(f, S)
<1> DEFINE G(r) == CHOOSE g : SumsUpTo(r, SUBSET S, g)
<1>1. \A r : SumsUpTo(r, SUBSET S, G(r)) /\ SumFunctionOnSet(r, S) = G(r)[S]
  BY SumsExist, SumUnfold
<1> HIDE DEF G
<1>2. G(f)[S] = G(e)[S] BY <1>1, SumsAgree
<1>. QED BY <1>1, <1>2

\* The type of a sum of integers ...
LEMMA SumInt ==
  ASSUME NEW f, NEW S, IsFiniteSet(S), \A x \in S : f[x] \in Int
  PROVE  SumFunctionOnSet(f, S) \in Int
<1> DEFINE T == {A \in SUBSET S : SumFunctionOnSet(f, A) \in Int}
<1>1. ASSUME NEW A \in SUBSET S, \A x \in A : A \ {x} \in T PROVE A \in T
  <2>1. IsFiniteSet(A) BY FS_Subset
  <2>2. CASE A = {}
    <3>1. SumFunctionOnSet(f, A) = 0 BY <2>1, <2>2, SumStep
    <3>. QED BY <3>1
  <2>3. CASE A # {}
    <3>1. Pick(A) \in A BY <2>3, PickIn
    <3>2. SumFunctionOnSet(f, A) = f[Pick(A)] + SumFunctionOnSet(f, A \ {Pick(A)})
      BY <2>1, <2>3, SumStep
    <3>3. A \ {Pick(A)} \in T BY <1>1, <3>1
    <3>. QED BY <3>1, <3>2, <3>3
  <2>. QED BY <2>2, <2>3
<1>2. S \in T
  <2> HIDE DEF T
  <2>. QED BY <1>1, SubsetInduct
<1>. QED BY <1>2

\* ... and of a sum of naturals.
LEMMA SumNat ==
  ASSUME NEW f, NEW S, IsFiniteSet(S), \A x \in S : f[x] \in Nat
  PROVE  SumFunctionOnSet(f, S) \in Nat
<1> DEFINE T == {A \in SUBSET S : SumFunctionOnSet(f, A) \in Nat}
<1>1. ASSUME NEW A \in SUBSET S, \A x \in A : A \ {x} \in T PROVE A \in T
  <2>1. IsFiniteSet(A) BY FS_Subset
  <2>2. CASE A = {}
    <3>1. SumFunctionOnSet(f, A) = 0 BY <2>1, <2>2, SumStep
    <3>. QED BY <3>1
  <2>3. CASE A # {}
    <3>1. Pick(A) \in A BY <2>3, PickIn
    <3>2. SumFunctionOnSet(f, A) = f[Pick(A)] + SumFunctionOnSet(f, A \ {Pick(A)})
      BY <2>1, <2>3, SumStep
    <3>3. A \ {Pick(A)} \in T BY <1>1, <3>1
    <3>. QED BY <3>1, <3>2, <3>3
  <2>. QED BY <2>2, <2>3
<1>2. S \in T
  <2> HIDE DEF T
  <2>. QED BY <1>1, SubsetInduct
<1>. QED BY <1>2

\* The order of the summands does not matter: any of them can come first.
LEMMA SumRemove ==
  ASSUME NEW f, NEW S, IsFiniteSet(S), \A x \in S : f[x] \in Int, NEW y \in S
  PROVE  SumFunctionOnSet(f, S) = f[y] + SumFunctionOnSet(f, S \ {y})
<1> DEFINE Sum(A) == SumFunctionOnSet(f, A)
           T == {A \in SUBSET S : \A x \in A : Sum(A) = f[x] + Sum(A \ {x})}
<1>0. \A A \in SUBSET S : Sum(A) \in Int /\ IsFiniteSet(A)
  BY FS_Subset, SumInt
<1>9. \A A : IsFiniteSet(A) /\ A # {} => Sum(A) = f[Pick(A)] + Sum(A \ {Pick(A)})
  BY SumStep
<1> HIDE DEF Sum
<1>1. ASSUME NEW A \in SUBSET S, \A x \in A : A \ {x} \in T PROVE A \in T
  <2> SUFFICES ASSUME NEW x \in A PROVE Sum(A) = f[x] + Sum(A \ {x})
    OBVIOUS
  <2> DEFINE p == Pick(A)
  <2>1. p \in A BY PickIn
  <2>2. Sum(A) = f[p] + Sum(A \ {p}) BY <1>0, <1>9
  <2> HIDE DEF p
  <2>3. CASE x # p
    <3>1. Sum(A \ {p}) = f[x] + Sum((A \ {p}) \ {x}) BY <1>1, <2>1, <2>3
    <3>2. Sum(A \ {x}) = f[p] + Sum((A \ {x}) \ {p}) BY <1>1, <2>1, <2>3
    <3>6. (A \ {x}) \ {p} = (A \ {p}) \ {x} OBVIOUS
    <3>3. Sum((A \ {x}) \ {p}) = Sum((A \ {p}) \ {x}) BY <3>6, Zenon
    <3>4. Sum((A \ {p}) \ {x}) \in Int BY <1>0
    <3>5. f[x] \in Int /\ f[p] \in Int BY <2>1
    <3>. QED BY <2>2, <3>1, <3>2, <3>3, <3>4, <3>5
  <2>. QED BY <2>2, <2>3
<1>2. S \in T
  <2> HIDE DEF T
  <2>. QED BY <1>1, SubsetInduct
<1>. QED BY <1>2 DEF Sum

\* A sum with one summand more.
LEMMA SumAdd ==
  ASSUME NEW f, NEW S, IsFiniteSet(S), NEW y, y \notin S, \A x \in S \cup {y} : f[x] \in Int
  PROVE  SumFunctionOnSet(f, S \cup {y}) = f[y] + SumFunctionOnSet(f, S)
<1>1. IsFiniteSet(S \cup {y}) BY FS_AddElement
<1>2. (S \cup {y}) \ {y} = S OBVIOUS
<1>3. SumFunctionOnSet(f, S \cup {y}) = f[y] + SumFunctionOnSet(f, (S \cup {y}) \ {y})
  BY <1>1, SumRemove
<1>. QED BY <1>2, <1>3

\* Sums are monotonic in the summands.
LEMMA SumLe ==
  ASSUME NEW e, NEW f, NEW S, IsFiniteSet(S),
         \A x \in S : e[x] \in Int /\ f[x] \in Int /\ e[x] <= f[x]
  PROVE  SumFunctionOnSet(e, S) <= SumFunctionOnSet(f, S)
<1> DEFINE Sum(g, A) == SumFunctionOnSet(g, A)
           T == {A \in SUBSET S : Sum(e, A) <= Sum(f, A)}
<1>0. \A A \in SUBSET S : Sum(e, A) \in Int /\ Sum(f, A) \in Int /\ IsFiniteSet(A)
  BY FS_Subset, SumInt
<1>1. {} \in T
  <2>1. Sum(e, {}) = 0 /\ Sum(f, {}) = 0 BY SumStep
  <2>. QED BY <2>1
<1>2. ASSUME NEW A \in SUBSET S, NEW x \in S \ A, A \in T PROVE A \cup {x} \in T
  <2>1. Sum(e, A \cup {x}) = e[x] + Sum(e, A) BY <1>0, SumAdd
  <2>2. Sum(f, A \cup {x}) = f[x] + Sum(f, A) BY <1>0, SumAdd
  <2>3. Sum(e, A) \in Int /\ Sum(f, A) \in Int /\ Sum(e, A) <= Sum(f, A) BY <1>0, <1>2
  <2> HIDE DEF Sum
  <2>4. Sum(e, A \cup {x}) <= Sum(f, A \cup {x}) BY <2>1, <2>2, <2>3
  <2>. QED BY <2>4
<1>3. S \in T
  <2> HIDE DEF T
  <2>. QED BY <1>1, <1>2, SetInduct
<1>. QED BY <1>3

\* The sum over a disjoint union.
LEMMA SumUnion ==
  ASSUME NEW f, NEW R, NEW S, IsFiniteSet(R), IsFiniteSet(S), R \cap S = {},
         \A x \in R \cup S : f[x] \in Int
  PROVE  SumFunctionOnSet(f, R \cup S) = SumFunctionOnSet(f, R) + SumFunctionOnSet(f, S)
<1> DEFINE Sum(A) == SumFunctionOnSet(f, A)
           T == {A \in SUBSET S : Sum(R \cup A) = Sum(R) + Sum(A)}
<1>0. \A A \in SUBSET S :
        Sum(A) \in Int /\ IsFiniteSet(A) /\ IsFiniteSet(R \cup A) /\ Sum(R \cup A) \in Int
  BY FS_Subset, FS_Union, SumInt
<1>9. Sum(R) \in Int BY SumInt
<1>1. {} \in T
  <2>1. Sum({}) = 0 BY SumStep
  <2>. QED BY <1>9, <2>1
<1>2. ASSUME NEW A \in SUBSET S, NEW x \in S \ A, A \in T PROVE A \cup {x} \in T
  <2>1. Sum(A \cup {x}) = f[x] + Sum(A) BY <1>0, SumAdd
  <2>4. x \notin R \cup A /\ IsFiniteSet(R \cup A) BY <1>0
  <2>2. Sum((R \cup A) \cup {x}) = f[x] + Sum(R \cup A) BY <2>4, SumAdd
  <2>7. (R \cup A) \cup {x} = R \cup (A \cup {x}) OBVIOUS
  <2>3. Sum(A) \in Int /\ Sum(R \cup A) = Sum(R) + Sum(A) /\ f[x] \in Int BY <1>0, <1>2
  <2> HIDE DEF Sum
  <2>5. Sum((R \cup A) \cup {x}) = Sum(R \cup (A \cup {x})) BY <2>7, Zenon
  <2>6. Sum(R \cup (A \cup {x})) = Sum(R) + Sum(A \cup {x}) BY <1>9, <2>1, <2>2, <2>3, <2>5
  <2>. QED BY <2>6
<1>3. S \in T
  <2> HIDE DEF T
  <2>. QED BY <1>1, <1>2, SetInduct
<1>. QED BY <1>3

\* A sum of zeros.
LEMMA SumZero ==
  ASSUME NEW f, NEW S, IsFiniteSet(S), \A x \in S : f[x] = 0
  PROVE  SumFunctionOnSet(f, S) = 0
<1> DEFINE T == {A \in SUBSET S : SumFunctionOnSet(f, A) = 0}
<1>1. {} \in T
  <2>1. SumFunctionOnSet(f, {}) = 0
    BY SumStep
  <2>. QED
    BY <2>1
<1>2. ASSUME NEW A \in SUBSET S, NEW x \in S \ A, A \in T PROVE A \cup {x} \in T
  <2>1. IsFiniteSet(A)
    BY FS_Subset
  <2>2. SumFunctionOnSet(f, A \cup {x}) = f[x] + SumFunctionOnSet(f, A)
    BY <2>1, SumAdd
  <2>3. SumFunctionOnSet(f, A \cup {x}) = 0
    BY <1>2, <2>2
  <2>. QED
    BY <2>3
<1>3. S \in T
  <2> HIDE DEF T
  <2>. QED
    BY <1>1, <1>2, SetInduct
<1>. QED
  BY <1>3

\* Some of the summands of a sum of naturals make a smaller sum.
LEMMA SumPart ==
  ASSUME NEW e, NEW f, NEW S, IsFiniteSet(S), NEW A \in SUBSET S,
         \A x \in S : f[x] \in Nat, \A x \in A : e[x] \in Nat /\ e[x] <= f[x]
  PROVE  SumFunctionOnSet(e, A) <= SumFunctionOnSet(f, S)
<1>1. IsFiniteSet(A) /\ IsFiniteSet(S \ A)
  BY FS_Subset, FS_Difference
<1>2. S = A \cup (S \ A) /\ A \cap (S \ A) = {}
  OBVIOUS
<1>3. SumFunctionOnSet(f, A \cup (S \ A))
        = SumFunctionOnSet(f, A) + SumFunctionOnSet(f, S \ A)
  BY <1>1, SumUnion
<1>4. SumFunctionOnSet(f, S) = SumFunctionOnSet(f, A \cup (S \ A))
  BY <1>2, Zenon
<1>5. SumFunctionOnSet(e, A) <= SumFunctionOnSet(f, A)
  BY <1>1, SumLe
<1>6. /\ SumFunctionOnSet(f, S \ A) \in Nat /\ SumFunctionOnSet(f, A) \in Nat
      /\ SumFunctionOnSet(e, A) \in Nat
  BY <1>1, SumNat
<1>. QED
  BY <1>3, <1>4, <1>5, <1>6

\* A sum in which one summand changed.
LEMMA SumChange ==
  ASSUME NEW e, NEW f, NEW S, IsFiniteSet(S), NEW y \in S,
         \A x \in S : f[x] \in Int /\ e[x] \in Int, \A x \in S \ {y} : e[x] = f[x]
  PROVE  SumFunctionOnSet(e, S) = SumFunctionOnSet(f, S) + e[y] - f[y]
<1>1. IsFiniteSet(S \ {y})
  BY FS_RemoveElement
<1>2. SumFunctionOnSet(e, S \ {y}) = SumFunctionOnSet(f, S \ {y})
  BY <1>1, SumSame
<1>3. /\ SumFunctionOnSet(e, S) = e[y] + SumFunctionOnSet(e, S \ {y})
      /\ SumFunctionOnSet(f, S) = f[y] + SumFunctionOnSet(f, S \ {y})
  BY SumRemove
<1>4. SumFunctionOnSet(f, S \ {y}) \in Int
  BY <1>1, SumInt
<1>. QED
  BY <1>2, <1>3, <1>4

-----------------------------------------------------------------------------
(* Numbers *)

\* The least element of a set of naturals, the greatest of a bounded one.
LEMMA MinIs ==
  ASSUME NEW S \in SUBSET Nat, S # {}
  PROVE  Min(S) \in S /\ \A y \in S : Min(S) <= y
<1>1. \E x \in S : \A y \in S : x <= y
  BY LeastNat
<1>. QED BY <1>1 DEF Min

\* And the greatest.
LEMMA MaxIs ==
  ASSUME NEW n \in Nat, NEW S \in SUBSET (0..n), S # {}
  PROVE  Max(S) \in S /\ \A y \in S : Max(S) >= y
<1> DEFINE U == {n - x : x \in S}
<1>1. U \in SUBSET Nat /\ U # {}
  <2>1. \A x \in S : n - x \in Nat
    OBVIOUS
  <2>2. U # {}
    OBVIOUS
  <2>. QED BY <2>1, <2>2
<1>2. PICK u \in U : \A v \in U : u <= v
  <2> HIDE DEF U
  <2>. QED BY <1>1, LeastNat
<1>3. PICK x \in S : u = n - x
  BY <1>2
<1>4. ASSUME NEW y \in S PROVE x >= y
  <2>1. u <= n - y
    BY <1>2
  <2>. QED BY <1>3, <2>1
<1>5. \E z \in S : \A y \in S : z >= y
  BY <1>4
<1>. QED BY <1>5 DEF Max

\* The quotient, by the two inequalities that determine it.
LEMMA DivIs ==
  ASSUME NEW a \in Nat, NEW b \in Nat \ {0}
  PROVE  /\ a \div b \in Nat /\ b * (a \div b) <= a /\ a < b * (a \div b) + b
         /\ \A k \in Nat : b * k <= a => k <= a \div b
<1>1. a \div b \in Nat /\ b * (a \div b) <= a /\ a < b * (a \div b) + b
  BY SMT
<1> DEFINE q == a \div b
<1> HIDE DEF q
<1>2. ASSUME NEW k \in Nat, b * k <= a, q \in Nat, a < b * q + b PROVE k <= q
  <2> SUFFICES ASSUME k >= q + 1 PROVE FALSE
    BY <1>2
  <2>1. PICK e \in Nat : k = q + 1 + e
    <3>1. k - (q + 1) \in Nat /\ k = q + 1 + (k - (q + 1))
      BY <1>2
    <3>. QED BY <3>1
  <2>2. b * k = b * q + b + b * e
    BY <1>2, <2>1
  <2>3. b * e \in Nat /\ b * q \in Nat
    BY <1>2
  <2>. QED BY <1>2, <2>2, <2>3
<1>. QED BY <1>1, <1>2 DEF q

\* Multiplication keeps the order.
LEMMA Times ==
  ASSUME NEW a \in Int, NEW b \in Int, NEW c \in Nat
  PROVE  /\ a <= b => a * c <= b * c
         /\ a < b /\ c # 0 => a * c < b * c
<1>1. a <= b => (b - a) * c \in Nat
  OBVIOUS
<1>2. a < b /\ c # 0 => (b - a) * c \in Nat \ {0}
  OBVIOUS
<1>3. (b - a) * c = b * c - a * c /\ a * c \in Int /\ b * c \in Int
  OBVIOUS
<1>. QED BY <1>1, <1>2, <1>3

\* A common factor can be left out.
LEMMA Over ==
  ASSUME NEW a \in Int, NEW b \in Int, NEW c \in Nat \ {0}
  PROVE  /\ a * c <= b * c => a <= b
         /\ a * c < b * c => a < b
<1>1. b < a => b * c < a * c
  BY Times
<1>2. b <= a => b * c <= a * c
  BY Times
<1>3. a * c \in Int /\ b * c \in Int
  OBVIOUS
<1>. QED BY <1>1, <1>2, <1>3

\* The smaller of two numbers.
LEMMA MinOfTwo ==
  ASSUME NEW x \in Nat, NEW y \in Nat
  PROVE  Min({x, y}) = IF x <= y THEN x ELSE y
<1>1. {x, y} \in SUBSET Nat /\ {x, y} # {}
  OBVIOUS
<1>2. Min({x, y}) \in {x, y} /\ \A z \in {x, y} : Min({x, y}) <= z
  BY <1>1, MinIs
<1>. QED BY <1>2

-----------------------------------------------------------------------------
(* The figures of a source, and the allowance made of them *)

UserinfoType == [{"upload", "download", "total", "expire"} -> Int]

\* A reading: the figures of finitely many sources.
Measured(per) == IsFiniteSet(DOMAIN per) /\ \A s \in DOMAIN per : per[s] \in UserinfoType

\* The allowance of a reading.
Allowance(per, n) ==
  ComputeDailyAllowance(per, n).perDayRate + ComputeDailyAllowance(per, n).noExpiryRemaining

\* The days left, counted from the first second.
Days(ui, n) == Min({k \in 1..ui["expire"] : n + k * SecondsPerDay >= ui["expire"]})
\* A source's part of the day's allowance, as AllowanceLasts has it.
Share(ui, n) ==
  LET left == AtLeast(ui["total"] - Cumulative(ui), 0)
  IN  IF NoExpiry(ui) THEN left
      ELSE IF ui["expire"] <= n THEN 0
      ELSE Max({m \in 0..left : m * Days(ui, n) <= left})
Rate(ui, n) == Remaining(ui) \div DaysRemaining(ui, n)

\* The quotient, rounded up.
LEMMA CeilIs ==
  ASSUME NEW x \in Nat \ {0}, NEW b \in Nat \ {0}
  PROVE  /\ CeilDiv(x, b) \in 1..x /\ CeilDiv(x, b) * b >= x
         /\ \A k \in Nat : k * b >= x => k >= CeilDiv(x, b)
<1> DEFINE c == CeilDiv(x, b)
<1>1. x + b - 1 \in Nat
  OBVIOUS
<1>2. /\ c \in Nat /\ b * c <= x + b - 1 /\ x + b - 1 < b * c + b
      /\ \A k \in Nat : b * k <= x + b - 1 => k <= c
  BY <1>1, DivIs DEF CeilDiv
<1> HIDE DEF c
<1>3. b * c >= x /\ b * c = c * b /\ b * c \in Nat
  BY <1>2
<1>4. c # 0
  BY <1>3
<1>5. ASSUME NEW k \in Nat, k * b >= x PROVE k >= c
  <2> SUFFICES ASSUME c >= k + 1 PROVE FALSE
    BY <1>2
  <2>1. PICK e \in Nat : c = k + 1 + e
    <3>1. c - (k + 1) \in Nat /\ c = k + 1 + (c - (k + 1))
      BY <1>2
    <3>. QED BY <3>1
  <2>2. b * c = k * b + b + b * e /\ b * e \in Nat /\ k * b \in Nat
    BY <2>1
  <2>. QED BY <1>2, <1>5, <2>2
<1>6. c <= x
  <2>1. x * b = x + x * (b - 1) /\ x * (b - 1) \in Nat
    OBVIOUS
  <2>2. x * b >= x
    BY <2>1
  <2>. QED BY <1>5, <2>2
<1>. QED BY <1>2, <1>3, <1>4, <1>5, <1>6 DEF c

\* What a source contributes to the allowance is its share.
LEMMA ShareIs ==
  ASSUME NEW ui \in UserinfoType, NEW n \in Nat
  PROVE  /\ Share(ui, n) \in Nat
         /\ NoExpiry(ui) => Remaining(ui) = Share(ui, n)
         /\ Expired(ui, n) => Share(ui, n) = 0
         /\ ~NoExpiry(ui) /\ ~Expired(ui, n) => Rate(ui, n) = Share(ui, n)
<1> DEFINE left == AtLeast(ui["total"] - Cumulative(ui), 0)
           x == ui["expire"] - n
<1>1. /\ ui["total"] \in Int /\ ui["expire"] \in Int
      /\ ui["upload"] \in Int /\ ui["download"] \in Int
      /\ NoExpiry(ui) <=> ui["expire"] = 0
      /\ Expired(ui, n) <=> ui["expire"] # 0 /\ ui["expire"] <= n
  BY DEF UserinfoType, NoExpiry, Expired
<1>2. left \in Nat /\ Remaining(ui) = left
  BY <1>1 DEF Remaining, AtLeast, Cumulative
<1>3. CASE NoExpiry(ui) \/ Expired(ui, n)
  BY <1>1, <1>2, <1>3 DEF Share
<1>4. CASE ~NoExpiry(ui) /\ ~Expired(ui, n)
  <2> DEFINE K == {k \in 1..ui["expire"] : n + k * SecondsPerDay >= ui["expire"]}
             c == CeilDiv(x, SecondsPerDay)
             M == {m \in 0..left : m * c <= left}
  <2>1. x \in Nat \ {0} /\ x <= ui["expire"] /\ SecondsPerDay \in Nat \ {0} /\ ui["expire"] > n
    BY <1>1, <1>4, TrafficAssumption
  <2> HIDE DEF x
  <2>2. /\ c \in 1..x /\ c * SecondsPerDay >= x
        /\ \A k \in Nat : k * SecondsPerDay >= x => k >= c
    BY <2>1, CeilIs
  <2> HIDE DEF c
  <2>3. c \in K
    <3>1. c * SecondsPerDay \in Nat
      BY <2>1, <2>2
    <3>2. c \in 1..ui["expire"]
      BY <1>1, <2>1, <2>2
    <3>3. n + c * SecondsPerDay >= ui["expire"]
      BY <1>1, <2>2, <3>1 DEF x
    <3>. QED BY <3>2, <3>3
  <2>4. \A k \in K : k >= c
    <3> TAKE k \in K
    <3>1. k \in Nat /\ n + k * SecondsPerDay >= ui["expire"] /\ k * SecondsPerDay \in Nat
      BY <2>1
    <3>2. k * SecondsPerDay >= x
      BY <1>1, <3>1 DEF x
    <3>. QED BY <2>2, <3>1, <3>2
  <2>5. Days(ui, n) = c
    <3>1. K \in SUBSET Nat /\ K # {}
      BY <2>3
    <3>2. Days(ui, n) = Min(K)
      BY DEF Days
    <3> HIDE DEF K
    <3>3. Min(K) \in K /\ Min(K) <= c
      BY <2>3, <3>1, MinIs
    <3>4. c \in Nat
      BY <2>1, <2>2
    <3>5. Min(K) \in Nat
      BY <3>1, <3>3
    <3>6. Min(K) >= c
      BY <2>4, <3>3, Zenon
    <3>. QED BY <3>2, <3>3, <3>4, <3>5, <3>6
  <2>6. DaysRemaining(ui, n) = c
    BY <1>1, <2>2 DEF DaysRemaining, AtLeast, c, x
  <2>7. /\ left \div c \in Nat /\ c * (left \div c) <= left
        /\ \A k \in Nat : c * k <= left => k <= left \div c
    BY <1>2, <2>2, DivIs
  <2>8. left \div c \in M
    <3>1. left \div c <= left
      <4> DEFINE q == left \div c
      <4> HIDE DEF q
      <4>1. ASSUME q \in Nat, c * q <= left PROVE q <= left
        <5>1. c * q = q + (c - 1) * q /\ (c - 1) * q \in Nat
          BY <2>2, <4>1
        <5>. QED BY <1>2, <4>1, <5>1
      <4>. QED BY <2>7, <4>1 DEF q
    <3>2. (left \div c) * c = c * (left \div c)
      BY <2>2, <2>7
    <3> HIDE DEF left
    <3>. QED BY <1>2, <2>7, <3>1, <3>2
  <2>9. Max(M) = left \div c
    <3>1. M \in SUBSET (0..left) /\ M # {}
      BY <2>8
    <3>2. \A m \in M : m \in Nat /\ m <= left \div c
      <4> TAKE m \in M
      <4>1. m \in Nat /\ m * c <= left /\ m * c = c * m
        BY <1>2, <2>2
      <4>. QED BY <2>7, <4>1
    <3> HIDE DEF M, left
    <3>3. Max(M) \in M /\ Max(M) >= left \div c
      BY <1>2, <2>8, <3>1, MaxIs
    <3>4. Max(M) \in Nat /\ Max(M) <= left \div c
      BY <3>2, <3>3
    <3>. QED BY <2>7, <3>3, <3>4
  <2>10. Share(ui, n) = Max(M)
    BY <1>1, <1>4, <2>5 DEF Share
  <2>11. Rate(ui, n) = left \div c
    BY <1>2, <2>6 DEF Rate
  <2>. QED BY <1>4, <2>7, <2>9, <2>10, <2>11
<1>. QED BY <1>3, <1>4

\* The day's allowance is the sum of the shares.
LEMMA AllowanceIs ==
  ASSUME NEW per, Measured(per), NEW n \in Nat
  PROVE  /\ Allowance(per, n) = SumFunction([s \in DOMAIN per |-> Share(per[s], n)])
         /\ Allowance(per, n) \in Nat
<1> DEFINE names == DOMAIN per
           expired == {s \in names : Expired(per[s], n)}
           endless == {s \in names : NoExpiry(per[s])}
           running == names \ (expired \cup endless)
           f == [s \in names |-> Share(per[s], n)]
           rate == [s \in running |-> Remaining(per[s]) \div DaysRemaining(per[s], n)]
           rest == [s \in endless |-> Remaining(per[s])]
<1>1. /\ IsFiniteSet(names)
      /\ \A s \in names : per[s] \in UserinfoType
  BY DEF Measured
<1>2. IsFiniteSet(expired) /\ IsFiniteSet(endless) /\ IsFiniteSet(running)
  <2>1. expired \subseteq names /\ endless \subseteq names /\ running \subseteq names
    OBVIOUS
  <2>. QED BY <1>1, <2>1, FS_Subset
<1>3. \A s \in names : f[s] \in Nat
  BY <1>1, ShareIs
<1>4. \A s \in running : rate[s] = f[s]
  <2> TAKE s \in running
  <2>1. s \in names /\ ~NoExpiry(per[s]) /\ ~Expired(per[s], n) /\ per[s] \in UserinfoType
    BY <1>1
  <2>2. Rate(per[s], n) = Share(per[s], n)
    BY <2>1, ShareIs
  <2>. QED BY <2>1, <2>2 DEF Rate
<1>5. \A s \in endless : rest[s] = f[s]
  BY <1>1, ShareIs
<1>6. \A s \in expired : f[s] = 0
  BY <1>1, ShareIs
<1>7. Allowance(per, n) = SumFunction(rate) + SumFunction(rest)
  BY DEF Allowance, ComputeDailyAllowance
<1>8. /\ DOMAIN rate = running /\ DOMAIN rest = endless /\ DOMAIN f = names
      /\ SumFunction(rate) = SumFunctionOnSet(rate, DOMAIN rate)
      /\ SumFunction(rest) = SumFunctionOnSet(rest, DOMAIN rest)
      /\ SumFunction(f) = SumFunctionOnSet(f, DOMAIN f)
  BY Zenon DEF SumFunction
<1>9. /\ running \cap endless = {} /\ (running \cup endless) \cap expired = {}
      /\ names = (running \cup endless) \cup expired
      /\ running \subseteq names /\ endless \subseteq names
  <2>1. \A s \in names : ~(NoExpiry(per[s]) /\ Expired(per[s], n))
    BY DEF Expired
  <2>. QED BY <2>1
<1> HIDE DEF names, expired, endless, running, f, rate, rest
<1>10. SumFunctionOnSet(rate, running) = SumFunctionOnSet(f, running)
  BY <1>2, <1>4, SumSame
<1>11. SumFunctionOnSet(rest, endless) = SumFunctionOnSet(f, endless)
  BY <1>2, <1>5, SumSame
<1>12. SumFunctionOnSet(f, expired) = 0
  BY <1>2, <1>6, SumZero
<1>13. \A s \in names : f[s] \in Int
  BY <1>3
<1>14. SumFunctionOnSet(f, running \cup endless)
         = SumFunctionOnSet(f, running) + SumFunctionOnSet(f, endless)
  BY <1>2, <1>9, <1>13, SumUnion
<1>15. IsFiniteSet(running \cup endless)
  BY <1>2, FS_Union
<1>16. SumFunctionOnSet(f, (running \cup endless) \cup expired)
         = SumFunctionOnSet(f, running \cup endless) + SumFunctionOnSet(f, expired)
  BY <1>2, <1>9, <1>13, <1>15, SumUnion
<1>17. SumFunctionOnSet(f, names) = SumFunctionOnSet(f, (running \cup endless) \cup expired)
  BY <1>9, Zenon
<1>18. SumFunctionOnSet(f, names) \in Nat
  BY <1>1, <1>3, SumNat
<1>19. SumFunctionOnSet(f, running) \in Int /\ SumFunctionOnSet(f, endless) \in Int
  <2>1. \A s \in running \cup endless : f[s] \in Int
    BY <1>9, <1>13
  <2>. QED BY <1>2, <2>1, SumInt
<1>20. /\ SumFunction(rate) = SumFunctionOnSet(f, running)
       /\ SumFunction(rest) = SumFunctionOnSet(f, endless)
       /\ SumFunction(f) = SumFunctionOnSet(f, names)
  BY <1>8, <1>10, <1>11, Zenon
<1>21. Allowance(per, n) = SumFunctionOnSet(f, names)
  BY <1>7, <1>12, <1>14, <1>16, <1>17, <1>18, <1>19, <1>20
<1>. QED BY <1>18, <1>20, <1>21 DEF f, names

-----------------------------------------------------------------------------
(* Sums of fractions *)

\* g[A] is the sum of the fractions f of A, for the sets A in D.
FractionsUpTo(f, D, g) ==
  g = [A \in D |-> IF A = {} THEN [n |-> 0, d |-> 1]
                   ELSE AddFractions(f[Pick(A)], g[A \ {Pick(A)}])]

\* On a finite set there is such a function.
LEMMA FractionsExist ==
  ASSUME NEW f, NEW S, IsFiniteSet(S)
  PROVE  \E g : FractionsUpTo(f, SUBSET S, g)
<1> DEFINE D(n) == {A \in SUBSET S : Cardinality(A) <= n}
           U == {n \in Nat : \E g : FractionsUpTo(f, D(n), g)}
<1>0. \A A \in SUBSET S : IsFiniteSet(A) /\ Cardinality(A) \in Nat
                          /\ Cardinality(A) <= Cardinality(S)
  BY FS_Subset, FS_CardinalityType
<1>1. 0 \in U
  <2>1. D(0) = {{}}
    BY <1>0, FS_EmptySet
  <2>2. FractionsUpTo(f, D(0), [A \in D(0) |-> [n |-> 0, d |-> 1]])
    BY <2>1 DEF FractionsUpTo
  <2>. QED BY <2>2
<1>2. ASSUME NEW n \in Nat, n \in U PROVE n + 1 \in U
  <2>1. PICK g : FractionsUpTo(f, D(n), g)
    BY <1>2
  <2> DEFINE h == [A \in D(n + 1) |-> IF A \in D(n) THEN g[A]
                                      ELSE AddFractions(f[Pick(A)], g[A \ {Pick(A)}])]
  <2>2. ASSUME NEW A \in D(n + 1), A # {}
        PROVE  Pick(A) \in A /\ A \ {Pick(A)} \in D(n) /\ A \ {Pick(A)} \in D(n + 1)
    <3>1. Pick(A) \in A
      BY <2>2, PickIn
    <3>2. Cardinality(A \ {Pick(A)}) = Cardinality(A) - 1
      BY <3>1, <1>0, FS_RemoveElement
    <3>. QED BY <3>1, <3>2, <1>0
  <2>3. ASSUME NEW A \in D(n + 1)
        PROVE  h[A] = IF A = {} THEN [n |-> 0, d |-> 1]
                      ELSE AddFractions(f[Pick(A)], h[A \ {Pick(A)}])
    <3>1. CASE A \in D(n)
      <4>1. g[A] = IF A = {} THEN [n |-> 0, d |-> 1]
                   ELSE AddFractions(f[Pick(A)], g[A \ {Pick(A)}])
        BY <2>1, <3>1 DEF FractionsUpTo
      <4>2. A # {} => h[A \ {Pick(A)}] = g[A \ {Pick(A)}]
        <5> HIDE DEF D
        <5>. QED BY <2>2
      <4>3. h[A] = g[A]
        BY <3>1
      <4> HIDE DEF h, D
      <4>. QED BY <4>1, <4>2, <4>3
    <3>2. CASE A \notin D(n)
      <4>1. A # {}
        BY <3>2, <1>0, FS_EmptySet
      <4>2. A \ {Pick(A)} \in D(n) /\ A \ {Pick(A)} \in D(n + 1)
        BY <2>2, <4>1
      <4> HIDE DEF D
      <4>. QED BY <3>2, <4>1, <4>2
    <3>. QED BY <3>1, <3>2
  <2>4. h = [A \in D(n + 1) |-> h[A]]
    OBVIOUS
  <2>5. FractionsUpTo(f, D(n + 1), h)
    <3> HIDE DEF h, D
    <3>. QED BY <2>3, <2>4 DEF FractionsUpTo
  <2> HIDE DEF D, h
  <2>. QED BY <2>5
<1>3. Nat \subseteq U
  <2> HIDE DEF U
  <2>. QED BY <1>1, <1>2, NatInduct
<1>4. Cardinality(S) \in U
  BY <1>0, <1>3
<1>5. D(Cardinality(S)) = SUBSET S
  BY <1>0
<1>. QED BY <1>4, <1>5

\* The sum of fractions that SplitUsedToday takes is the last of these.
LEMMA FractionsFold ==
  ASSUME NEW f, IsFiniteSet(DOMAIN f)
  PROVE  \E g : /\ FractionsUpTo(f, SUBSET DOMAIN f, g)
                /\ FoldFunction(AddFractions, [n |-> 0, d |-> 1], f) = g[DOMAIN f]
<1> DEFINE G == CHOOSE g : FractionsUpTo(f, SUBSET DOMAIN f, g)
<1>1. FoldFunction(AddFractions, [n |-> 0, d |-> 1], f) = G[DOMAIN f]
  BY DEF FoldFunction, FoldFunctionOnSet, MapThenFoldSet, FractionsUpTo, Pick
<1>2. FractionsUpTo(f, SUBSET DOMAIN f, G)
  BY FractionsExist
<1>. QED BY <1>1, <1>2

\* f[s] is the ratio r[s] with the weight w[s], g[A] their sum over A.
Weighs(S, w, r, f, g) ==
  /\ IsFiniteSet(S) /\ w \in [S -> Nat \ {0}] /\ r \in [S -> [n : Nat, d : Nat \ {0}]]
  /\ \A s \in S : f[s] = [n |-> w[s] * r[s].n, d |-> r[s].d]
  /\ FractionsUpTo(f, SUBSET S, g)

\* A sum of weighted ratios lies on the side of a line on which all of the
\* ratios lie.
LEMMA WeightedSide ==
  ASSUME NEW S, NEW w, NEW r, NEW f, NEW g, Weighs(S, w, r, f, g),
         NEW X \in Int, NEW Y \in Int, \A s \in S : X * r[s].d < Y * r[s].n
  PROVE  /\ g[S].n \in Nat /\ g[S].d \in Nat \ {0}
         /\ S # {} => X * SumFunctionOnSet(w, S) * g[S].d < Y * g[S].n
<1> USE DEF Weighs
<1> DEFINE Sum(A) == SumFunctionOnSet(w, A)
           T == {A \in SUBSET S : /\ g[A].n \in Nat /\ g[A].d \in Nat \ {0}
                                  /\ X * Sum(A) * g[A].d <= Y * g[A].n
                                  /\ A # {} => X * Sum(A) * g[A].d < Y * g[A].n}
<1>1. ASSUME NEW A \in SUBSET S, \A x \in A : A \ {x} \in T PROVE A \in T
  <2>1. IsFiniteSet(A)
    BY FS_Subset
  <2>2. CASE A = {}
    <3>1. Sum(A) = 0
      BY <2>1, <2>2, SumStep
    <3>2. g[A] = [n |-> 0, d |-> 1]
      BY <2>2 DEF FractionsUpTo
    <3>3. g[A].n = 0 /\ g[A].d = 1
      BY <3>2
    <3> HIDE DEF Sum
    <3>. QED BY <2>2, <3>1, <3>3
  <2>3. CASE A # {}
    <3> DEFINE s == Pick(A)
               B == A \ {Pick(A)}
               a == w[s]
               p == r[s].n
               q == r[s].d
               D == Sum(B)
               m == g[B].n
               k == g[B].d
    <3>1. s \in A
      BY <2>3, PickIn
    <3>2. Sum(A) = a + D
      BY <2>1, <2>3, SumStep
    <3>3. B \in T
      BY <1>1, <3>1
    <3>4. D \in Nat
      <4>1. IsFiniteSet(B)
        BY <2>1, FS_RemoveElement
      <4>2. \A x \in B : w[x] \in Nat
        OBVIOUS
      <4> HIDE DEF B
      <4>. QED BY <4>1, <4>2, SumNat
    <3>5. g[A] = AddFractions(f[s], g[B])
      BY <2>3 DEF FractionsUpTo
    <3>6. r[s] \in [n : Nat, d : Nat \ {0}] /\ a \in Nat \ {0}
      BY <3>1
    <3>7. p \in Nat /\ q \in Nat \ {0}
      BY <3>6
    <3>8. m \in Nat /\ k \in Nat \ {0} /\ X * D * k <= Y * m
      BY <3>3
    <3>9. X * q < Y * p
      BY <3>1
    <3>10. g[A].n = a * p * k + m * q /\ g[A].d = q * k
      <4>1. f[s] = [n |-> a * p, d |-> q]
        BY <3>1
      <4>2. f[s].n = a * p /\ f[s].d = q
        BY <4>1
      <4>3. g[A].n = f[s].n * g[B].d + g[B].n * f[s].d /\ g[A].d = f[s].d * g[B].d
        BY <3>5 DEF AddFractions
      <4>. QED BY <4>2, <4>3
    <3> HIDE DEF s, B, a, p, q, D, m, k, Sum
    <3>11. (X * D * k) * q <= (Y * m) * q
      BY <3>4, <3>7, <3>8, Times
    <3>12. (X * q) * (a * k) < (Y * p) * (a * k)
      <4>1. a * k \in Nat /\ a * k # 0
        BY <3>6, <3>8
      <4>2. X * q \in Int /\ Y * p \in Int
        BY <3>7
      <4> HIDE DEF Sum
      <4>. QED BY <3>9, <4>1, <4>2, Times
    <3>13. X * (a + D) * (q * k) = (X * D * k) * q + (X * q) * (a * k)
      BY <3>4, <3>6, <3>7, <3>8
    <3>14. Y * (a * p * k + m * q) = (Y * m) * q + (Y * p) * (a * k)
      BY <3>6, <3>7, <3>8
    <3>15. X * (a + D) * (q * k) < Y * (a * p * k + m * q)
      <4>1. /\ (X * D * k) * q \in Int /\ (Y * m) * q \in Int
            /\ (X * q) * (a * k) \in Int /\ (Y * p) * (a * k) \in Int
        BY <3>4, <3>6, <3>7, <3>8
      <4>. QED BY <3>11, <3>12, <3>13, <3>14, <4>1
    <3>16. a * p * k + m * q \in Nat /\ q * k \in Nat \ {0}
      BY <3>6, <3>7, <3>8
    <3>17. /\ g[A].n \in Nat /\ g[A].d \in Nat \ {0}
           /\ X * Sum(A) * g[A].d < Y * g[A].n
      BY <3>2, <3>10, <3>15, <3>16
    <3>18. X * Sum(A) * g[A].d \in Int /\ Y * g[A].n \in Int
      BY <3>2, <3>4, <3>6, <3>17
    <3>. QED BY <3>17, <3>18
  <2>. QED BY <2>2, <2>3
<1>2. S \in T
  <2> HIDE DEF T
  <2>. QED BY <1>1, SubsetInduct
<1>. QED BY <1>2 DEF Sum

-----------------------------------------------------------------------------
(* The snapshot of a day and what a later request makes of it *)

\* The snapshot that a first request with the figures p leaves.
Pinned(p, allowance, day) ==
  [localDate |-> day, allowanceToday |-> allowance,
   baselines |-> [s \in DOMAIN p |-> Cumulative(p[s])],
   uploadRatios |-> [s \in DOMAIN p |-> UploadRatio(p[s])]]

\* The ratio of a source: of counters that are not negative, between 0 and 1.
LEMMA RatioIs ==
  ASSUME NEW ui \in UserinfoType
  PROVE  /\ Cumulative(ui) = ui["upload"] + ui["download"] /\ Cumulative(ui) \in Int
         /\ UploadRatio(ui) \in [n : Int, d : Int]
         /\ ui["upload"] >= 0 /\ ui["download"] >= 0 =>
              /\ UploadRatio(ui) = [n |-> ui["upload"], d |-> AtLeast(Cumulative(ui), 1)]
              /\ ui["upload"] \in Nat /\ AtLeast(Cumulative(ui), 1) \in Nat \ {0}
              /\ ui["upload"] <= AtLeast(Cumulative(ui), 1)
<1>1. /\ ui["upload"] \in Int /\ ui["download"] \in Int
      /\ Cumulative(ui) = ui["upload"] + ui["download"]
  BY DEF UserinfoType, Cumulative
<1>2. UploadRatio(ui) = IF Cumulative(ui) > 0 THEN [n |-> ui["upload"], d |-> Cumulative(ui)]
                        ELSE [n |-> 0, d |-> 1]
  BY DEF UploadRatio
<1>. QED BY <1>1, <1>2 DEF AtLeast

\* It can be loaded again, if the counters were not negative.
LEMMA PinnedLoads ==
  ASSUME NEW p, Measured(p), NEW a, NEW day
  PROVE  /\ Pinned(p, a, day).localDate = day /\ Pinned(p, a, day).allowanceToday = a
         /\ Pinned(p, a, day).baselines \in [DOMAIN p -> Int]
         /\ Pinned(p, a, day).uploadRatios \in [DOMAIN p -> [n : Int, d : Int]]
         /\ Counted(p) /\ a \in Nat => ValidSnapshot(Pinned(p, a, day))
<1> DEFINE snap == Pinned(p, a, day)
<1>1. \A s \in DOMAIN p : p[s] \in UserinfoType
  BY DEF Measured
<1>2. /\ snap.localDate = day /\ snap.allowanceToday = a
      /\ snap.baselines = [s \in DOMAIN p |-> Cumulative(p[s])]
      /\ snap.uploadRatios = [s \in DOMAIN p |-> UploadRatio(p[s])]
  BY DEF Pinned
<1>3. [s \in DOMAIN p |-> Cumulative(p[s])] \in [DOMAIN p -> Int]
  BY <1>1, RatioIs
<1>4. [s \in DOMAIN p |-> UploadRatio(p[s])] \in [DOMAIN p -> [n : Int, d : Int]]
  BY <1>1, RatioIs
<1>5. ASSUME Counted(p), a \in Nat PROVE ValidSnapshot(snap)
  <2>1. ASSUME NEW s \in DOMAIN p
        PROVE  0 <= UploadRatio(p[s]).n /\ UploadRatio(p[s]).n <= UploadRatio(p[s]).d
    <3>1. p[s] \in UserinfoType /\ p[s]["upload"] >= 0 /\ p[s]["download"] >= 0
      BY <1>1, <1>5 DEF Counted
    <3>2. /\ UploadRatio(p[s]) = [n |-> p[s]["upload"], d |-> AtLeast(Cumulative(p[s]), 1)]
          /\ p[s]["upload"] \in Nat /\ p[s]["upload"] <= AtLeast(Cumulative(p[s]), 1)
      BY <3>1, RatioIs
    <3>. QED BY <3>2
  <2>. QED BY <1>2, <1>5, <2>1 DEF ValidSnapshot
<1>. QED BY <1>2, <1>3, <1>4, <1>5

\* How much the source s used since the first request.
Grew(per, p, s) == AtLeast(Cumulative(per[s]) - Cumulative(p[s]), 0)

\* What a request shows as used: the growth of the sources of both readings.
LEMMA UsedIs ==
  ASSUME NEW p, Measured(p), NEW per, Measured(per), NEW a, NEW day
  PROVE  LET used == ComputeUsedToday(per, Pinned(p, a, day))
             both == DOMAIN p \cap DOMAIN per
         IN  /\ IsFiniteSet(both) /\ \A s \in both : Grew(per, p, s) \in Nat
             /\ used = SumFunctionOnSet([s \in both |-> Grew(per, p, s)], both)
             /\ used \in Nat
             /\ per = p => used = 0
<1> DEFINE snap == Pinned(p, a, day)
           names == DOMAIN per
           both == DOMAIN p \cap DOMAIN per
           f == [s \in names |-> Delta(per, snap, s)]
           e == [s \in both |-> Grew(per, p, s)]
<1>1. /\ IsFiniteSet(names) /\ \A s \in names : per[s] \in UserinfoType
      /\ \A s \in DOMAIN p : p[s] \in UserinfoType
  BY DEF Measured
<1>2. both \subseteq names /\ IsFiniteSet(both) /\ IsFiniteSet(names \ both)
  BY <1>1, FS_Subset, FS_Difference
<1>3. ASSUME NEW s \in both
      PROVE  e[s] \in Nat /\ Grew(per, p, s) \in Nat /\ f[s] = e[s] /\ (per = p => e[s] = 0)
  <2>1. Cumulative(per[s]) \in Int /\ Cumulative(p[s]) \in Int
    BY <1>1, RatioIs
  <2>2. Grew(per, p, s) \in Nat /\ (per = p => Grew(per, p, s) = 0)
    BY <2>1 DEF Grew, AtLeast
  <2>3. Delta(per, snap, s) = Grew(per, p, s)
    BY DEF Delta, Pinned, Grew
  <2>. QED BY <2>2, <2>3
<1>4. ASSUME NEW s \in names \ both PROVE f[s] = 0
  BY DEF Delta, Pinned
<1>5. ComputeUsedToday(per, snap) = SumFunctionOnSet(f, names)
  <2>1. DOMAIN f = names /\ SumFunction(f) = SumFunctionOnSet(f, DOMAIN f)
    BY Zenon DEF SumFunction
  <2>. QED BY <2>1 DEF ComputeUsedToday
<1>6. names = both \cup (names \ both) /\ both \cap (names \ both) = {}
  OBVIOUS
<1> HIDE DEF names, both, f, e, snap
<1>7. \A s \in both \cup (names \ both) : f[s] \in Int
  BY <1>3, <1>4
<1>8. SumFunctionOnSet(f, both \cup (names \ both))
        = SumFunctionOnSet(f, both) + SumFunctionOnSet(f, names \ both)
  BY <1>2, <1>6, <1>7, SumUnion
<1>9. SumFunctionOnSet(f, names \ both) = 0
  BY <1>2, <1>4, SumZero
<1>10. SumFunctionOnSet(f, both) = SumFunctionOnSet(e, both)
  BY <1>2, <1>3, SumSame
<1>11. SumFunctionOnSet(e, both) \in Nat
  BY <1>2, <1>3, SumNat
<1>12. per = p => SumFunctionOnSet(e, both) = 0
  BY <1>2, <1>3, SumZero
<1>13. SumFunctionOnSet(f, names) = SumFunctionOnSet(f, both \cup (names \ both))
  BY <1>6, Zenon
<1>14. ComputeUsedToday(per, snap) = SumFunctionOnSet(e, both)
  BY <1>5, <1>8, <1>9, <1>10, <1>11, <1>13
<1>15. \A s \in both : Grew(per, p, s) \in Nat
  BY <1>3
<1>. QED BY <1>2, <1>11, <1>12, <1>14, <1>15 DEF both, e, snap

\* Rounding a fraction, by the two inequalities that determine the result.
LEMMA RoundIs ==
  ASSUME NEW x, x.n \in Nat, x.d \in Nat \ {0}
  PROVE  /\ Round(x) \in Nat
         /\ (2 * Round(x) - 1) * x.d <= 2 * x.n /\ 2 * x.n < (2 * Round(x) + 1) * x.d
<1> DEFINE n == x.n
           d == x.d
           R == (2 * n + d) \div (2 * d)
<1>1. 2 * n + d \in Nat /\ 2 * d \in Nat \ {0}
  OBVIOUS
<1>2. R \in Nat /\ (2 * d) * R <= 2 * n + d /\ 2 * n + d < (2 * d) * R + 2 * d
  <2> HIDE DEF n, d
  <2>. QED BY <1>1, DivIs
<1>3. Round(x) = R
  BY DEF Round
<1>4. n \in Nat /\ d \in Nat
  OBVIOUS
<1> HIDE DEF R, n, d
<1>5. (2 * R - 1) * d = (2 * d) * R - d /\ (2 * R + 1) * d = (2 * d) * R + d
  BY <1>2, <1>4
<1>6. (2 * R - 1) * d <= 2 * n /\ 2 * n < (2 * R + 1) * d
  <2>1. (2 * d) * R \in Int
    BY <1>2, <1>4
  <2>. QED BY <1>2, <1>4, <1>5, <2>1
<1>. QED BY <1>2, <1>3, <1>6 DEF n, d

\* The sources that grew since the first request, and by how much.
Grown(p, per) == {s \in DOMAIN p \cap DOMAIN per : Cumulative(per[s]) - Cumulative(p[s]) > 0}
Growths(p, per) == [s \in Grown(p, per) |-> Cumulative(per[s]) - Cumulative(p[s])]

\* Their growth makes up what is shown as used.
LEMMA GrownIs ==
  ASSUME NEW p, Measured(p), NEW per, Measured(per), NEW a, NEW day
  PROVE  /\ IsFiniteSet(Grown(p, per)) /\ Growths(p, per) \in [Grown(p, per) -> Nat \ {0}]
         /\ ComputeUsedToday(per, Pinned(p, a, day))
              = SumFunctionOnSet(Growths(p, per), Grown(p, per))
         /\ Grown(p, per) # {} => ComputeUsedToday(per, Pinned(p, a, day)) # 0
         /\ Grown(p, per) = {s \in DOMAIN per : Delta(per, Pinned(p, a, day), s) > 0}
         /\ \A s \in Grown(p, per) : Delta(per, Pinned(p, a, day), s) = Growths(p, per)[s]
<1> DEFINE snap == Pinned(p, a, day)
           used == ComputeUsedToday(per, snap)
           both == DOMAIN p \cap DOMAIN per
           grown == {s \in both : Cumulative(per[s]) - Cumulative(p[s]) > 0}
           w == [s \in grown |-> Cumulative(per[s]) - Cumulative(p[s])]
           e == [s \in both |-> Grew(per, p, s)]
<1>1. /\ IsFiniteSet(both) /\ used = SumFunctionOnSet(e, both)
      /\ \A s \in both : e[s] \in Nat
  BY UsedIs
<1>2. \A s \in both : Cumulative(per[s]) \in Int /\ Cumulative(p[s]) \in Int
  <2>1. \A s \in both : per[s] \in UserinfoType /\ p[s] \in UserinfoType
    BY DEF Measured
  <2>. QED BY <2>1, RatioIs
<1>3. grown \subseteq both /\ IsFiniteSet(grown) /\ IsFiniteSet(both \ grown)
  BY <1>1, FS_Subset, FS_Difference
<1>4. w \in [grown -> Nat \ {0}]
  BY <1>2
<1>5. \A s \in grown : e[s] = w[s]
  BY <1>2 DEF Grew, AtLeast
<1>6. \A s \in both \ grown : e[s] = 0
  BY <1>2 DEF Grew, AtLeast
<1>7. \A s \in both : Delta(per, snap, s) = e[s]
  BY DEF Delta, Pinned, Grew
<1>8. \A s \in DOMAIN per \ both : Delta(per, snap, s) = 0
  BY DEF Delta, Pinned
<1>9. grown = {s \in DOMAIN per : Delta(per, snap, s) > 0}
  <2>1. \A s \in grown : s \in DOMAIN per /\ Delta(per, snap, s) > 0
    <3> TAKE s \in grown
    <3>1. Delta(per, snap, s) = w[s] /\ w[s] \in Nat \ {0}
      BY <1>3, <1>4, <1>5, <1>7
    <3> HIDE DEF w
    <3>. QED BY <1>3, <3>1
  <2>2. \A s \in DOMAIN per : Delta(per, snap, s) > 0 => s \in grown
    BY <1>6, <1>7, <1>8
  <2> HIDE DEF grown, snap
  <2>. QED BY <2>1, <2>2
<1>10. \A s \in grown : Delta(per, snap, s) = w[s]
  BY <1>3, <1>5, <1>7
<1>11. both = grown \cup (both \ grown) /\ grown \cap (both \ grown) = {}
  BY <1>3
<1> HIDE DEF both, grown, w, e
<1>12. \A s \in grown \cup (both \ grown) : e[s] \in Int
  BY <1>1, <1>11
<1>13. SumFunctionOnSet(e, grown \cup (both \ grown))
         = SumFunctionOnSet(e, grown) + SumFunctionOnSet(e, both \ grown)
  BY <1>3, <1>11, <1>12, SumUnion
<1>14. SumFunctionOnSet(e, both \ grown) = 0
  BY <1>3, <1>6, SumZero
<1>15. SumFunctionOnSet(e, grown) = SumFunctionOnSet(w, grown)
  BY <1>3, <1>5, SumSame
<1>16. SumFunctionOnSet(e, both) = SumFunctionOnSet(e, grown \cup (both \ grown))
  BY <1>11, Zenon
<1>17. SumFunctionOnSet(w, grown) \in Nat
  BY <1>3, <1>4, SumNat
<1>18. used = SumFunctionOnSet(w, grown)
  BY <1>1, <1>13, <1>14, <1>15, <1>16, <1>17
<1>19. ASSUME grown # {} PROVE used # 0
  <2>1. PICK s \in grown : TRUE
    BY <1>19
  <2>2. SumFunctionOnSet(w, grown) = w[s] + SumFunctionOnSet(w, grown \ {s})
    BY <1>3, <1>4, SumRemove
  <2>3. IsFiniteSet(grown \ {s}) /\ \A x \in grown \ {s} : w[x] \in Nat
    BY <1>3, <1>4, FS_RemoveElement
  <2>4. SumFunctionOnSet(w, grown \ {s}) \in Nat
    BY <2>3, SumNat
  <2>5. w[s] \in Nat \ {0}
    BY <1>4
  <2>. QED BY <1>18, <2>2, <2>4, <2>5
<1>20. grown = Grown(p, per) /\ w = Growths(p, per)
  BY Zenon DEF grown, w, both, Grown, Growths
<1> HIDE DEF snap
<1>21. /\ IsFiniteSet(grown) /\ w \in [grown -> Nat \ {0}]
       /\ used = SumFunctionOnSet(w, grown)
       /\ grown # {} => used # 0
       /\ grown = {s \in DOMAIN per : Delta(per, snap, s) > 0}
       /\ \A s \in grown : Delta(per, snap, s) = w[s]
  BY <1>3, <1>4, <1>9, <1>10, <1>18, <1>19, Zenon
<1>. QED BY <1>20, <1>21, Zenon DEF snap

\* The split of what is shown as used: the two parts make up the whole, and
\* the upload part lies between the ratios of the sources that grew.
LEMMA SplitIs ==
  ASSUME NEW p, Measured(p), NEW per, Measured(per), Counted(p), NEW a, NEW day
  PROVE  LET snap   == Pinned(p, a, day)
             used   == ComputeUsedToday(per, snap)
             split  == SplitUsedToday(used, per, snap)
             u      == split.upload
             grown  == Grown(p, per)
             sum(s) == AtLeast(Cumulative(p[s]), 1)
         IN  /\ used \in Nat /\ u \in Nat /\ split.download = used - u
             /\ grown # {} =>
                  /\ \E s \in grown : (2 * u + 1) * sum(s) >= 2 * used * p[s]["upload"]
                  /\ \E s \in grown : (2 * u - 1) * sum(s) <= 2 * used * p[s]["upload"]
<1> DEFINE snap == Pinned(p, a, day)
           used == ComputeUsedToday(per, snap)
           split == SplitUsedToday(used, per, snap)
           u == split.upload
           grown == Grown(p, per)
           w == Growths(p, per)
           growing == {s \in DOMAIN per : Delta(per, snap, s) > 0}
           sum(s) == AtLeast(Cumulative(p[s]), 1)
           r == [s \in grown |-> [n |-> p[s]["upload"], d |-> sum(s)]]
           f == [s \in growing |-> [n |-> Delta(per, snap, s) * snap.uploadRatios[s].n,
                                    d |-> snap.uploadRatios[s].d]]
           W == FoldFunction(AddFractions, [n |-> 0, d |-> 1], f)
<1>1. /\ IsFiniteSet(grown) /\ w \in [grown -> Nat \ {0}]
      /\ used = SumFunctionOnSet(w, grown)
      /\ grown # {} => used # 0
      /\ grown = growing
      /\ \A s \in grown : Delta(per, snap, s) = w[s]
  <2>1. IsFiniteSet(grown) /\ w \in [grown -> Nat \ {0}]
    BY GrownIs
  <2>2. used = SumFunctionOnSet(w, grown)
    BY GrownIs
  <2>3. grown # {} => used # 0
    BY GrownIs
  <2>4. grown = growing
    BY GrownIs
  <2>5. \A s \in grown : Delta(per, snap, s) = w[s]
    BY GrownIs
  <2> HIDE DEF grown, growing, w, used, snap
  <2>. QED BY <2>1, <2>2, <2>3, <2>4, <2>5
<1>2. used \in Nat
  BY UsedIs
<1>3. \A s \in grown : /\ snap.uploadRatios[s] = [n |-> p[s]["upload"], d |-> sum(s)]
                       /\ p[s]["upload"] \in Nat /\ sum(s) \in Nat \ {0}
                       /\ p[s]["upload"] <= sum(s)
  <2> TAKE s \in grown
  <2>1. p[s] \in UserinfoType /\ p[s]["upload"] >= 0 /\ p[s]["download"] >= 0
    BY DEF Counted, Grown, Measured
  <2>2. snap.uploadRatios[s] = UploadRatio(p[s])
    BY DEF Pinned, Grown
  <2>. QED BY <2>1, <2>2, RatioIs
<1> HIDE DEF sum
<1>4. u = (IF used <= 0 THEN 0 ELSE Min({AtLeast(Round(W), 0), used}))
      /\ split.download = AtLeast(used, 0) - u
  BY DEF SplitUsedToday
<1>5. r \in [grown -> [n : Nat, d : Nat \ {0}]]
      /\ \A s \in grown : r[s].n = p[s]["upload"] /\ r[s].d = sum(s)
  BY <1>3
<1>6. \A s \in grown : f[s] = [n |-> w[s] * r[s].n, d |-> r[s].d]
  <2> TAKE s \in grown
  <2>1. s \in growing /\ Delta(per, snap, s) = w[s]
    BY <1>1
  <2>2. snap.uploadRatios[s].n = r[s].n /\ snap.uploadRatios[s].d = r[s].d
    BY <1>3, <1>5
  <2>3. f[s] = [n |-> Delta(per, snap, s) * snap.uploadRatios[s].n, d |-> snap.uploadRatios[s].d]
    BY <2>1
  <2>. QED BY <2>1, <2>2, <2>3
<1>7. DOMAIN f = grown
  BY <1>1
<1> HIDE DEF f
<1>8. PICK g : FractionsUpTo(f, SUBSET grown, g) /\ W = g[grown]
  <2>1. IsFiniteSet(DOMAIN f)
    BY <1>1, <1>7, Zenon
  <2>2. \E g : FractionsUpTo(f, SUBSET DOMAIN f, g) /\ W = g[DOMAIN f]
    BY <2>1, FractionsFold
  <2>. QED BY <1>7, <2>2, Zenon
<1> HIDE DEF W, grown, growing, w, r, snap, used, split, u
<1>9. ASSUME NEW X \in Int, NEW Y \in Int, \A s \in grown : X * sum(s) < Y * p[s]["upload"]
      PROVE  /\ W.n \in Nat /\ W.d \in Nat \ {0}
             /\ grown # {} => X * used * W.d < Y * W.n
  <2>1. \A s \in grown : X * r[s].d < Y * r[s].n
    BY <1>5, <1>9, Zenon
  <2>3. Weighs(grown, w, r, f, g)
    BY <1>1, <1>5, <1>6, <1>8, Zenon DEF Weighs
  <2>2. /\ g[grown].n \in Nat /\ g[grown].d \in Nat \ {0}
        /\ grown # {} => X * SumFunctionOnSet(w, grown) * g[grown].d < Y * g[grown].n
    BY <2>1, <2>3, WeightedSide
  <2>. QED BY <1>1, <1>8, <2>2, Zenon
<1>10. W.n \in Nat /\ W.d \in Nat \ {0}
  <2>1. \A s \in grown : (-1) * sum(s) < 0 * p[s]["upload"]
    <3> TAKE s \in grown
    <3>1. p[s]["upload"] \in Nat /\ sum(s) \in Nat \ {0}
      BY <1>3
    <3>. QED BY <3>1
  <2>2. -1 \in Int /\ 0 \in Int
    OBVIOUS
  <2>. QED BY <1>9, <2>1, <2>2
<1> DEFINE R == Round(W)
<1>11. /\ R \in Nat
       /\ (2 * R - 1) * W.d <= 2 * W.n /\ 2 * W.n < (2 * R + 1) * W.d
  BY <1>10, RoundIs
<1> HIDE DEF R
<1>12. u = IF used = 0 THEN 0 ELSE IF R <= used THEN R ELSE used
  <2>1. AtLeast(R, 0) = R
    BY <1>11 DEF AtLeast
  <2>2. Min({R, used}) = IF R <= used THEN R ELSE used
    BY <1>2, <1>11, MinOfTwo
  <2>. QED BY <1>2, <1>4, <2>1, <2>2 DEF R
<1>13. u \in Nat /\ u <= R /\ (u = R \/ u = used)
  BY <1>2, <1>11, <1>12
<1>14. split.download = used - u
  BY <1>2, <1>4 DEF AtLeast
<1>15. ASSUME grown # {} PROVE \E s \in grown : (2 * u + 1) * sum(s) >= 2 * used * p[s]["upload"]
  <2> SUFFICES ASSUME \A s \in grown : ~((2 * u + 1) * sum(s) >= 2 * used * p[s]["upload"])
               PROVE  FALSE
    OBVIOUS
  <2>1. \A s \in grown : (2 * u + 1) * sum(s) < (2 * used) * p[s]["upload"]
    <3> TAKE s \in grown
    <3>3. p[s]["upload"] \in Nat /\ sum(s) \in Nat
      BY <1>3
    <3>1. (2 * u + 1) * sum(s) \in Int /\ 2 * used * p[s]["upload"] \in Int
      BY <1>2, <1>13, <3>3
    <3>. QED BY <3>1
  <2>2. (2 * u + 1) * used * W.d < (2 * used) * W.n
    BY <1>2, <1>9, <1>13, <1>15, <2>1
  <2>3. used \in Nat \ {0} /\ W.d \in Nat \ {0} /\ W.n \in Nat
    BY <1>1, <1>2, <1>10, <1>15
  <2>4. ((2 * u + 1) * W.d) * used < (2 * W.n) * used
    BY <1>13, <2>2, <2>3
  <2>5. (2 * u + 1) * W.d \in Int /\ 2 * W.n \in Int
    BY <1>13, <2>3
  <2>6. (2 * u + 1) * W.d < 2 * W.n
    BY <2>3, <2>4, <2>5, Over
  <2>7. (2 * u + 1) * W.d < (2 * R + 1) * W.d
    <3>1. (2 * R + 1) * W.d \in Int
      BY <1>11, <2>3
    <3>. QED BY <1>11, <2>5, <2>6, <3>1
  <2>8. 2 * u + 1 < 2 * R + 1
    <3>1. 2 * u + 1 \in Int /\ 2 * R + 1 \in Int
      BY <1>11, <1>13
    <3>. QED BY <2>3, <2>7, <3>1, Over
  <2>9. u = used
    BY <1>11, <1>13, <2>8
  <2>10. PICK s \in grown : TRUE
    BY <1>15
  <2>11. /\ p[s]["upload"] \in Nat /\ sum(s) \in Nat \ {0} /\ p[s]["upload"] <= sum(s)
         /\ (2 * used + 1) * sum(s) < (2 * used) * p[s]["upload"]
    BY <1>3, <2>1, <2>9, <2>10
  <2>12. p[s]["upload"] * (2 * used) <= sum(s) * (2 * used)
    BY <1>2, <2>11, Times
  <2>13. /\ (2 * used + 1) * sum(s) = sum(s) * (2 * used) + sum(s)
         /\ (2 * used) * p[s]["upload"] = p[s]["upload"] * (2 * used)
    BY <1>2, <2>11
  <2>14. sum(s) * (2 * used) \in Int /\ p[s]["upload"] * (2 * used) \in Int
    BY <1>2, <2>11
  <2>. QED BY <2>11, <2>12, <2>13, <2>14
<1>16. ASSUME grown # {} PROVE \E s \in grown : (2 * u - 1) * sum(s) <= 2 * used * p[s]["upload"]
  <2> SUFFICES ASSUME \A s \in grown : ~((2 * u - 1) * sum(s) <= 2 * used * p[s]["upload"])
               PROVE  FALSE
    OBVIOUS
  <2>1. \A s \in grown : (1 - 2 * u) * sum(s) < (-(2 * used)) * p[s]["upload"]
    <3> TAKE s \in grown
    <3>3. p[s]["upload"] \in Nat /\ sum(s) \in Nat
      BY <1>3
    <3>1. (2 * u - 1) * sum(s) \in Int /\ 2 * used * p[s]["upload"] \in Int
      BY <1>2, <1>13, <3>3
    <3>2. /\ (1 - 2 * u) * sum(s) = -((2 * u - 1) * sum(s))
          /\ (-(2 * used)) * p[s]["upload"] = -(2 * used * p[s]["upload"])
      BY <1>2, <1>13, <3>3
    <3>. QED BY <3>1, <3>2
  <2>2. (1 - 2 * u) * used * W.d < (-(2 * used)) * W.n
    <3>1. 1 - 2 * u \in Int /\ -(2 * used) \in Int
      BY <1>2, <1>13
    <3>. QED BY <1>9, <1>16, <2>1, <3>1
  <2>3. used \in Nat \ {0} /\ W.d \in Nat \ {0} /\ W.n \in Nat
    BY <1>1, <1>2, <1>10, <1>16
  <2>4. (2 * W.n) * used < ((2 * u - 1) * W.d) * used
    <3>1. /\ (1 - 2 * u) * used * W.d = -(((2 * u - 1) * W.d) * used)
          /\ (-(2 * used)) * W.n = -((2 * W.n) * used)
          /\ ((2 * u - 1) * W.d) * used \in Int /\ (2 * W.n) * used \in Int
      BY <1>13, <2>3
    <3>. QED BY <2>2, <3>1
  <2>5. (2 * u - 1) * W.d \in Int /\ 2 * W.n \in Int /\ (2 * R - 1) * W.d \in Int
    BY <1>11, <1>13, <2>3
  <2>6. 2 * W.n < (2 * u - 1) * W.d
    BY <2>3, <2>4, <2>5, Over
  <2>7. (2 * R - 1) * W.d < (2 * u - 1) * W.d
    BY <1>11, <2>5, <2>6
  <2>8. 2 * R - 1 < 2 * u - 1
    <3>1. 2 * R - 1 \in Int /\ 2 * u - 1 \in Int
      BY <1>11, <1>13
    <3>. QED BY <2>3, <2>7, <3>1, Over
  <2>. QED BY <1>11, <1>13, <2>8
<1>. QED BY <1>2, <1>13, <1>14, <1>15, <1>16 DEF grown, snap, used, split, u, sum

\* The header of a request, for the snapshot it goes by.
LEMMA ComposeIs ==
  ASSUME NEW per, NEW loaded, NEW n
  PROVE  LET snap == NewSnapshot(per, loaded, n)
             used == ComputeUsedToday(per, snap)
             h    == Compose(per, loaded, n)
         IN  /\ h.allowance = snap.allowanceToday /\ h.total = snap.allowanceToday + used
             /\ h.split = SplitUsedToday(used, per, snap)
BY DEF Compose

\* The snapshot a request goes by: after a rollover one that pins its own
\* figures, otherwise the one it loaded.
LEMMA SnapshotIs ==
  ASSUME NEW per, NEW loaded, NEW n
  PROVE  /\ IsRolloverNeeded(loaded, n) =>
              NewSnapshot(per, loaded, n) = Pinned(per, Allowance(per, n), LocalDate(n))
         /\ ~IsRolloverNeeded(loaded, n) => NewSnapshot(per, loaded, n) = loaded
BY DEF NewSnapshot, CaptureSnapshot, Pinned, Allowance

\* The day of a later moment is not an earlier day.
LEMMA DaysPass ==
  ASSUME NEW m \in Nat, NEW n \in Nat, m <= n
  PROVE  LocalDate(m) \in Nat /\ LocalDate(n) \in Nat /\ LocalDate(m) <= LocalDate(n)
<1>1. SecondsPerDay \in Nat \ {0}
  BY TrafficAssumption
<1> DEFINE b == SecondsPerDay
           q == m \div b
<1>2. q \in Nat /\ b * q <= m /\ n \div b \in Nat /\ \A k \in Nat : b * k <= n => k <= n \div b
  BY <1>1, DivIs
<1>3. b * q \in Nat
  BY <1>1, <1>2
<1> HIDE DEF q, b
<1>4. q <= n \div b
  <2>1. b * q <= n
    BY <1>2, <1>3
  <2>. QED BY <1>2, <2>1
<1>. QED BY <1>2, <1>4 DEF LocalDate, q, b

-----------------------------------------------------------------------------
(* Reordering the fields of a mapping, for every mapping whose keys are    *)
(* different: no pair is lost, doubled or changed, and the layout is the   *)
(* documented one.  The argument is one lemma about a single move (a move  *)
(* is a transposition that leaves alone what earlier moves have placed),   *)
(* applied once for each call of moveFieldToPosition.                      *)

(* The first n keys of order stand at the first n places of m.             *)
Placed(m, order, n) == n <= Len(m) /\ \A k \in 1..n : m[k].key = order[k]

(* At finds the place of a key that is there.                              *)
LEMMA AtFinds ==
  ASSUME NEW P, NEW m \in Seq(P), DistinctKeys(m), NEW key, key \in Keys(m)
  PROVE  At(m, key) \in DOMAIN m /\ m[At(m, key)].key = key
<1>1. PICK i \in DOMAIN m : m[i].key = key
  BY DEF Keys
<1>2. \A j \in DOMAIN m : m[j].key = key => i <= j
  <2>1. i \in Nat
    BY <1>1
  <2> QED
    BY <1>1, <2>1 DEF DistinctKeys
<1> QED
  BY <1>1, <1>2 DEF At

(* A transposition keeps the pairs and the keys' being different.          *)
LEMMA SwapKeeps ==
  ASSUME NEW P, NEW m \in Seq(P), DistinctKeys(m),
         NEW i \in DOMAIN m, NEW j \in DOMAIN m
  PROVE  Swap(m, i, j) \in Seq(P) /\ SamePairs(m, Swap(m, i, j))
<1> DEFINE r == Swap(m, i, j)
<1>1. DOMAIN m = 1..Len(m) /\ Len(m) \in Nat
  OBVIOUS
<1>2. DOMAIN r = DOMAIN m
  BY DEF Swap
<1>3. r[i] = m[j] /\ r[j] = m[i]
  BY DEF Swap
<1>4. \A k \in DOMAIN m : k # i /\ k # j => r[k] = m[k]
  BY DEF Swap
<1>5. r \in [1..Len(m) -> P]
  BY <1>1 DEF Swap
<1> HIDE DEF r
<1>6. r \in Seq(P) /\ Len(r) = Len(m)
  BY <1>1, <1>5
<1>7. Pairs(r) \subseteq Pairs(m)
  BY <1>2, <1>3, <1>4, Zenon DEF Pairs
<1>8. Pairs(m) \subseteq Pairs(r)
  BY <1>2, <1>3, <1>4, Zenon DEF Pairs
<1>9. DistinctKeys(r)
  <2> SUFFICES ASSUME NEW k \in DOMAIN m, NEW l \in DOMAIN m, r[k].key = r[l].key
               PROVE  k = l
    BY <1>2 DEF DistinctKeys
  <2> DEFINE From(x) == IF x = i THEN j ELSE IF x = j THEN i ELSE x
  <2>1. \A x \in DOMAIN m : From(x) \in DOMAIN m /\ r[x] = m[From(x)]
    BY <1>3, <1>4
  <2>2. From(k) = From(l)
    BY <2>1 DEF DistinctKeys
  <2> QED
    BY <2>2
<1> QED
  BY <1>6, <1>7, <1>8, <1>9 DEF SamePairs, r

(* One move keeps them.                                                    *)
LEMMA MoveKeeps ==
  ASSUME NEW P, NEW m \in Seq(P), DistinctKeys(m), NEW key,
         NEW target \in Nat \ {0}
  PROVE  LET r == MoveFieldToPosition(m, key, target)
         IN  r \in Seq(P) /\ SamePairs(m, r)
<1>1. CASE key \notin Keys(m) \/ target > Len(m)
  <2>1. MoveFieldToPosition(m, key, target) = m
    BY <1>1 DEF MoveFieldToPosition
  <2> QED
    BY <2>1 DEF SamePairs
<1>2. CASE ~(key \notin Keys(m) \/ target > Len(m))
  <2>1. MoveFieldToPosition(m, key, target) = Swap(m, At(m, key), target)
    BY <1>2 DEF MoveFieldToPosition
  <2>2. At(m, key) \in DOMAIN m
    BY <1>2, AtFinds
  <2>3. target \in DOMAIN m
    BY <1>2
  <2> QED
    BY <2>1, <2>2, <2>3, SwapKeeps
<1> QED
  BY <1>1, <1>2

(* The same pairs have the same keys.                                      *)
LEMMA SameKeys ==
  ASSUME NEW m, NEW r, Pairs(r) = Pairs(m)
  PROVE  Keys(r) = Keys(m)
<1>1. \A x : x \in Keys(m) <=> \E p \in Pairs(m) : x = p.key
  BY DEF Keys, Pairs
<1>2. \A x : x \in Keys(r) <=> \E p \in Pairs(r) : x = p.key
  BY DEF Keys, Pairs
<1> QED
  BY <1>1, <1>2

(* With the first n - 1 keys placed, moving the next one to n places it.   *)
LEMMA PlaceNext ==
  ASSUME NEW P, NEW m \in Seq(P), DistinctKeys(m),
         NEW order, NEW n \in Nat \ {0},
         \A j, k \in 1..n : order[j] = order[k] => j = k,
         Placed(m, order, n - 1), order[n] \in Keys(m)
  PROVE  Placed(MoveFieldToPosition(m, order[n], n), order, n)
<1> DEFINE r == MoveFieldToPosition(m, order[n], n)
           i == At(m, order[n])
<1>1. i \in DOMAIN m /\ m[i].key = order[n]
  BY AtFinds
<1>2. DOMAIN m = 1..Len(m) /\ Len(m) \in Nat
  OBVIOUS
<1>3. i >= n
  <2> SUFFICES ASSUME i < n PROVE FALSE
    BY <1>1, <1>2
  <2>1. i \in 1..(n - 1)
    BY <1>1, <1>2
  <2>2. m[i].key = order[i]
    BY <2>1 DEF Placed
  <2>3. i \in 1..n /\ n \in 1..n /\ i # n
    BY <2>1
  <2>4. order[i] = order[n]
    BY <1>1, <2>2
  <2> QED
    BY <2>3, <2>4, Zenon
<1>4. n <= Len(m)
  BY <1>1, <1>2, <1>3
<1>5. r = Swap(m, i, n)
  <2>1. ~(order[n] \notin Keys(m) \/ n > Len(m))
    BY <1>2, <1>4
  <2> QED
    BY <2>1 DEF MoveFieldToPosition
<1>6. n \in DOMAIN m
  BY <1>2, <1>4
<1>7. Len(r) = Len(m)
  BY <1>1, <1>5, <1>6, SwapKeeps DEF SamePairs
<1>8. ASSUME NEW k \in 1..n PROVE r[k].key = order[k]
  <2> HIDE DEF r, i
  <2>1. CASE k = n
    BY <2>1, <1>1, <1>5, <1>6 DEF Swap
  <2>2. CASE k < n
    <3>1. k \in 1..(n - 1) /\ k \in DOMAIN m /\ k # i /\ k # n
      BY <2>2, <1>1, <1>2, <1>3, <1>4
    <3>2. r[k] = m[k]
      BY <3>1, <1>5 DEF Swap
    <3> QED
      BY <3>1, <3>2 DEF Placed
  <2> QED
    BY <2>1, <2>2
<1> QED
  BY <1>4, <1>7, <1>8 DEF Placed

(* A move of another key to a place after the first n leaves them alone.   *)
LEMMA MoveBeyond ==
  ASSUME NEW P, NEW m \in Seq(P), DistinctKeys(m),
         NEW order, NEW n \in Nat, Placed(m, order, n),
         NEW key, \A k \in 1..n : order[k] # key,
         NEW target \in Nat \ {0}, target > n
  PROVE  Placed(MoveFieldToPosition(m, key, target), order, n)
<1> DEFINE r == MoveFieldToPosition(m, key, target)
           i == At(m, key)
<1>1. CASE key \notin Keys(m) \/ target > Len(m)
  BY <1>1 DEF MoveFieldToPosition
<1>2. CASE ~(key \notin Keys(m) \/ target > Len(m))
  <2>1. r = Swap(m, i, target)
    BY <1>2 DEF MoveFieldToPosition
  <2>2. i \in DOMAIN m /\ m[i].key = key
    BY <1>2, AtFinds
  <2>3. Len(r) = Len(m)
    BY MoveKeeps DEF SamePairs
  <2>4. ASSUME NEW k \in 1..n PROVE r[k].key = order[k]
    <3>1. k \in DOMAIN m /\ k # target
      BY DEF Placed
    <3>2. m[k].key = order[k]
      BY DEF Placed
    <3>3. k # i
      BY <2>2, <3>2
    <3>4. r[k] = m[k]
      BY <2>1, <3>1, <3>3 DEF Swap
    <3> QED
      BY <3>2, <3>4
  <2> QED
    BY <2>3, <2>4 DEF Placed
<1> QED
  BY <1>1, <1>2

-----------------------------------------------------------------------------
(* A mapping over P with different keys that holds the pairs of m.         *)
Keeps(P, m, r) == r \in Seq(P) /\ DistinctKeys(m) /\ SamePairs(m, r)

(* One more move keeps the pairs of the mapping the moves began with.      *)
LEMMA KeepsMore ==
  ASSUME NEW P, NEW m, NEW r, Keeps(P, m, r), NEW key, NEW target \in Nat \ {0}
  PROVE  Keeps(P, m, MoveFieldToPosition(r, key, target))
<1>1. r \in Seq(P) /\ DistinctKeys(r)
  BY DEF Keeps, SamePairs
<1>2. LET t == MoveFieldToPosition(r, key, target) IN t \in Seq(P) /\ SamePairs(r, t)
  BY <1>1, MoveKeeps
<1> QED
  BY <1>2 DEF Keeps, SamePairs

(* The three parts of the reordering keep the pairs.                       *)
LEMMA TripleKeeps ==
  ASSUME NEW P, NEW m, NEW r, Keeps(P, m, r)
  PROVE  Keeps(P, m, LeadingTriple(r))
<1> DEFINE named == MoveFieldToPosition(r, "name", 1)
           typed == MoveFieldToPosition(named, "type", 2)
           led == MoveFieldToPosition(typed, "proxies", 3)
<1>1. Keeps(P, m, named)
  BY KeepsMore
<1> HIDE DEF named
<1>2. Keeps(P, m, typed)
  BY <1>1, KeepsMore
<1> HIDE DEF typed
<1>3. Keeps(P, m, led)
  BY <1>2, KeepsMore
<1> HIDE DEF led
<1> QED
  BY <1>3 DEF LeadingTriple, named, typed, led

(* So does the tail of a load-balance group.                               *)
LEMMA LoadBalanceKeeps ==
  ASSUME NEW P, NEW m, NEW r, Keeps(P, m, r)
  PROVE  Keeps(P, m, LoadBalanceTail(r))
<1> DEFINE url == MoveFieldToPosition(r, "url", 4)
           interval == MoveFieldToPosition(url, "interval", 5)
           lazy == MoveFieldToPosition(interval, "lazy", 6)
           strategy == MoveFieldToPosition(lazy, "strategy", 7)
           timeout == MoveFieldToPosition(strategy, "timeout", 8)
           failed == MoveFieldToPosition(timeout, "max-failed-times", 9)
<1>1. Keeps(P, m, url)
  BY KeepsMore
<1> HIDE DEF url
<1>2. Keeps(P, m, interval)
  BY <1>1, KeepsMore
<1> HIDE DEF interval
<1>3. Keeps(P, m, lazy)
  BY <1>2, KeepsMore
<1> HIDE DEF lazy
<1>4. Keeps(P, m, strategy)
  BY <1>3, KeepsMore
<1> HIDE DEF strategy
<1>5. Keeps(P, m, timeout)
  BY <1>4, KeepsMore
<1> HIDE DEF timeout
<1>6. Keeps(P, m, failed)
  BY <1>5, KeepsMore
<1> HIDE DEF failed
<1> QED
  BY <1>6 DEF LoadBalanceTail, url, interval, lazy, strategy, timeout, failed

(* And the tail of every other group.                                      *)
LEMMA URLTestKeeps ==
  ASSUME NEW P, NEW m, NEW r, Keeps(P, m, r)
  PROVE  Keeps(P, m, URLTestTail(r))
<1> DEFINE url == MoveFieldToPosition(r, "url", 4)
           interval == MoveFieldToPosition(url, "interval", 5)
           timeout == MoveFieldToPosition(interval, "timeout", 6)
           failed == MoveFieldToPosition(timeout, "max-failed-times", 7)
           lazy == MoveFieldToPosition(failed, "lazy", 8)
<1>1. Keeps(P, m, url)
  BY KeepsMore
<1> HIDE DEF url
<1>2. Keeps(P, m, interval)
  BY <1>1, KeepsMore
<1> HIDE DEF interval
<1>3. Keeps(P, m, timeout)
  BY <1>2, KeepsMore
<1> HIDE DEF timeout
<1>4. Keeps(P, m, failed)
  BY <1>3, KeepsMore
<1> HIDE DEF failed
<1>5. Keeps(P, m, lazy)
  BY <1>4, KeepsMore
<1> HIDE DEF lazy
<1> QED
  BY <1>5 DEF URLTestTail, url, interval, timeout, failed, lazy

-----------------------------------------------------------------------------
(* The orders, written out.                                                *)
LEMMA TripleIs ==
  /\ Triple[1] = "name" /\ Triple[2] = "type" /\ Triple[3] = "proxies"
  /\ DOMAIN Triple = 1..3
BY DEF Triple

(* Nine different keys.                                                    *)
LEMMA LoadBalanceOrderIs ==
  /\ DOMAIN LoadBalanceOrder = 1..9
  /\ \A j, k \in 1..9 : LoadBalanceOrder[j] = LoadBalanceOrder[k] => j = k
BY DEF LoadBalanceOrder

(* Eight different keys.                                                   *)
LEMMA URLTestOrderIs ==
  /\ DOMAIN URLTestOrder = 1..8
  /\ \A j, k \in 1..8 : URLTestOrder[j] = URLTestOrder[k] => j = k
BY DEF URLTestOrder

(* r holds the pairs of m, the first n of them as order has them.          *)
Built(P, m, r, order, n) == Keeps(P, m, r) /\ Placed(r, order, n)

(* A move to place n extends the prefix that is built.                     *)
LEMMA PlaceOne ==
  ASSUME NEW P, NEW m, NEW r, NEW order, NEW n \in Nat \ {0},
         Built(P, m, r, order, n - 1), Holds(m, order), n \in DOMAIN order,
         \A j, k \in 1..n : order[j] = order[k] => j = k
  PROVE  Built(P, m, MoveFieldToPosition(r, order[n], n), order, n)
<1>1. Keeps(P, m, MoveFieldToPosition(r, order[n], n))
  BY KeepsMore DEF Built
<1>2. r \in Seq(P) /\ DistinctKeys(r) /\ Pairs(r) = Pairs(m)
  BY DEF Built, Keeps, SamePairs
<1>3. order[n] \in Keys(r)
  BY <1>2, SameKeys DEF Holds
<1>4. Placed(r, order, n - 1)
  BY DEF Built
<1>5. Placed(MoveFieldToPosition(r, order[n], n), order, n)
  BY <1>2, <1>3, <1>4, PlaceNext
<1> QED
  BY <1>1, <1>5 DEF Built

(* A move of another key to a later place leaves the triple built.         *)
LEMMA LeaveTriple ==
  ASSUME NEW P, NEW m, NEW r, Built(P, m, r, Triple, 3),
         NEW key, key \notin {"name", "type", "proxies"},
         NEW target \in Nat, target > 3
  PROVE  Built(P, m, MoveFieldToPosition(r, key, target), Triple, 3)
<1>1. Keeps(P, m, MoveFieldToPosition(r, key, target))
  BY KeepsMore DEF Built
<1>2. r \in Seq(P) /\ DistinctKeys(r) /\ Placed(r, Triple, 3)
  BY DEF Built, Keeps, SamePairs
<1>3. \A k \in 1..3 : Triple[k] # key
  BY TripleIs
<1>4. Placed(MoveFieldToPosition(r, key, target), Triple, 3)
  BY <1>2, <1>3, MoveBeyond
<1> QED
  BY <1>1, <1>4 DEF Built

(* Each part places the keys of its order, given the ones before them.     *)
LEMMA TriplePlaces ==
  ASSUME NEW P, NEW m, NEW r, Built(P, m, r, Triple, 0), Holds(m, Triple)
  PROVE  Built(P, m, LeadingTriple(r), Triple, 3)
<1> DEFINE named == MoveFieldToPosition(r, "name", 1)
           typed == MoveFieldToPosition(named, "type", 2)
           led == MoveFieldToPosition(typed, "proxies", 3)
<1>1. Built(P, m, named, Triple, 1)
  <2>1. Triple[1] = "name" /\ 1 \in DOMAIN Triple /\ 1 - 1 = 0
    BY TripleIs DEF Triple
  <2>2. \A j, k \in 1..1 : Triple[j] = Triple[k] => j = k
    BY TripleIs
  <2> QED
    BY <2>1, <2>2, PlaceOne
<1> HIDE DEF named
<1>2. Built(P, m, typed, Triple, 2)
  <2>1. Triple[2] = "type" /\ 2 \in DOMAIN Triple /\ 2 - 1 = 1
    BY TripleIs DEF Triple
  <2>2. \A j, k \in 1..2 : Triple[j] = Triple[k] => j = k
    BY TripleIs
  <2> QED
    BY <1>1, <2>1, <2>2, PlaceOne
<1> HIDE DEF typed
<1>3. Built(P, m, led, Triple, 3)
  <2>1. Triple[3] = "proxies" /\ 3 \in DOMAIN Triple /\ 3 - 1 = 2
    BY TripleIs DEF Triple
  <2>2. \A j, k \in 1..3 : Triple[j] = Triple[k] => j = k
    BY TripleIs
  <2> QED
    BY <1>2, <2>1, <2>2, PlaceOne
<1> HIDE DEF led
<1> QED
  BY <1>3 DEF LeadingTriple, named, typed, led

(* The six moves of the load-balance tail.                                 *)
LEMMA LoadBalancePlaces ==
  ASSUME NEW P, NEW m, NEW r, Built(P, m, r, LoadBalanceOrder, 3), Holds(m, LoadBalanceOrder)
  PROVE  Built(P, m, LoadBalanceTail(r), LoadBalanceOrder, 9)
<1> DEFINE url == MoveFieldToPosition(r, "url", 4)
           interval == MoveFieldToPosition(url, "interval", 5)
           lazy == MoveFieldToPosition(interval, "lazy", 6)
           strategy == MoveFieldToPosition(lazy, "strategy", 7)
           timeout == MoveFieldToPosition(strategy, "timeout", 8)
           failed == MoveFieldToPosition(timeout, "max-failed-times", 9)
<1>1. Built(P, m, url, LoadBalanceOrder, 4)
  <2>1. LoadBalanceOrder[4] = "url" /\ 4 \in DOMAIN LoadBalanceOrder /\ 4 - 1 = 3
    BY LoadBalanceOrderIs DEF LoadBalanceOrder
  <2>2. \A j, k \in 1..4 : LoadBalanceOrder[j] = LoadBalanceOrder[k] => j = k
    BY LoadBalanceOrderIs
  <2> QED
    BY <2>1, <2>2, PlaceOne
<1> HIDE DEF url
<1>2. Built(P, m, interval, LoadBalanceOrder, 5)
  <2>1. LoadBalanceOrder[5] = "interval" /\ 5 \in DOMAIN LoadBalanceOrder /\ 5 - 1 = 4
    BY LoadBalanceOrderIs DEF LoadBalanceOrder
  <2>2. \A j, k \in 1..5 : LoadBalanceOrder[j] = LoadBalanceOrder[k] => j = k
    BY LoadBalanceOrderIs
  <2> QED
    BY <1>1, <2>1, <2>2, PlaceOne
<1> HIDE DEF interval
<1>3. Built(P, m, lazy, LoadBalanceOrder, 6)
  <2>1. LoadBalanceOrder[6] = "lazy" /\ 6 \in DOMAIN LoadBalanceOrder /\ 6 - 1 = 5
    BY LoadBalanceOrderIs DEF LoadBalanceOrder
  <2>2. \A j, k \in 1..6 : LoadBalanceOrder[j] = LoadBalanceOrder[k] => j = k
    BY LoadBalanceOrderIs
  <2> QED
    BY <1>2, <2>1, <2>2, PlaceOne
<1> HIDE DEF lazy
<1>4. Built(P, m, strategy, LoadBalanceOrder, 7)
  <2>1. LoadBalanceOrder[7] = "strategy" /\ 7 \in DOMAIN LoadBalanceOrder /\ 7 - 1 = 6
    BY LoadBalanceOrderIs DEF LoadBalanceOrder
  <2>2. \A j, k \in 1..7 : LoadBalanceOrder[j] = LoadBalanceOrder[k] => j = k
    BY LoadBalanceOrderIs
  <2> QED
    BY <1>3, <2>1, <2>2, PlaceOne
<1> HIDE DEF strategy
<1>5. Built(P, m, timeout, LoadBalanceOrder, 8)
  <2>1. LoadBalanceOrder[8] = "timeout" /\ 8 \in DOMAIN LoadBalanceOrder /\ 8 - 1 = 7
    BY LoadBalanceOrderIs DEF LoadBalanceOrder
  <2>2. \A j, k \in 1..8 : LoadBalanceOrder[j] = LoadBalanceOrder[k] => j = k
    BY LoadBalanceOrderIs
  <2> QED
    BY <1>4, <2>1, <2>2, PlaceOne
<1> HIDE DEF timeout
<1>6. Built(P, m, failed, LoadBalanceOrder, 9)
  <2>1. LoadBalanceOrder[9] = "max-failed-times" /\ 9 \in DOMAIN LoadBalanceOrder /\ 9 - 1 = 8
    BY LoadBalanceOrderIs DEF LoadBalanceOrder
  <2>2. \A j, k \in 1..9 : LoadBalanceOrder[j] = LoadBalanceOrder[k] => j = k
    BY LoadBalanceOrderIs
  <2> QED
    BY <1>5, <2>1, <2>2, PlaceOne
<1> HIDE DEF failed
<1> QED
  BY <1>6 DEF LoadBalanceTail, url, interval, lazy, strategy, timeout, failed

(* The five moves of the other tail.                                       *)
LEMMA URLTestPlaces ==
  ASSUME NEW P, NEW m, NEW r, Built(P, m, r, URLTestOrder, 3), Holds(m, URLTestOrder)
  PROVE  Built(P, m, URLTestTail(r), URLTestOrder, 8)
<1> DEFINE url == MoveFieldToPosition(r, "url", 4)
           interval == MoveFieldToPosition(url, "interval", 5)
           timeout == MoveFieldToPosition(interval, "timeout", 6)
           failed == MoveFieldToPosition(timeout, "max-failed-times", 7)
           lazy == MoveFieldToPosition(failed, "lazy", 8)
<1>1. Built(P, m, url, URLTestOrder, 4)
  <2>1. URLTestOrder[4] = "url" /\ 4 \in DOMAIN URLTestOrder /\ 4 - 1 = 3
    BY URLTestOrderIs DEF URLTestOrder
  <2>2. \A j, k \in 1..4 : URLTestOrder[j] = URLTestOrder[k] => j = k
    BY URLTestOrderIs
  <2> QED
    BY <2>1, <2>2, PlaceOne
<1> HIDE DEF url
<1>2. Built(P, m, interval, URLTestOrder, 5)
  <2>1. URLTestOrder[5] = "interval" /\ 5 \in DOMAIN URLTestOrder /\ 5 - 1 = 4
    BY URLTestOrderIs DEF URLTestOrder
  <2>2. \A j, k \in 1..5 : URLTestOrder[j] = URLTestOrder[k] => j = k
    BY URLTestOrderIs
  <2> QED
    BY <1>1, <2>1, <2>2, PlaceOne
<1> HIDE DEF interval
<1>3. Built(P, m, timeout, URLTestOrder, 6)
  <2>1. URLTestOrder[6] = "timeout" /\ 6 \in DOMAIN URLTestOrder /\ 6 - 1 = 5
    BY URLTestOrderIs DEF URLTestOrder
  <2>2. \A j, k \in 1..6 : URLTestOrder[j] = URLTestOrder[k] => j = k
    BY URLTestOrderIs
  <2> QED
    BY <1>2, <2>1, <2>2, PlaceOne
<1> HIDE DEF timeout
<1>4. Built(P, m, failed, URLTestOrder, 7)
  <2>1. URLTestOrder[7] = "max-failed-times" /\ 7 \in DOMAIN URLTestOrder /\ 7 - 1 = 6
    BY URLTestOrderIs DEF URLTestOrder
  <2>2. \A j, k \in 1..7 : URLTestOrder[j] = URLTestOrder[k] => j = k
    BY URLTestOrderIs
  <2> QED
    BY <1>3, <2>1, <2>2, PlaceOne
<1> HIDE DEF failed
<1>5. Built(P, m, lazy, URLTestOrder, 8)
  <2>1. URLTestOrder[8] = "lazy" /\ 8 \in DOMAIN URLTestOrder /\ 8 - 1 = 7
    BY URLTestOrderIs DEF URLTestOrder
  <2>2. \A j, k \in 1..8 : URLTestOrder[j] = URLTestOrder[k] => j = k
    BY URLTestOrderIs
  <2> QED
    BY <1>4, <2>1, <2>2, PlaceOne
<1> HIDE DEF lazy
<1> QED
  BY <1>5 DEF URLTestTail, url, interval, timeout, failed, lazy

(* The tails leave the leading triple where it is.                         *)
LEMMA LoadBalanceLeavesTriple ==
  ASSUME NEW P, NEW m, NEW r, Built(P, m, r, Triple, 3)
  PROVE  Built(P, m, LoadBalanceTail(r), Triple, 3)
<1> DEFINE url == MoveFieldToPosition(r, "url", 4)
           interval == MoveFieldToPosition(url, "interval", 5)
           lazy == MoveFieldToPosition(interval, "lazy", 6)
           strategy == MoveFieldToPosition(lazy, "strategy", 7)
           timeout == MoveFieldToPosition(strategy, "timeout", 8)
           failed == MoveFieldToPosition(timeout, "max-failed-times", 9)
<1>1. Built(P, m, url, Triple, 3)
  BY LeaveTriple
<1> HIDE DEF url
<1>2. Built(P, m, interval, Triple, 3)
  BY <1>1, LeaveTriple
<1> HIDE DEF interval
<1>3. Built(P, m, lazy, Triple, 3)
  BY <1>2, LeaveTriple
<1> HIDE DEF lazy
<1>4. Built(P, m, strategy, Triple, 3)
  BY <1>3, LeaveTriple
<1> HIDE DEF strategy
<1>5. Built(P, m, timeout, Triple, 3)
  BY <1>4, LeaveTriple
<1> HIDE DEF timeout
<1>6. Built(P, m, failed, Triple, 3)
  BY <1>5, LeaveTriple
<1> HIDE DEF failed
<1> QED
  BY <1>6 DEF LoadBalanceTail, url, interval, lazy, strategy, timeout, failed

(* The same for the other tail.                                            *)
LEMMA URLTestLeavesTriple ==
  ASSUME NEW P, NEW m, NEW r, Built(P, m, r, Triple, 3)
  PROVE  Built(P, m, URLTestTail(r), Triple, 3)
<1> DEFINE url == MoveFieldToPosition(r, "url", 4)
           interval == MoveFieldToPosition(url, "interval", 5)
           timeout == MoveFieldToPosition(interval, "timeout", 6)
           failed == MoveFieldToPosition(timeout, "max-failed-times", 7)
           lazy == MoveFieldToPosition(failed, "lazy", 8)
<1>1. Built(P, m, url, Triple, 3)
  BY LeaveTriple
<1> HIDE DEF url
<1>2. Built(P, m, interval, Triple, 3)
  BY <1>1, LeaveTriple
<1> HIDE DEF interval
<1>3. Built(P, m, timeout, Triple, 3)
  BY <1>2, LeaveTriple
<1> HIDE DEF timeout
<1>4. Built(P, m, failed, Triple, 3)
  BY <1>3, LeaveTriple
<1> HIDE DEF failed
<1>5. Built(P, m, lazy, Triple, 3)
  BY <1>4, LeaveTriple
<1> HIDE DEF lazy
<1> QED
  BY <1>5 DEF URLTestTail, url, interval, timeout, failed, lazy

-----------------------------------------------------------------------------
(* No move at all keeps the pairs.                                         *)
LEMMA KeepsItself ==
  ASSUME NEW P, NEW m \in Seq(P), DistinctKeys(m)
  PROVE  Keeps(P, m, m)
BY DEF Keeps, SamePairs

(* The triple is in place after its three moves when m has its keys.       *)
LEMMA Led ==
  ASSUME NEW P, NEW m \in Seq(P), DistinctKeys(m), Holds(m, Triple)
  PROVE  Built(P, m, LeadingTriple(m), Triple, 3)
<1>1. Placed(m, Triple, 0)
  BY DEF Placed
<1>2. Built(P, m, m, Triple, 0)
  BY <1>1, KeepsItself DEF Built
<1> QED
  BY <1>2, TriplePlaces

(* reorderProxyGroupFields loses, doubles and changes no field of a        *)
(* group, whatever fields it has and wherever a move swaps them to.        *)
THEOREM FieldsKept ==
  ASSUME NEW P, NEW m \in Seq(P), DistinctKeys(m)
  PROVE  SamePairs(m, ReorderProxyGroupFields(m))
<1>1. Keeps(P, m, LeadingTriple(m))
  BY KeepsItself, TripleKeeps
<1>2. Keeps(P, m, LoadBalanceTail(LeadingTriple(m)))
  BY <1>1, LoadBalanceKeeps
<1>3. Keeps(P, m, URLTestTail(LeadingTriple(m)))
  BY <1>1, URLTestKeeps
<1> QED
  BY <1>2, <1>3 DEF ReorderProxyGroupFields, Keeps

(* The type decides the same way before and after the tail is ordered.     *)
LEMMA TypeStays ==
  ASSUME NEW P, NEW m, NEW r, NEW t,
         Built(P, m, r, Triple, 3), Built(P, m, t, Triple, 3)
  PROVE  IsLoadBalance(r) <=> IsLoadBalance(t)
<1>1. r \in Seq(P) /\ t \in Seq(P) /\ Len(r) = Len(t) /\ Pairs(r) = Pairs(t)
  BY DEF Built, Keeps, SamePairs
<1>2. DistinctKeys(t)
  BY DEF Built, Keeps, SamePairs
<1>3. 3 <= Len(r) /\ r[2].key = "type" /\ t[2].key = "type"
  BY TripleIs DEF Built, Placed
<1>4. 2 \in DOMAIN r /\ 2 \in DOMAIN t
  BY <1>1, <1>3
<1>5. r[2] \in Pairs(t)
  BY <1>1, <1>4 DEF Pairs
<1>6. PICK k \in DOMAIN t : r[2] = t[k]
  BY <1>5 DEF Pairs
<1>7. k = 2
  BY <1>2, <1>3, <1>4, <1>6 DEF DistinctKeys
<1> QED
  BY <1>1, <1>6, <1>7 DEF IsLoadBalance

(* Placed keys lead.                                                       *)
LEMMA PlacedLeads ==
  ASSUME NEW r, NEW order, NEW n \in Nat, DOMAIN order = 1..n, Placed(r, order, n)
  PROVE  Leads(r, order)
BY DEF Placed, Leads

(* Every group whose fields reorderProxyGroupFields has moved has the      *)
(* documented layout: name, type and proxies lead, and a group with all    *)
(* the fields of its type has them in the order of that type, whatever     *)
(* order it had them in and whatever other fields it has.                  *)
THEOREM LayoutCanonical ==
  ASSUME NEW P, NEW m \in Seq(P), DistinctKeys(m)
  PROVE  Canonical(ReorderProxyGroupFields(m))
<1> DEFINE led == LeadingTriple(m)
           r == ReorderProxyGroupFields(m)
<1>1. r = IF IsLoadBalance(led) THEN LoadBalanceTail(led) ELSE URLTestTail(led)
  BY DEF ReorderProxyGroupFields
<1>2. Keys(r) = Keys(m)
  BY FieldsKept, SameKeys DEF SamePairs
<1> HIDE DEF r
<1>3. ASSUME Holds(m, Triple)
      PROVE  /\ Built(P, m, led, Triple, 3)
             /\ Built(P, m, r, Triple, 3)
  <2>1. Built(P, m, led, Triple, 3)
    BY <1>3, Led
  <2> HIDE DEF led
  <2>2. Built(P, m, LoadBalanceTail(led), Triple, 3)
    BY <2>1, LoadBalanceLeavesTriple
  <2>3. Built(P, m, URLTestTail(led), Triple, 3)
    BY <2>1, URLTestLeavesTriple
  <2> QED
    BY <1>1, <2>1, <2>2, <2>3
<1>4. Holds(r, Triple) => Leads(r, Triple)
  <2> SUFFICES ASSUME Holds(r, Triple) PROVE Leads(r, Triple)
    OBVIOUS
  <2>1. Placed(r, Triple, 3)
    BY <1>2, <1>3 DEF Holds, Built
  <2> QED
    BY <2>1, TripleIs, PlacedLeads
<1>5. Holds(r, LoadBalanceOrder) /\ IsLoadBalance(r) => Leads(r, LoadBalanceOrder)
  <2> SUFFICES ASSUME Holds(r, LoadBalanceOrder), IsLoadBalance(r)
               PROVE  Leads(r, LoadBalanceOrder)
    OBVIOUS
  <2>1. Holds(m, LoadBalanceOrder)
    BY <1>2 DEF Holds
  <2>2. \A k \in 1..3 : Triple[k] = LoadBalanceOrder[k] /\ k \in DOMAIN LoadBalanceOrder
    BY TripleIs, LoadBalanceOrderIs DEF LoadBalanceOrder
  <2>3. Holds(m, Triple)
    BY <2>1, <2>2, TripleIs DEF Holds
  <2>4. IsLoadBalance(led)
    BY <1>3, <2>3, TypeStays
  <2> HIDE DEF led
  <2>5. Built(P, m, led, LoadBalanceOrder, 3)
    BY <1>3, <2>2, <2>3 DEF Built, Placed
  <2>6. Built(P, m, LoadBalanceTail(led), LoadBalanceOrder, 9)
    BY <2>1, <2>5, LoadBalancePlaces
  <2>7. Placed(r, LoadBalanceOrder, 9)
    BY <1>1, <2>4, <2>6 DEF Built
  <2> QED
    BY <2>7, LoadBalanceOrderIs, PlacedLeads
<1>6. Holds(r, URLTestOrder) /\ ~IsLoadBalance(r) => Leads(r, URLTestOrder)
  <2> SUFFICES ASSUME Holds(r, URLTestOrder), ~IsLoadBalance(r)
               PROVE  Leads(r, URLTestOrder)
    OBVIOUS
  <2>1. Holds(m, URLTestOrder)
    BY <1>2 DEF Holds
  <2>2. \A k \in 1..3 : Triple[k] = URLTestOrder[k] /\ k \in DOMAIN URLTestOrder
    BY TripleIs, URLTestOrderIs DEF URLTestOrder
  <2>3. Holds(m, Triple)
    BY <2>1, <2>2, TripleIs DEF Holds
  <2>4. ~IsLoadBalance(led)
    BY <1>3, <2>3, TypeStays
  <2> HIDE DEF led
  <2>5. Built(P, m, led, URLTestOrder, 3)
    BY <1>3, <2>2, <2>3 DEF Built, Placed
  <2>6. Built(P, m, URLTestTail(led), URLTestOrder, 8)
    BY <2>1, <2>5, URLTestPlaces
  <2>7. Placed(r, URLTestOrder, 8)
    BY <1>1, <2>4, <2>6 DEF Built
  <2> QED
    BY <2>7, URLTestOrderIs, PlacedLeads
<1> QED
  BY <1>4, <1>5, <1>6 DEF Canonical, r

(* reorderNameFirst loses, doubles and changes no field of a proxy, and    *)
(* puts its name first.                                                    *)
THEOREM NameFirst ==
  ASSUME NEW P, NEW m \in Seq(P), DistinctKeys(m), "name" \in Keys(m)
  PROVE  /\ SamePairs(m, ReorderNameFirst(m))
         /\ ReorderNameFirst(m)[1].key = "name"
<1> DEFINE i == At(m, "name")
           r == ReorderNameFirst(m)
           From(k) == IF k = 1 THEN i ELSE IF k <= i THEN k - 1 ELSE k
           To(k) == IF k = i THEN 1 ELSE IF k < i THEN k + 1 ELSE k
<1>1. i \in DOMAIN m /\ m[i].key = "name"
  BY AtFinds
<1>2. DOMAIN m = 1..Len(m) /\ Len(m) \in Nat
  OBVIOUS
<1>3. r = [k \in DOMAIN m |-> m[From(k)]]
  BY Zenon DEF ReorderNameFirst
<1> HIDE DEF r, i
<1>4. \A k \in DOMAIN m : From(k) \in DOMAIN m /\ To(k) \in DOMAIN m /\ From(To(k)) = k
  BY <1>1, <1>2
<1>5. \A k, l \in DOMAIN m : From(k) = From(l) => k = l
  BY <1>1, <1>2
<1> HIDE DEF From, To
<1>6. DOMAIN r = DOMAIN m /\ \A k \in DOMAIN m : r[k] = m[From(k)]
  BY <1>3
<1>7. Len(r) = Len(m)
  BY <1>2, <1>6, <1>3
<1>8. Pairs(r) = Pairs(m)
  <2>1. Pairs(r) \subseteq Pairs(m)
    <3> SUFFICES ASSUME NEW k \in DOMAIN m PROVE r[k] \in Pairs(m)
      BY <1>6 DEF Pairs
    <3>1. From(k) \in DOMAIN m /\ r[k] = m[From(k)]
      BY <1>4, <1>6
    <3> QED
      BY <3>1 DEF Pairs
  <2>2. \A k \in DOMAIN m : To(k) \in DOMAIN r /\ r[To(k)] = m[k]
    BY <1>4, <1>6
  <2>3. Pairs(m) \subseteq Pairs(r)
    BY <2>2, Zenon DEF Pairs
  <2> QED
    BY <2>1, <2>3
<1>9. DistinctKeys(r)
  <2> SUFFICES ASSUME NEW k \in DOMAIN m, NEW l \in DOMAIN m, r[k].key = r[l].key
               PROVE  k = l
    BY <1>6 DEF DistinctKeys
  <2>1. /\ From(k) \in DOMAIN m /\ r[k] = m[From(k)]
        /\ From(l) \in DOMAIN m /\ r[l] = m[From(l)]
    BY <1>4, <1>6
  <2>2. From(k) = From(l)
    BY <2>1 DEF DistinctKeys
  <2> QED
    BY <1>5, <2>2
<1>10. r[1].key = "name"
  <2>1. 1 \in DOMAIN m /\ From(1) = i
    BY <1>1, <1>2 DEF From
  <2> QED
    BY <1>1, <1>6, <2>1
<1> QED
  BY <1>7, <1>8, <1>9, <1>10 DEF SamePairs, r
=============================================================================
