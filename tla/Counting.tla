------------------------------ MODULE Counting ------------------------------
(***************************************************************************)
(* What the proofs need of numbers, finite sets and their sums, and sorted *)
(* sequences: the least element of a set of naturals, induction stated as  *)
(* a fact about sets, how SumFunctionOnSet adds, regroups and reindexes,   *)
(* and that a finite set under a total order, with or without ties, is     *)
(* listed in order.                                                        *)
(***************************************************************************)
EXTENDS Integers, FiniteSetsExt, SequencesExt, FiniteSetTheorems, WellFoundedInduction, TLAPS

(* Every set of naturals has a least element.                                *)
LEMMA LeastNatural ==
  ASSUME NEW T \in SUBSET Nat, T # {}
  PROVE  \E x \in T : \A y \in T : x <= y
  <1>. DEFINE R == {ss \in Nat \X Nat : ss[1] < ss[2]}
  <1>1. IsWellFoundedOn(R, Nat)
    BY NatLessThanWellFounded DEF OpToRel
  <1>. HIDE DEF R
  <1>2. PICK x \in T : \A y \in T : ~(<<y, x>> \in R)
    BY <1>1, WFMin
  <1>3. ASSUME NEW y \in T  PROVE x <= y
    <2>1. x \in Nat /\ y \in Nat /\ ~(<<y, x>> \in R)
      BY <1>2
    <2>2. ~(y < x)
      BY <2>1 DEF R
    <2>. QED  BY <2>1, <2>2
  <1>. QED  BY <1>3

(* Induction, with the set of the numbers it holds for in place of a         *)
(* predicate.                                                                *)
LEMMA NaturalsInSet ==
  ASSUME NEW S \in SUBSET Nat, 0 \in S, \A n \in S : n + 1 \in S
  PROVE  S = Nat
  <1>. SUFFICES ASSUME S # Nat  PROVE FALSE
    OBVIOUS
  <1>1. PICK x \in Nat \ S : \A y \in Nat \ S : x <= y
    BY LeastNatural
  <1>2. x # 0 /\ x - 1 \in Nat /\ x - 1 \in S
    BY <1>1
  <1>. QED  BY <1>1, <1>2

(* A bounded set of naturals has a largest element.                          *)
LEMMA LargestNatural ==
  ASSUME NEW S \in SUBSET Nat, S # {}, NEW b \in Nat, \A x \in S : x <= b
  PROVE  Max(S) \in S /\ \A y \in S : Max(S) >= y
  <1>. DEFINE Bounds == {n \in Nat : \A x \in S : x <= n}
  <1>1. PICK n \in Bounds : \A m \in Bounds : n <= m
    <2>1. b \in Bounds
      OBVIOUS
    <2>. HIDE DEF Bounds
    <2>2. Bounds \in SUBSET Nat
      BY DEF Bounds
    <2>. QED  BY <2>1, <2>2, LeastNatural
  <1>2. CASE n \in S
    BY <1>1, <1>2 DEF Max
  <1>3. CASE n \notin S
    <2>1. \A x \in S : x <= n /\ x # n
      BY <1>1, <1>3
    <2>2. n \in Nat /\ n # 0
      <3>1. PICK x \in S : TRUE
        OBVIOUS
      <3>2. x \in Nat /\ n \in Nat /\ x <= n /\ x # n
        BY <2>1, <3>1
      <3>. QED  BY <3>2
    <2>3. n - 1 \in Nat /\ \A x \in S : x <= n - 1
      BY <2>1, <2>2
    <2>4. n - 1 \in Bounds /\ ~(n <= n - 1)
      BY <2>2, <2>3
    <2>. QED  BY <1>1, <2>4
  <1>. QED  BY <1>2, <1>3

(* The subset without one of its elements is smaller.                        *)
LEMMA OneFewer ==
  ASSUME NEW s, IsFiniteSet(s), NEW x \in s, NEW n \in Nat, Cardinality(s) <= n + 1
  PROVE  IsFiniteSet(s \ {x}) /\ Cardinality(s \ {x}) <= n
  <1>1. IsFiniteSet(s \ {x}) /\ Cardinality(s \ {x}) = Cardinality(s) - 1
    BY FS_RemoveElement
  <1>2. Cardinality(s) \in Nat
    BY FS_CardinalityType
  <1>. QED  BY <1>1, <1>2

LEMMA NoneLeft ==
  ASSUME NEW s, IsFiniteSet(s), Cardinality(s) <= 0
  PROVE  s = {}
  <1>1. Cardinality(s) \in Nat
    BY FS_CardinalityType
  <1>. QED  BY <1>1, FS_EmptySet

(* Of finitely many elements one is the greatest, in a total order.          *)
LEMMA GreatestElement ==
  ASSUME NEW S, IsFiniteSet(S), S # {}, NEW R,
         \A x, y \in S : <<x, y>> \in R \/ <<y, x>> \in R,
         \A x, y, z \in S : <<x, y>> \in R /\ <<y, z>> \in R => <<x, z>> \in R
  PROVE  \E x \in S : \A y \in S : <<y, x>> \in R
  <1>. DEFINE Has(T) == \E x \in T : \A y \in T : <<y, x>> \in R
              N == {n \in Nat : \A T \in SUBSET S : Cardinality(T) <= n /\ T # {} => Has(T)}
  <1>1. \A T \in SUBSET S : IsFiniteSet(T) /\ Cardinality(T) \in Nat
    BY FS_Subset, FS_CardinalityType
  <1>2. 0 \in N
    BY <1>1, NoneLeft
  <1>3. ASSUME NEW n \in N  PROVE n + 1 \in N
    <2>1. n \in Nat /\ n + 1 \in Nat
      OBVIOUS
    <2>2. ASSUME NEW T \in SUBSET S, Cardinality(T) <= n + 1, T # {}  PROVE Has(T)
      <3>1. PICK z \in T : TRUE
        BY <2>2
      <3>. DEFINE U == T \ {z}
      <3>2. Cardinality(U) <= n /\ U \in SUBSET S
        BY <1>1, <2>1, <2>2, OneFewer
      <3>3. CASE U = {}
        <4>1. \A y \in T : y = z
          BY <3>3
        <4>. QED  BY <4>1
      <3>4. CASE U # {}
        <4>1. Has(U)
          BY <3>2, <3>4
        <4>2. PICK x \in U : \A y \in U : <<y, x>> \in R
          BY <4>1
        <4>3. CASE <<z, x>> \in R
          <5>1. \A y \in T : <<y, x>> \in R
            BY <4>2, <4>3
          <5>. QED  BY <5>1
        <4>4. CASE <<z, x>> \notin R
          <5>1. <<x, z>> \in R /\ <<z, z>> \in R
            BY <4>4
          <5>2. ASSUME NEW y \in T  PROVE <<y, z>> \in R
            BY <4>2, <5>1
          <5>. QED  BY <5>2
        <4>. QED  BY <4>3, <4>4
      <3>. QED  BY <3>3, <3>4
    <2>. QED  BY <2>1, <2>2
  <1>4. N = Nat
    <2>. HIDE DEF Has
    <2>1. N \in SUBSET Nat
      OBVIOUS
    <2>. HIDE DEF N
    <2>. QED  BY <1>2, <1>3, <2>1, NaturalsInSet
  <1>5. Cardinality(S) \in N /\ Cardinality(S) <= Cardinality(S) /\ S \in SUBSET S
    BY <1>1, <1>4
  <1>. QED  BY <1>5

-----------------------------------------------------------------------------
(* Sums.                                                                     *)

(* SumFunctionOnSet(v, S) takes one element after the other, in the order    *)
(* that CHOOSE has: Adds is its recursion.                                   *)
Pick(s) == CHOOSE x \in s : TRUE
Adds(g, v, S) == g = [s \in SUBSET S |-> IF s = {} THEN 0 ELSE v[Pick(s)] + g[s \ {Pick(s)}]]

LEMMA SumByDefinition ==
  ASSUME NEW v, NEW S
  PROVE  SumFunctionOnSet(v, S) = (CHOOSE g : Adds(g, v, S))[S]
  BY Zenon DEF SumFunctionOnSet, FoldFunctionOnSet, MapThenFoldSet, Adds, Pick

LEMMA PickIsIn == ASSUME NEW s, s # {}  PROVE Pick(s) \in s
  BY DEF Pick

(* The recursion has a solution, of integers.                                *)
LEMMA SumExists ==
  ASSUME NEW S, IsFiniteSet(S), NEW v, \A i \in S : v[i] \in Int
  PROVE  \E g \in [SUBSET S -> Int] : Adds(g, v, S)
  <1>. DEFINE D(n) == {s \in SUBSET S : Cardinality(s) <= n}
              Body(g, s) == IF s = {} THEN 0 ELSE v[Pick(s)] + g[s \ {Pick(s)}]
              Good(n) == \E g \in [D(n) -> Int] : \A s \in D(n) : g[s] = Body(g, s)
              N == {n \in Nat : Good(n)}
  <1>1. \A s \in SUBSET S : IsFiniteSet(s) /\ Cardinality(s) \in Nat
    BY FS_Subset, FS_CardinalityType
  <1>2. 0 \in N
    <2>1. \A s \in D(0) : s = {}
      BY <1>1, NoneLeft
    <2>. DEFINE z == [s \in D(0) |-> 0]
    <2>2. z \in [D(0) -> Int]
      OBVIOUS
    <2>3. \A s \in D(0) : z[s] = Body(z, s)
      BY <2>1
    <2>. QED  BY <2>2, <2>3
  <1>3. ASSUME NEW n \in N  PROVE n + 1 \in N
    <2>1. n \in Nat /\ n + 1 \in Nat
      OBVIOUS
    <2>2. PICK g \in [D(n) -> Int] : \A s \in D(n) : g[s] = Body(g, s)
      OBVIOUS
    <2>. DEFINE h == [s \in D(n + 1) |-> Body(g, s)]
    <2>3. ASSUME NEW s \in D(n + 1), s # {}
          PROVE  /\ s \ {Pick(s)} \in D(n) /\ s \ {Pick(s)} \in D(n + 1)
                 /\ v[Pick(s)] \in Int
      <3>1. Pick(s) \in s
        BY <2>3, PickIsIn
      <3>2. Cardinality(s \ {Pick(s)}) <= n
        BY <1>1, <2>1, <3>1, OneFewer
      <3>3. s \ {Pick(s)} \in SUBSET S /\ Pick(s) \in S
        BY <3>1
      <3>4. n <= n + 1 /\ Cardinality(s \ {Pick(s)}) \in Nat
        BY <1>1, <2>1, <3>3
      <3>5. Cardinality(s \ {Pick(s)}) <= n + 1
        BY <2>1, <3>2, <3>4
      <3>. QED  BY <3>2, <3>3, <3>5
    <2>4. \A t \in D(n) : t \in D(n + 1)
      BY <1>1, <2>1
    <2>5. \A t \in D(n) : h[t] = g[t]
      BY <2>2, <2>4
    <2>6. ASSUME NEW s \in D(n + 1)  PROVE h[s] \in Int /\ h[s] = Body(h, s)
      <3>1. CASE s = {}
        BY <3>1
      <3>2. CASE s # {}
        <4>1. h[s \ {Pick(s)}] = g[s \ {Pick(s)}] /\ g[s \ {Pick(s)}] \in Int
          BY <2>3, <2>5, <3>2
        <4>2. h[s] = v[Pick(s)] + g[s \ {Pick(s)}]
          BY <3>2
        <4>. QED  BY <2>3, <3>2, <4>1, <4>2
      <3>. QED  BY <3>1, <3>2
    <2>7. h \in [D(n + 1) -> Int]
      BY <2>6
    <2>8. \A s \in D(n + 1) : h[s] = Body(h, s)
      BY <2>6
    <2>9. Good(n + 1)
      <3>. HIDE DEF h, Body
      <3>. QED  BY <2>7, <2>8
    <2>. QED  BY <2>1, <2>9
  <1>4. N = Nat
    <2>. HIDE DEF Good
    <2>1. N \in SUBSET Nat
      OBVIOUS
    <2>. HIDE DEF N
    <2>. QED  BY <1>2, <1>3, <2>1, NaturalsInSet
  <1>5. Cardinality(S) \in N
    BY <1>1, <1>4
  <1>6. D(Cardinality(S)) = SUBSET S
    <2>1. ASSUME NEW s \in SUBSET S  PROVE Cardinality(s) <= Cardinality(S)
      BY FS_Subset
    <2>. QED  BY <2>1
  <1>7. PICK g \in [SUBSET S -> Int] : \A s \in SUBSET S : g[s] = Body(g, s)
    BY <1>5, <1>6
  <1>8. g = [s \in SUBSET S |-> Body(g, s)]
    BY <1>7
  <1>. QED  BY <1>8 DEF Adds

Added(g, v, s) == v[Pick(s)] + g[s \ {Pick(s)}]

LEMMA AddsNone ==
  ASSUME NEW S, NEW v, NEW g, Adds(g, v, S)
  PROVE  g[{}] = 0
  BY DEF Adds

LEMMA AddsOne ==
  ASSUME NEW S, NEW v, NEW g, Adds(g, v, S), NEW s, s \in SUBSET S, s # {}
  PROVE  g[s] = Added(g, v, s)
  <1>. DEFINE Body(t) == IF t = {} THEN 0 ELSE v[Pick(t)] + g[t \ {Pick(t)}]
  <1>1. g = [t \in SUBSET S |-> Body(t)]
    BY DEF Adds
  <1>. HIDE DEF Body
  <1>2. g[s] = Body(s)
    BY <1>1
  <1>. QED  BY <1>2 DEF Body, Added

(* What it adds up to depends on the values of the elements alone.           *)
LEMMA AddsAgree ==
  ASSUME NEW S, NEW T, NEW v, NEW w, NEW g, NEW h, Adds(g, v, S), Adds(h, w, T),
         NEW s \in SUBSET S, s \in SUBSET T, IsFiniteSet(s), \A i \in s : v[i] = w[i]
  PROVE  g[s] = h[s]
  <1>. DEFINE N == {n \in Nat : \A t \in SUBSET s : Cardinality(t) <= n => g[t] = h[t]}
  <1>1. \A t \in SUBSET s : IsFiniteSet(t) /\ Cardinality(t) \in Nat
    BY FS_Subset, FS_CardinalityType
  <1>2. g[{}] = 0 /\ h[{}] = 0
    BY AddsNone
  <1>3. 0 \in N
    BY <1>1, <1>2, NoneLeft
  <1>4. ASSUME NEW n \in N  PROVE n + 1 \in N
    <2>1. n \in Nat /\ n + 1 \in Nat
      OBVIOUS
    <2>2. ASSUME NEW t \in SUBSET s, Cardinality(t) <= n + 1  PROVE g[t] = h[t]
      <3>1. CASE t = {}
        BY <1>2, <3>1
      <3>2. CASE t # {}
        <4>1. Pick(t) \in t
          BY <3>2, PickIsIn
        <4>2. Cardinality(t \ {Pick(t)}) <= n
          BY <1>1, <2>1, <2>2, <4>1, OneFewer
        <4>3. g[t \ {Pick(t)}] = h[t \ {Pick(t)}]
          BY <4>2
        <4>4. v[Pick(t)] = w[Pick(t)]
          BY <4>1
        <4>5. Added(g, v, t) = Added(h, w, t)
          BY <4>3, <4>4 DEF Added
        <4>6. t \in SUBSET S /\ t \in SUBSET T
          OBVIOUS
        <4>7. g[t] = Added(g, v, t)
          BY <3>2, <4>6, AddsOne
        <4>8. h[t] = Added(h, w, t)
          BY <3>2, <4>6, AddsOne
        <4>. QED  BY <4>5, <4>7, <4>8
      <3>. QED  BY <3>1, <3>2
    <2>. QED  BY <2>1, <2>2
  <1>5. N = Nat
    <2>1. N \in SUBSET Nat
      OBVIOUS
    <2>. HIDE DEF N
    <2>. QED  BY <1>3, <1>4, <2>1, NaturalsInSet
  <1>6. Cardinality(s) \in N /\ Cardinality(s) <= Cardinality(s)
    BY <1>1, <1>5
  <1>. QED  BY <1>6

Plus(m, n) == m + n

(* Nor on the order.                                                         *)
LEMMA AddsInAnyOrder ==
  ASSUME NEW S, IsFiniteSet(S), NEW v, \A i \in S : v[i] \in Int,
         NEW g, g \in [SUBSET S -> Int], Adds(g, v, S), NEW x, x \in S
  PROVE  g[S] = Plus(v[x], g[S \ {x}])
  <1>. DEFINE N == {n \in Nat : \A t \in SUBSET S :
                      Cardinality(t) <= n => \A y \in t : g[t] = v[y] + g[t \ {y}]}
  <1>1. \A t \in SUBSET S : IsFiniteSet(t) /\ Cardinality(t) \in Nat /\ t \in SUBSET S
    BY FS_Subset, FS_CardinalityType
  <1>2. ASSUME NEW t \in SUBSET S, t # {}  PROVE g[t] = v[Pick(t)] + g[t \ {Pick(t)}]
    <2>1. t \in SUBSET S
      OBVIOUS
    <2>2. g[t] = Added(g, v, t)
      BY <1>2, <2>1, AddsOne
    <2>. QED  BY <2>2 DEF Added
  <1>3. 0 \in N
    BY <1>1, NoneLeft
  <1>4. ASSUME NEW n \in N  PROVE n + 1 \in N
    <2>1. n \in Nat /\ n + 1 \in Nat
      OBVIOUS
    <2>2. ASSUME NEW t \in SUBSET S, Cardinality(t) <= n + 1, NEW y \in t
          PROVE  g[t] = v[y] + g[t \ {y}]
      <3>1. Pick(t) \in t
        BY PickIsIn
      <3>. DEFINE p == Pick(t)
      <3>2. g[t] = v[p] + g[t \ {p}]
        BY <1>2
      <3>. HIDE DEF p
      <3>3. p \in t
        BY <3>1 DEF p
      <3>4. CASE p = y
        BY <3>2, <3>4
      <3>5. CASE p # y
        <4>1. /\ t \ {p} \in SUBSET S /\ Cardinality(t \ {p}) <= n /\ y \in t \ {p}
              /\ t \ {y} \in SUBSET S /\ Cardinality(t \ {y}) <= n /\ p \in t \ {y}
          BY <1>1, <2>1, <2>2, <3>3, <3>5, OneFewer
        <4>2. g[t \ {p}] = v[y] + g[(t \ {p}) \ {y}]
          BY <4>1
        <4>3. g[t \ {y}] = v[p] + g[(t \ {y}) \ {p}]
          BY <4>1
        <4>4. (t \ {p}) \ {y} = (t \ {y}) \ {p}
          OBVIOUS
        <4>5. v[p] \in Int /\ v[y] \in Int /\ g[(t \ {y}) \ {p}] \in Int
          BY <1>1, <3>3
        <4>6. \A a, b, n1, n2 : /\ n1 \in Int /\ n2 \in Int /\ a \in Int /\ b = n2 + a
                                => n1 + b = n2 + (n1 + a)
          OBVIOUS
        <4>7. g[t \ {p}] = v[y] + g[(t \ {y}) \ {p}]
          BY <4>2, <4>4
        <4>8. v[p] + g[t \ {p}] = v[y] + (v[p] + g[(t \ {y}) \ {p}])
          BY <4>5, <4>6, <4>7
        <4>. QED  BY <3>2, <4>3, <4>8
      <3>. QED  BY <3>4, <3>5
    <2>. QED  BY <2>1, <2>2
  <1>5. N = Nat
    <2>1. N \in SUBSET Nat
      OBVIOUS
    <2>. HIDE DEF N
    <2>. QED  BY <1>3, <1>4, <2>1, NaturalsInSet
  <1>6. Cardinality(S) \in N /\ Cardinality(S) <= Cardinality(S) /\ S \in SUBSET S
    BY <1>1, <1>5
  <1>. QED  BY <1>6 DEF Plus

-----------------------------------------------------------------------------
LEMMA SumAdds ==
  ASSUME NEW S, IsFiniteSet(S), NEW v, \A i \in S : v[i] \in Int
  PROVE  \E g \in [SUBSET S -> Int] : Adds(g, v, S) /\ SumFunctionOnSet(v, S) = g[S]
  <1>. DEFINE g == CHOOSE f : Adds(f, v, S)
  <1>1. PICK f \in [SUBSET S -> Int] : Adds(f, v, S)
    BY SumExists
  <1>2. Adds(g, v, S)
    <2>. HIDE DEF g
    <2>1. g = CHOOSE e : Adds(e, v, S)
      BY DEF g
    <2>. QED  BY <1>1, <2>1, Zenon
  <1>3. SumFunctionOnSet(v, S) = g[S]
    BY SumByDefinition
  <1>. HIDE DEF g
  <1>4. \A s \in SUBSET S : g[s] = f[s]
    BY <1>1, <1>2, AddsAgree, FS_Subset
  <1>5. g = [s \in SUBSET S |-> g[s]]
    BY <1>2 DEF Adds
  <1>6. g \in [SUBSET S -> Int]
    BY <1>1, <1>4, <1>5
  <1>. QED  BY <1>2, <1>3, <1>6

(* The sum of finitely many integers is one, that of none is 0.              *)
LEMMA SumIsInt ==
  ASSUME NEW S, IsFiniteSet(S), NEW v, \A i \in S : v[i] \in Int
  PROVE  SumFunctionOnSet(v, S) \in Int
  <1>1. PICK g \in [SUBSET S -> Int] : SumFunctionOnSet(v, S) = g[S]
    BY SumAdds
  <1>. QED  BY <1>1

LEMMA SumOfNone ==
  ASSUME NEW v
  PROVE  SumFunctionOnSet(v, {}) = 0
  <1>1. PICK g : Adds(g, v, {}) /\ SumFunctionOnSet(v, {}) = g[{}]
    BY SumAdds, FS_EmptySet
  <1>. QED  BY <1>1, AddsNone

(* One more element adds its value.                                          *)
LEMMA SumOfOneMore ==
  ASSUME NEW S, IsFiniteSet(S), NEW v, \A i \in S : v[i] \in Int, NEW x, x \notin S, v[x] \in Int
  PROVE  SumFunctionOnSet(v, S \cup {x}) = v[x] + SumFunctionOnSet(v, S)
  <1>. DEFINE T == S \cup {x}
  <1>1. IsFiniteSet(T)
    BY FS_AddElement
  <1>2. \A i \in T : v[i] \in Int
    OBVIOUS
  <1>3. S \in SUBSET T /\ T \in SUBSET T /\ x \in T /\ T \ {x} = S
    OBVIOUS
  <1>. HIDE DEF T
  <1>4. PICK g \in [SUBSET T -> Int] : Adds(g, v, T) /\ SumFunctionOnSet(v, T) = g[T]
    BY <1>1, <1>2, SumAdds
  <1>5. PICK h : Adds(h, v, S) /\ SumFunctionOnSet(v, S) = h[S]
    BY SumAdds
  <1>6. g[T] = v[x] + g[S]
    <2>1. g[T] = Plus(v[x], g[T \ {x}])
      BY <1>1, <1>2, <1>3, <1>4, AddsInAnyOrder
    <2>. QED  BY <1>3, <2>1 DEF Plus
  <1>7. g[S] = h[S]
    <2>1. S \in SUBSET S
      OBVIOUS
    <2>. QED  BY <1>3, <1>4, <1>5, <2>1, AddsAgree
  <1>. QED  BY <1>4, <1>5, <1>6, <1>7 DEF T

(* Values that agree add up to the same.                                     *)
LEMMA SumsAgree ==
  ASSUME NEW S, IsFiniteSet(S), NEW v, NEW w, \A i \in S : v[i] \in Int /\ v[i] = w[i]
  PROVE  SumFunctionOnSet(v, S) = SumFunctionOnSet(w, S)
  <1>1. PICK g : Adds(g, v, S) /\ SumFunctionOnSet(v, S) = g[S]
    BY SumAdds
  <1>2. PICK h : Adds(h, w, S) /\ SumFunctionOnSet(w, S) = h[S]
    BY SumAdds
  <1>3. S \in SUBSET S
    OBVIOUS
  <1>. QED  BY <1>1, <1>2, <1>3, AddsAgree

(* Disjoint sets add up to the sum of their sums.                            *)
LEMMA SumOfUnion ==
  ASSUME NEW S, IsFiniteSet(S), NEW T, IsFiniteSet(T), S \cap T = {},
         NEW v, \A i \in S \cup T : v[i] \in Int
  PROVE  SumFunctionOnSet(v, S \cup T) = SumFunctionOnSet(v, S) + SumFunctionOnSet(v, T)
  <1>. DEFINE Adds2(U) == SumFunctionOnSet(v, S \cup U) = SumFunctionOnSet(v, S) + SumFunctionOnSet(v, U)
              N == {n \in Nat : \A U \in SUBSET T : Cardinality(U) <= n => Adds2(U)}
  <1>1. \A U \in SUBSET T : IsFiniteSet(U) /\ Cardinality(U) \in Nat
    BY FS_Subset, FS_CardinalityType
  <1>2. SumFunctionOnSet(v, S) \in Int
    BY SumIsInt
  <1>3. Adds2({})
    <2>1. S \cup {} = S /\ SumFunctionOnSet(v, {}) = 0
      BY SumOfNone
    <2>. QED  BY <1>2, <2>1
  <1>4. 0 \in N
    <2>. HIDE DEF Adds2
    <2>. QED  BY <1>1, <1>3, NoneLeft
  <1>5. ASSUME NEW n \in N  PROVE n + 1 \in N
    <2>1. n \in Nat /\ n + 1 \in Nat
      OBVIOUS
    <2>2. ASSUME NEW U \in SUBSET T, Cardinality(U) <= n + 1  PROVE Adds2(U)
      <3>1. CASE U = {}
        <4>. HIDE DEF Adds2
        <4>. QED  BY <1>3, <3>1
      <3>2. CASE U # {}
        <4>1. PICK x \in U : TRUE
          BY <3>2
        <4>. DEFINE W == U \ {x}
                    SW == S \cup W
        <4>2. Cardinality(W) <= n /\ W \in SUBSET T
          BY <1>1, <2>1, <2>2, OneFewer
        <4>3. Adds2(W)
          BY <4>2
        <4>4. IsFiniteSet(W) /\ IsFiniteSet(SW)
          BY <1>1, <4>2, FS_Union
        <4>5. /\ SW \cup {x} = S \cup U /\ W \cup {x} = U /\ x \notin SW /\ x \notin W
              /\ \A i \in SW : v[i] \in Int
              /\ \A i \in W : v[i] \in Int
              /\ v[x] \in Int
          OBVIOUS
        <4>6. SumFunctionOnSet(v, SW) = SumFunctionOnSet(v, S) + SumFunctionOnSet(v, W)
          BY <4>3
        <4>. HIDE DEF SW, W
        <4>7. SumFunctionOnSet(v, SW \cup {x}) = v[x] + SumFunctionOnSet(v, SW)
          BY <4>4, <4>5, SumOfOneMore
        <4>8. SumFunctionOnSet(v, W \cup {x}) = v[x] + SumFunctionOnSet(v, W)
          BY <4>4, <4>5, SumOfOneMore
        <4>9. SumFunctionOnSet(v, W) \in Int
          BY <4>4, <4>5, SumIsInt
        <4>10. \A a, b, n1, n2 : n1 \in Int /\ n2 \in Int /\ a \in Int /\ b = n1 + n2
                                  => a + b = n1 + (a + n2)
          OBVIOUS
        <4>11. v[x] + SumFunctionOnSet(v, SW) = SumFunctionOnSet(v, S) + (v[x] + SumFunctionOnSet(v, W))
          BY <1>2, <4>5, <4>6, <4>9, <4>10
        <4>. QED  BY <4>5, <4>7, <4>8, <4>11
      <3>. QED  BY <3>1, <3>2
    <2>. HIDE DEF Adds2
    <2>. QED  BY <2>1, <2>2
  <1>6. N = Nat
    <2>. HIDE DEF Adds2
    <2>1. N \in SUBSET Nat
      OBVIOUS
    <2>. HIDE DEF N
    <2>. QED  BY <1>4, <1>5, <2>1, NaturalsInSet
  <1>7. Cardinality(T) \in N /\ Cardinality(T) <= Cardinality(T) /\ T \in SUBSET T
    BY <1>1, <1>6
  <1>. QED  BY <1>7

(* Naturals add up to a natural.                                             *)
LEMMA SumIsNat ==
  ASSUME NEW S, IsFiniteSet(S), NEW v, \A i \in S : v[i] \in Nat
  PROVE  SumFunctionOnSet(v, S) \in Nat
  <1>. DEFINE N == {n \in Nat : \A U \in SUBSET S :
                      Cardinality(U) <= n => SumFunctionOnSet(v, U) \in Nat}
  <1>1. \A U \in SUBSET S : IsFiniteSet(U) /\ Cardinality(U) \in Nat
    BY FS_Subset, FS_CardinalityType
  <1>2. 0 \in N
    BY <1>1, NoneLeft, SumOfNone
  <1>3. ASSUME NEW n \in N  PROVE n + 1 \in N
    <2>1. n \in Nat /\ n + 1 \in Nat
      OBVIOUS
    <2>2. ASSUME NEW U \in SUBSET S, Cardinality(U) <= n + 1
          PROVE  SumFunctionOnSet(v, U) \in Nat
      <3>1. CASE U = {}
        BY <3>1, SumOfNone
      <3>2. CASE U # {}
        <4>1. PICK x \in U : TRUE
          BY <3>2
        <4>. DEFINE W == U \ {x}
        <4>2. IsFiniteSet(W) /\ Cardinality(W) <= n /\ W \in SUBSET S
          BY <1>1, <2>1, <2>2, OneFewer
        <4>3. SumFunctionOnSet(v, W) \in Nat
          BY <4>2
        <4>4. /\ W \cup {x} = U /\ x \notin W /\ v[x] \in Nat
              /\ \A i \in W : v[i] \in Int
          OBVIOUS
        <4>. HIDE DEF W
        <4>5. SumFunctionOnSet(v, W \cup {x}) = v[x] + SumFunctionOnSet(v, W)
          BY <4>2, <4>4, SumOfOneMore
        <4>. QED  BY <4>3, <4>4, <4>5
      <3>. QED  BY <3>1, <3>2
    <2>. QED  BY <2>1, <2>2
  <1>4. N = Nat
    <2>1. N \in SUBSET Nat
      OBVIOUS
    <2>. HIDE DEF N
    <2>. QED  BY <1>2, <1>3, <2>1, NaturalsInSet
  <1>5. Cardinality(S) \in N /\ Cardinality(S) <= Cardinality(S) /\ S \in SUBSET S
    BY <1>1, <1>4
  <1>. QED  BY <1>5

(* Some of the summands add up to at most all of them.                       *)
LEMMA SumOfSome ==
  ASSUME NEW S, IsFiniteSet(S), NEW T, T \in SUBSET S, NEW v, \A i \in S : v[i] \in Nat
  PROVE  SumFunctionOnSet(v, T) <= SumFunctionOnSet(v, S)
  <1>. DEFINE U == S \ T
  <1>1. IsFiniteSet(T) /\ IsFiniteSet(U) /\ T \cap U = {} /\ T \cup U = S
    BY FS_Subset
  <1>2. \A i \in T \cup U : v[i] \in Nat
    OBVIOUS
  <1>. HIDE DEF U
  <1>3. SumFunctionOnSet(v, T \cup U) = SumFunctionOnSet(v, T) + SumFunctionOnSet(v, U)
    BY <1>1, <1>2, SumOfUnion
  <1>4. SumFunctionOnSet(v, T) \in Nat /\ SumFunctionOnSet(v, U) \in Nat
    BY <1>1, <1>2, SumIsNat
  <1>5. SumFunctionOnSet(v, S) = SumFunctionOnSet(v, T) + SumFunctionOnSet(v, U)
    BY <1>1, <1>3
  <1>6. \A a, b, c : a \in Nat /\ b \in Nat /\ c = a + b => a <= c
    OBVIOUS
  <1>. QED  BY <1>4, <1>5, <1>6

(* A collection of subsets of a finite set that has {} and, with each, the   *)
(* set with one element more has the set itself.                             *)
LEMMA Growing ==
  ASSUME NEW S, IsFiniteSet(S), NEW Q, {} \in Q,
         \A U \in SUBSET S, x \in S : U \in Q /\ x \notin U => U \cup {x} \in Q
  PROVE  S \in Q
  <1>. DEFINE N == {n \in Nat : \A U \in SUBSET S : Cardinality(U) <= n => U \in Q}
  <1>1. \A U \in SUBSET S : IsFiniteSet(U) /\ Cardinality(U) \in Nat
    BY FS_Subset, FS_CardinalityType
  <1>2. 0 \in N
    BY <1>1, NoneLeft
  <1>3. ASSUME NEW n \in N  PROVE n + 1 \in N
    <2>1. n \in Nat /\ n + 1 \in Nat
      OBVIOUS
    <2>2. ASSUME NEW U \in SUBSET S, Cardinality(U) <= n + 1, U # {}  PROVE U \in Q
      <3>1. PICK x \in U : TRUE
        BY <2>2
      <3>. DEFINE W == U \ {x}
      <3>2. Cardinality(W) <= n /\ W \in SUBSET S
        BY <1>1, <2>1, <2>2, OneFewer
      <3>3. W \in Q
        BY <3>2
      <3>4. x \in S /\ x \notin W /\ W \cup {x} = U
        OBVIOUS
      <3>. HIDE DEF W
      <3>. QED  BY <3>2, <3>3, <3>4
    <2>. QED  BY <2>1, <2>2
  <1>4. N = Nat
    <2>1. N \in SUBSET Nat
      OBVIOUS
    <2>. HIDE DEF N
    <2>. QED  BY <1>2, <1>3, <2>1, NaturalsInSet
  <1>5. Cardinality(S) \in N /\ Cardinality(S) <= Cardinality(S) /\ S \in SUBSET S
    BY <1>1, <1>4
  <1>. QED  BY <1>5

(* The sum of one element.                                                   *)
LEMMA SumOfOne ==
  ASSUME NEW v, NEW x, v[x] \in Int
  PROVE  SumFunctionOnSet(v, {x}) = v[x]
  <1>1. IsFiniteSet({}) /\ x \notin {} /\ \A i \in {} : v[i] \in Int
    BY FS_EmptySet
  <1>2. SumFunctionOnSet(v, {} \cup {x}) = v[x] + SumFunctionOnSet(v, {})
    BY <1>1, SumOfOneMore
  <1>3. {} \cup {x} = {x} /\ SumFunctionOnSet(v, {}) = 0
    BY SumOfNone
  <1>. QED  BY <1>2, <1>3

(* Summed group by group: w has the sum of the elements of each key.         *)
LEMMA SumByKey ==
  ASSUME NEW S, IsFiniteSet(S), NEW v, \A i \in S : v[i] \in Int,
         NEW K, IsFiniteSet(K), NEW key \in [S -> K],
         NEW w, \A k \in K : w[k] = SumFunctionOnSet(v, {i \in S : key[i] = k})
  PROVE  SumFunctionOnSet(v, S) = SumFunctionOnSet(w, K)
  <1>. DEFINE Of(L) == {i \in S : key[i] \in L}
              Q == {L \in SUBSET K : SumFunctionOnSet(v, Of(L)) = SumFunctionOnSet(w, L)}
  <1>1. \A L : IsFiniteSet(Of(L)) /\ \A i \in Of(L) : v[i] \in Int
    BY FS_Subset
  <1>2. {} \in Q
    <2>1. Of({}) = {}
      OBVIOUS
    <2>. QED  BY <2>1, SumOfNone
  <1>3. ASSUME NEW L \in SUBSET K, NEW k \in K, L \in Q, k \notin L  PROVE L \cup {k} \in Q
    <2>1. Of(L \cup {k}) = Of(L) \cup Of({k}) /\ Of(L) \cap Of({k}) = {}
      BY <1>3
    <2>2. Of({k}) = {i \in S : key[i] = k}
      OBVIOUS
    <2>3. SumFunctionOnSet(v, Of(L)) = SumFunctionOnSet(w, L)
      BY <1>3
    <2>4. w[k] = SumFunctionOnSet(v, Of({k})) /\ \A l \in L : w[l] \in Int
      <3>1. ASSUME NEW l \in K  PROVE w[l] = SumFunctionOnSet(v, Of({l})) /\ w[l] \in Int
        <4>1. Of({l}) = {i \in S : key[i] = l}
          OBVIOUS
        <4>2. IsFiniteSet(Of({l})) /\ \A i \in Of({l}) : v[i] \in Int
          BY <1>1
        <4>. HIDE DEF Of
        <4>3. SumFunctionOnSet(v, Of({l})) \in Int
          BY <4>2, SumIsInt
        <4>. QED  BY <4>1, <4>3
      <3>. QED  BY <3>1
    <2>5. IsFiniteSet(L) /\ w[k] \in Int
      <3>1. IsFiniteSet(Of({k})) /\ \A i \in Of({k}) : v[i] \in Int
        BY <1>1
      <3>. HIDE DEF Of
      <3>2. SumFunctionOnSet(v, Of({k})) \in Int
        BY <3>1, SumIsInt
      <3>. QED  BY <2>4, <3>2, FS_Subset
    <2>. DEFINE A == Of(L)
                B == Of({k})
    <2>6. IsFiniteSet(A) /\ IsFiniteSet(B) /\ A \cap B = {} /\ \A i \in A \cup B : v[i] \in Int
      BY <1>1, <2>1
    <2>. HIDE DEF A, B
    <2>7. SumFunctionOnSet(v, A \cup B) = SumFunctionOnSet(v, A) + SumFunctionOnSet(v, B)
      BY <2>6, SumOfUnion
    <2>8. SumFunctionOnSet(w, L \cup {k}) = w[k] + SumFunctionOnSet(w, L)
      BY <1>3, <2>4, <2>5, SumOfOneMore
    <2>9. SumFunctionOnSet(w, L) \in Int
      BY <2>4, <2>5, SumIsInt
    <2>10. A \cup B = Of(L \cup {k}) /\ A = Of(L) /\ B = Of({k})
      BY <2>1 DEF A, B
    <2>. HIDE DEF Of
    <2>11. \A a, b \in Int : a + b = b + a
      OBVIOUS
    <2>12. SumFunctionOnSet(v, Of(L \cup {k})) = SumFunctionOnSet(w, L \cup {k})
      BY <2>3, <2>4, <2>5, <2>7, <2>8, <2>9, <2>10, <2>11
    <2>. QED  BY <2>12
  <1>4. K \in Q
    <2>. HIDE DEF Q
    <2>. QED  BY <1>2, <1>3, Growing
  <1>5. Of(K) = S
    OBVIOUS
  <1>. QED  BY <1>4, <1>5

LEMMA SumByGroup ==
  ASSUME NEW S, IsFiniteSet(S), NEW v, \A i \in S : v[i] \in Int,
         NEW K, IsFiniteSet(K), NEW key \in [S -> K],
         NEW of, \A k \in K : of[k] = {i \in S : key[i] = k},
         NEW w, \A k \in K : w[k] = SumFunctionOnSet(v, of[k])
  PROVE  SumFunctionOnSet(v, S) = SumFunctionOnSet(w, K)
  <1>1. ASSUME NEW k \in K  PROVE w[k] = SumFunctionOnSet(v, {i \in S : key[i] = k})
    OBVIOUS
  <1>2. \A k \in K : w[k] = SumFunctionOnSet(v, {i \in S : key[i] = k})
    BY <1>1
  <1>. QED  BY <1>2, SumByKey

(* Summed over the other side of a one-to-one correspondence.                *)
LEMMA SumReindexed ==
  ASSUME NEW S, IsFiniteSet(S), NEW v, \A i \in S : v[i] \in Int,
         NEW T, NEW f \in [S -> T], \A i, j \in S : f[i] = f[j] => i = j,
         \A t \in T : \E i \in S : f[i] = t,
         NEW w, \A i \in S : w[f[i]] = v[i]
  PROVE  SumFunctionOnSet(v, S) = SumFunctionOnSet(w, T)
  <1>1. IsFiniteSet(T)
    <2>1. f \in Surjection(S, T)
      BY DEF Surjection
    <2>. QED  BY <2>1, FS_Surjection
  <1>2. ASSUME NEW t \in T  PROVE w[t] = SumFunctionOnSet(v, {i \in S : f[i] = t})
    <2>1. PICK i \in S : f[i] = t
      OBVIOUS
    <2>2. {j \in S : f[j] = t} = {i}
      BY <2>1
    <2>3. SumFunctionOnSet(v, {i}) = v[i]
      BY SumOfOne
    <2>. QED  BY <2>1, <2>2, <2>3
  <1>. QED  BY <1>1, <1>2, SumByKey

(* Zeros add nothing.                                                        *)
LEMMA SumOfZeros ==
  ASSUME NEW S, IsFiniteSet(S), NEW v, \A i \in S : v[i] = 0
  PROVE  SumFunctionOnSet(v, S) = 0
  <1>. DEFINE Q == {U \in SUBSET S : SumFunctionOnSet(v, U) = 0}
  <1>1. {} \in Q
    BY SumOfNone
  <1>2. ASSUME NEW U \in SUBSET S, NEW x \in S, U \in Q, x \notin U  PROVE U \cup {x} \in Q
    <2>1. IsFiniteSet(U) /\ SumFunctionOnSet(v, U) = 0 /\ v[x] = 0 /\ \A i \in U : v[i] \in Int
      BY <1>2, FS_Subset
    <2>2. SumFunctionOnSet(v, U \cup {x}) = v[x] + SumFunctionOnSet(v, U)
      BY <1>2, <2>1, SumOfOneMore
    <2>. QED  BY <2>1, <2>2
  <1>3. S \in Q
    <2>. HIDE DEF Q
    <2>. QED  BY <1>1, <1>2, Growing
  <1>. QED  BY <1>3

LEMMA SumWithoutZeros ==
  ASSUME NEW S, IsFiniteSet(S), NEW T, T \in SUBSET S, NEW v, \A i \in S : v[i] \in Int,
         \A i \in S \ T : v[i] = 0
  PROVE  SumFunctionOnSet(v, T) = SumFunctionOnSet(v, S)
  <1>. DEFINE U == S \ T
  <1>1. /\ IsFiniteSet(T) /\ IsFiniteSet(U) /\ T \cap U = {} /\ T \cup U = S
        /\ \A i \in U : v[i] = 0
    BY FS_Subset
  <1>2. \A i \in T \cup U : v[i] \in Int
    OBVIOUS
  <1>. HIDE DEF U
  <1>3. SumFunctionOnSet(v, T \cup U) = SumFunctionOnSet(v, T) + SumFunctionOnSet(v, U)
    BY <1>1, <1>2, SumOfUnion
  <1>4. SumFunctionOnSet(v, U) = 0 /\ SumFunctionOnSet(v, T) \in Int
    BY <1>1, <1>2, SumOfZeros, SumIsInt
  <1>5. \A a, b, c : a \in Int /\ b = 0 /\ c = a + b => a = c
    OBVIOUS
  <1>6. SumFunctionOnSet(v, T \cup U) = SumFunctionOnSet(v, S)
    BY <1>1
  <1>. QED  BY <1>3, <1>4, <1>5, <1>6

(* Sums of sums.                                                             *)
LEMMA SumOfSums ==
  ASSUME NEW S, IsFiniteSet(S), NEW v, NEW w, NEW u,
         \A i \in S : v[i] \in Int /\ w[i] \in Int /\ u[i] = v[i] + w[i]
  PROVE  SumFunctionOnSet(u, S) = SumFunctionOnSet(v, S) + SumFunctionOnSet(w, S)
  <1>. DEFINE Q == {U \in SUBSET S :
                      SumFunctionOnSet(u, U) = SumFunctionOnSet(v, U) + SumFunctionOnSet(w, U)}
  <1>1. {} \in Q
    BY SumOfNone
  <1>2. ASSUME NEW U \in SUBSET S, NEW x \in S, U \in Q, x \notin U  PROVE U \cup {x} \in Q
    <2>1. /\ IsFiniteSet(U) /\ v[x] \in Int /\ w[x] \in Int /\ u[x] = v[x] + w[x] /\ u[x] \in Int
          /\ \A i \in U : v[i] \in Int /\ w[i] \in Int /\ u[i] \in Int
      BY FS_Subset
    <2>2. /\ SumFunctionOnSet(v, U \cup {x}) = v[x] + SumFunctionOnSet(v, U)
          /\ SumFunctionOnSet(w, U \cup {x}) = w[x] + SumFunctionOnSet(w, U)
          /\ SumFunctionOnSet(u, U \cup {x}) = u[x] + SumFunctionOnSet(u, U)
      BY <1>2, <2>1, SumOfOneMore
    <2>3. /\ SumFunctionOnSet(v, U) \in Int /\ SumFunctionOnSet(w, U) \in Int
          /\ SumFunctionOnSet(u, U) = SumFunctionOnSet(v, U) + SumFunctionOnSet(w, U)
      BY <1>2, <2>1, SumIsInt
    <2>4. SumFunctionOnSet(u, U \cup {x}) = SumFunctionOnSet(v, U \cup {x}) + SumFunctionOnSet(w, U \cup {x})
      BY <2>1, <2>2, <2>3
    <2>. QED  BY <2>4
  <1>3. S \in Q
    <2>. HIDE DEF Q
    <2>. QED  BY <1>1, <1>2, Growing
  <1>. QED  BY <1>3

(* Rows and columns of a table add up to the same.                           *)
LEMMA SumOfTable ==
  ASSUME NEW A, IsFiniteSet(A), NEW B, IsFiniteSet(B),
         NEW m, \A a \in A, b \in B : m[a][b] \in Int,
         NEW row, \A a \in A : row[a] = SumFunctionOnSet(m[a], B),
         NEW n, \A b \in B, a \in A : n[b][a] = m[a][b],
         NEW col, \A b \in B : col[b] = SumFunctionOnSet(n[b], A)
  PROVE  SumFunctionOnSet(row, A) = SumFunctionOnSet(col, B)
  <1>. DEFINE Column(U) == [b \in B |-> SumFunctionOnSet([a \in A |-> m[a][b]], U)]
              Q == {U \in SUBSET A : SumFunctionOnSet(row, U) = SumFunctionOnSet(Column(U), B)}
  <1>1. \A U \in SUBSET A : IsFiniteSet(U)
    BY FS_Subset
  <1>2. \A a \in A : row[a] \in Int
    BY SumIsInt
  <1>3. ASSUME NEW U \in SUBSET A, NEW b \in B  PROVE Column(U)[b] \in Int
    <2>. DEFINE v == [a \in A |-> m[a][b]]
    <2>1. IsFiniteSet(U) /\ \A a \in U : v[a] \in Int
      BY <1>1
    <2>2. Column(U)[b] = SumFunctionOnSet(v, U)
      OBVIOUS
    <2>. HIDE DEF v
    <2>. QED  BY <2>1, <2>2, SumIsInt
  <1>4. {} \in Q
    <2>1. \A b \in B : Column({})[b] = 0
      BY SumOfNone
    <2>. DEFINE c == Column({})
    <2>. HIDE DEF c
    <2>2. SumFunctionOnSet(c, B) = 0
      BY <2>1, SumOfZeros DEF c
    <2>3. SumFunctionOnSet(row, {}) = SumFunctionOnSet(Column({}), B)
      BY <2>2, SumOfNone DEF c
    <2>. QED  BY <2>3
  <1>5. ASSUME NEW U \in SUBSET A, NEW x \in A, U \in Q, x \notin U  PROVE U \cup {x} \in Q
    <2>. DEFINE c == Column(U)
                d == Column(U \cup {x})
    <2>1. SumFunctionOnSet(row, U) = SumFunctionOnSet(c, B)
      BY <1>5
    <2>2. SumFunctionOnSet(row, U \cup {x}) = row[x] + SumFunctionOnSet(row, U)
      BY <1>1, <1>2, <1>5, SumOfOneMore
    <2>3. ASSUME NEW b \in B  PROVE c[b] \in Int /\ m[x][b] \in Int /\ d[b] = c[b] + m[x][b]
      <3>. DEFINE v == [a \in A |-> m[a][b]]
      <3>1. /\ IsFiniteSet(U) /\ v[x] = m[x][b] /\ v[x] \in Int
            /\ \A a \in U : v[a] \in Int
        BY <1>1
      <3>2. c[b] = SumFunctionOnSet(v, U) /\ d[b] = SumFunctionOnSet(v, U \cup {x})
        OBVIOUS
      <3>3. c[b] \in Int
        BY <1>3
      <3>. HIDE DEF v, c, d
      <3>4. SumFunctionOnSet(v, U \cup {x}) = v[x] + SumFunctionOnSet(v, U)
        BY <1>5, <3>1, SumOfOneMore
      <3>. QED  BY <3>1, <3>2, <3>3, <3>4
    <2>4. d = Column(U \cup {x})
      OBVIOUS
    <2>. HIDE DEF c, d
    <2>. DEFINE z == m[x]
    <2>. HIDE DEF z
    <2>5. \A b \in B : c[b] \in Int /\ z[b] \in Int /\ d[b] = c[b] + z[b]
      BY <2>3 DEF z
    <2>6. SumFunctionOnSet(d, B) = SumFunctionOnSet(c, B) + SumFunctionOnSet(z, B)
      BY <2>5, SumOfSums
    <2>7. row[x] = SumFunctionOnSet(z, B) /\ row[x] \in Int /\ SumFunctionOnSet(c, B) \in Int
      BY <1>2, <2>5, SumIsInt DEF z
    <2>8. SumFunctionOnSet(row, U \cup {x}) = SumFunctionOnSet(d, B)
      BY <2>1, <2>2, <2>6, <2>7
    <2>. HIDE DEF Column
    <2>. QED  BY <2>4, <2>8
  <1>6. A \in Q
    <2>. HIDE DEF Q
    <2>. QED  BY <1>4, <1>5, Growing
  <1>7. ASSUME NEW b \in B  PROVE Column(A)[b] = col[b]
    <2>. DEFINE v == [a \in A |-> m[a][b]]
                z == n[b]
    <2>1. \A a \in A : v[a] \in Int /\ v[a] = z[a]
      OBVIOUS
    <2>2. Column(A)[b] = SumFunctionOnSet(v, A) /\ col[b] = SumFunctionOnSet(z, A)
      OBVIOUS
    <2>. HIDE DEF v, z, Column
    <2>. QED  BY <2>1, <2>2, SumsAgree
  <1>8. ASSUME NEW b \in B  PROVE Column(A)[b] \in Int
    BY <1>3
  <1>. DEFINE c == Column(A)
  <1>9. \A b \in B : c[b] \in Int /\ c[b] = col[b]
    BY <1>7, <1>8
  <1>10. SumFunctionOnSet(row, A) = SumFunctionOnSet(c, B)
    BY <1>6
  <1>. HIDE DEF c
  <1>11. SumFunctionOnSet(c, B) = SumFunctionOnSet(col, B)
    BY <1>9, SumsAgree
  <1>. QED  BY <1>10, <1>11

(* Counting is adding ones.                                                  *)
LEMMA CountingAdds ==
  ASSUME NEW S, IsFiniteSet(S), NEW v, \A i \in S : v[i] = 1
  PROVE  SumFunctionOnSet(v, S) = Cardinality(S)
  <1>. DEFINE Q == {U \in SUBSET S : SumFunctionOnSet(v, U) = Cardinality(U)}
  <1>1. {} \in Q
    BY SumOfNone, FS_EmptySet
  <1>2. ASSUME NEW U \in SUBSET S, NEW x \in S, U \in Q, x \notin U  PROVE U \cup {x} \in Q
    <2>1. IsFiniteSet(U) /\ v[x] = 1 /\ v[x] \in Int /\ \A i \in U : v[i] \in Int
      BY FS_Subset
    <2>2. SumFunctionOnSet(v, U \cup {x}) = v[x] + SumFunctionOnSet(v, U)
      BY <1>2, <2>1, SumOfOneMore
    <2>3. Cardinality(U \cup {x}) = Cardinality(U) + 1 /\ Cardinality(U) \in Nat
      BY <1>2, <2>1, FS_AddElement, FS_CardinalityType
    <2>4. SumFunctionOnSet(v, U) = Cardinality(U)
      BY <1>2
    <2>. QED  BY <2>1, <2>2, <2>3, <2>4
  <1>3. S \in Q
    <2>. HIDE DEF Q
    <2>. QED  BY <1>1, <1>2, Growing
  <1>. QED  BY <1>3

(* Counted group by group.                                                   *)
LEMMA CountByKey ==
  ASSUME NEW S, IsFiniteSet(S), NEW K, IsFiniteSet(K), NEW key \in [S -> K],
         NEW w, \A k \in K : w[k] = Cardinality({i \in S : key[i] = k})
  PROVE  Cardinality(S) = SumFunctionOnSet(w, K)
  <1>. DEFINE v == [i \in S |-> 1]
  <1>1. \A i \in S : v[i] = 1 /\ v[i] \in Int
    OBVIOUS
  <1>. HIDE DEF v
  <1>2. ASSUME NEW k \in K  PROVE w[k] = SumFunctionOnSet(v, {i \in S : key[i] = k})
    <2>. DEFINE U == {i \in S : key[i] = k}
    <2>1. IsFiniteSet(U) /\ \A i \in U : v[i] = 1
      BY <1>1, FS_Subset
    <2>2. w[k] = Cardinality(U)
      OBVIOUS
    <2>. HIDE DEF U
    <2>3. w[k] = SumFunctionOnSet(v, U)
      BY <2>1, <2>2, CountingAdds
    <2>. QED  BY <2>3 DEF U
  <1>3. \A k \in K : w[k] = SumFunctionOnSet(v, {i \in S : key[i] = k})
    BY <1>2
  <1>4. \A i \in S : v[i] \in Int
    BY <1>1
  <1>5. SumFunctionOnSet(v, S) = SumFunctionOnSet(w, K)
    BY <1>3, <1>4, SumByKey
  <1>. QED  BY <1>1, <1>5, CountingAdds

-----------------------------------------------------------------------------
(* Sequences in order.                                                       *)

(* R is a strict total order of the elements of S.                           *)
TotalOrder(R, S) ==
  /\ \A x, y \in S : x # y => <<x, y>> \in R \/ <<y, x>> \in R
  /\ \A x \in S : <<x, x>> \notin R
  /\ \A x, y, z \in S : <<x, y>> \in R /\ <<y, z>> \in R => <<x, z>> \in R

Rising(e, R) == \A i, j \in DOMAIN e : i < j => <<e[i], e[j]>> \in R

(* A finite set under a total order that may have ties has a sequence of its *)
(* elements in which none comes before one it follows.                       *)
LEMMA ArrangedExists ==
  ASSUME NEW S, IsFiniteSet(S), NEW R,
         \A x, y \in S : <<x, y>> \in R \/ <<y, x>> \in R,
         \A x, y, z \in S : <<x, y>> \in R /\ <<y, z>> \in R => <<x, z>> \in R
  PROVE  \E e \in SetToSeqs(S) : Rising(e, R)
  <1>. DEFINE InOrder(e, n) == \A i, j \in 1..n : i < j => <<e[i], e[j]>> \in R /\ e[i] # e[j]
              Has(n, T) == \E e \in [1..n -> T] : InOrder(e, n)
              N == {n \in Nat : \A T \in SUBSET S : Cardinality(T) = n => Has(n, T)}
  <1>1. \A T \in SUBSET S : IsFiniteSet(T) /\ Cardinality(T) \in Nat
    BY FS_Subset, FS_CardinalityType
  <1>2. 0 \in N
    <2>1. ASSUME NEW T \in SUBSET S  PROVE Has(0, T)
      <3>. DEFINE e == [i \in 1..0 |-> i]
      <3>1. e \in [1..0 -> T] /\ \A i \in 1..0 : FALSE
        OBVIOUS
      <3>. QED  BY <3>1
    <2>. QED  BY <2>1
  <1>3. ASSUME NEW n \in N  PROVE n + 1 \in N
    <2>1. n \in Nat /\ n + 1 \in Nat
      OBVIOUS
    <2>2. ASSUME NEW T \in SUBSET S, Cardinality(T) = n + 1  PROVE Has(n + 1, T)
      <3>1. T # {} /\ IsFiniteSet(T)
        <4>1. Cardinality(T) # 0
          BY <2>1, <2>2
        <4>. QED  BY <1>1, <4>1, FS_EmptySet
      <3>2. PICK x \in T : \A y \in T : <<y, x>> \in R
        BY <3>1, GreatestElement
      <3>. DEFINE U == T \ {x}
      <3>3. Cardinality(U) = n /\ U \in SUBSET S
        <4>1. Cardinality(U) = (n + 1) - 1
          BY <1>1, <2>2, FS_RemoveElement
        <4>. QED  BY <2>1, <4>1
      <3>4. Has(n, U)
        BY <3>3
      <3>5. PICK e \in [1..n -> U] : InOrder(e, n)
        BY <3>4
      <3>. DEFINE f == [i \in 1..(n + 1) |-> IF i = n + 1 THEN x ELSE e[i]]
      <3>6. \A i \in 1..(n + 1) : i = n + 1 \/ i \in 1..n
        BY <2>1
      <3>7. f \in [1..(n + 1) -> T]
        BY <3>6
      <3>8. ASSUME NEW i \in 1..(n + 1), NEW j \in 1..(n + 1), i < j
            PROVE  <<f[i], f[j]>> \in R /\ f[i] # f[j]
        <4>1. i \in 1..n
          BY <2>1, <3>8
        <4>2. f[i] = e[i] /\ e[i] \in U
          BY <2>1, <4>1
        <4>3. CASE j = n + 1
          <5>1. f[j] = x
            BY <4>3
          <5>. QED  BY <3>2, <4>2, <5>1
        <4>4. CASE j # n + 1
          <5>1. j \in 1..n /\ f[j] = e[j]
            BY <3>6, <4>4
          <5>. QED  BY <3>5, <3>8, <4>1, <4>2, <5>1
        <4>. QED  BY <4>3, <4>4
      <3>. HIDE DEF f
      <3>. QED  BY <3>7, <3>8
    <2>. QED  BY <2>1, <2>2
  <1>4. N = Nat
    <2>. HIDE DEF Has
    <2>1. N \in SUBSET Nat
      OBVIOUS
    <2>. HIDE DEF N
    <2>. QED  BY <1>2, <1>3, <2>1, NaturalsInSet
  <1>. DEFINE m == Cardinality(S)
  <1>5. m \in N /\ m \in Nat
    BY <1>1, <1>4
  <1>6. Has(m, S)
    BY <1>5
  <1>. HIDE DEF N
  <1>7. PICK e \in [1..m -> S] : InOrder(e, m)
    BY <1>6
  <1>8. \A i, j \in 1..m : i # j => e[i] # e[j]
    <2>1. ASSUME NEW i \in 1..m, NEW j \in 1..m, i # j  PROVE e[i] # e[j]
      <3>1. i < j \/ j < i
        BY <1>5, <2>1
      <3>. QED  BY <1>7, <3>1
    <2>. QED  BY <2>1
  <1>9. e \in SetToSeqs(S)
    BY <1>7, <1>8 DEF SetToSeqs
  <1>10. Rising(e, R)
    BY <1>7 DEF Rising
  <1>. QED  BY <1>9, <1>10

(* A finite set under a strict total order has its elements in that order.   *)
LEMMA SortedExists ==
  ASSUME NEW S, IsFiniteSet(S), NEW R, TotalOrder(R, S)
  PROVE  \E e \in SetToSeqs(S) : Rising(e, R)
  <1>. DEFINE Q == R \cup {<<y, y>> : y \in S}
  <1>1. \A x, y \in S : <<x, y>> \in Q <=> <<x, y>> \in R \/ x = y
    OBVIOUS
  <1>. HIDE DEF Q
  <1>2. \A x, y \in S : <<x, y>> \in Q \/ <<y, x>> \in Q
    BY <1>1 DEF TotalOrder
  <1>3. \A x, y, z \in S : <<x, y>> \in Q /\ <<y, z>> \in Q => <<x, z>> \in Q
    BY <1>1 DEF TotalOrder
  <1>4. PICK e \in SetToSeqs(S) : Rising(e, Q)
    BY <1>2, <1>3, ArrangedExists
  <1>. DEFINE n == Cardinality(S)
  <1>5. n \in Nat /\ e \in [1..n -> S] /\ DOMAIN e = 1..n /\ \A i, j \in 1..n : e[i] = e[j] => i = j
    BY FS_CardinalityType DEF SetToSeqs
  <1>. HIDE DEF n
  <1>6. ASSUME NEW i \in 1..n, NEW j \in 1..n, i < j  PROVE <<e[i], e[j]>> \in R
    <2>1. i # j /\ <<e[i], e[j]>> \in Q
      BY <1>4, <1>5, <1>6 DEF Rising
    <2>. QED  BY <1>1, <1>5, <2>1
  <1>7. Rising(e, R)
    BY <1>5, <1>6 DEF Rising
  <1>. QED  BY <1>7

(* A sequence of the elements of a set has all of them, each once.           *)
LEMMA EachOnce ==
  ASSUME NEW S, IsFiniteSet(S), NEW e \in SetToSeqs(S)
  PROVE  /\ e \in [1..Cardinality(S) -> S] /\ Cardinality(S) \in Nat
         /\ e \in Seq(S) /\ Len(e) = Cardinality(S) /\ DOMAIN e = 1..Cardinality(S)
         /\ \A i, j \in 1..Cardinality(S) : e[i] = e[j] => i = j
         /\ \A x \in S : \E i \in 1..Cardinality(S) : e[i] = x
  <1>. DEFINE n == Cardinality(S)
  <1>1. n \in Nat
    BY FS_CardinalityType
  <1>2. e \in [1..n -> S] /\ \A i, j \in 1..n : i # j => e[i] # e[j]
    BY DEF SetToSeqs
  <1>. HIDE DEF n
  <1>3. e \in Seq(S) /\ Len(e) = n /\ DOMAIN e = 1..n
    BY <1>1, <1>2
  <1>4. IsFiniteSet(1..n) /\ Cardinality(1..n) = n
    BY <1>1, FS_Interval
  <1>5. ASSUME NEW x \in S  PROVE \E i \in 1..n : e[i] = x
    <2>. SUFFICES ASSUME \A i \in 1..n : e[i] # x  PROVE FALSE
      OBVIOUS
    <2>1. e \in [1..n -> S \ {x}]
      BY <1>2
    <2>2. IsFiniteSet(S \ {x}) /\ Cardinality(S \ {x}) = n - 1
      BY FS_RemoveElement DEF n
    <2>3. Cardinality(S \ {x}) < Cardinality(1..n)
      BY <1>1, <1>4, <2>2
    <2>4. \E i, j \in 1..n : i # j /\ e[i] = e[j]
      <3>. DEFINE D == 1..n
                  U == S \ {x}
      <3>1. IsFiniteSet(D) /\ IsFiniteSet(U) /\ Cardinality(U) < Cardinality(D) /\ e \in [D -> U]
        BY <1>4, <2>1, <2>2, <2>3
      <3>. HIDE DEF D, U
      <3>2. \E i, j \in D : i # j /\ e[i] = e[j]
        BY <3>1, FS_PigeonHole
      <3>. QED  BY <3>2 DEF D
    <2>. QED  BY <1>2, <2>4
  <1>. QED  BY <1>1, <1>2, <1>3, <1>5 DEF n

(* The first ones of such a sequence are those up to the last of them.       *)
LEMMA UpToOne ==
  ASSUME NEW S, IsFiniteSet(S), NEW R, TotalOrder(R, S), NEW e \in SetToSeqs(S), Rising(e, R),
         NEW i \in 1..Cardinality(S)
  PROVE  {e[j] : j \in 1..i} = {x \in S : x = e[i] \/ <<x, e[i]>> \in R}
  <1>. DEFINE n == Cardinality(S)
  <1>1. /\ n \in Nat /\ e \in [1..n -> S] /\ DOMAIN e = 1..n
        /\ \A x \in S : \E j \in 1..n : e[j] = x
    BY EachOnce
  <1>. HIDE DEF n
  <1>2. i \in 1..n
    BY DEF n
  <1>3. ASSUME NEW j \in 1..i  PROVE e[j] \in S /\ (e[j] = e[i] \/ <<e[j], e[i]>> \in R)
    <2>1. j \in 1..n /\ (j = i \/ j < i)
      BY <1>1, <1>2
    <2>. QED  BY <1>1, <1>2, <2>1 DEF Rising
  <1>4. ASSUME NEW x \in S, x = e[i] \/ <<x, e[i]>> \in R  PROVE \E j \in 1..i : e[j] = x
    <2>1. PICK j \in 1..n : e[j] = x
      BY <1>1
    <2>2. CASE j <= i
      <3>1. j \in 1..i
        BY <1>1, <1>2, <2>2
      <3>. QED  BY <2>1, <3>1
    <2>3. CASE i < j
      <3>1. <<e[i], x>> \in R /\ e[i] \in S
        BY <1>1, <1>2, <2>1, <2>3 DEF Rising
      <3>2. x # e[i] /\ <<x, e[i]>> \notin R
        BY <3>1 DEF TotalOrder
      <3>. QED  BY <1>4, <3>2
    <2>. QED  BY <1>1, <1>2, <2>2, <2>3
  <1>. QED  BY <1>3, <1>4
=============================================================================
