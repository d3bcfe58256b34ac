--------------------------- MODULE Counting_proofs ---------------------------
(***************************************************************************)
(* Counting and summing over finite sets, for the proofs of the other      *)
(* modules.                                                                *)
(***************************************************************************)
EXTENDS Integers, Sequences, Functions, FiniteSetTheorems, WellFoundedInduction, TLAPS

LEMMA IntervalCount ==
    \A n \in Nat : IsFiniteSet(1 .. n) /\ Cardinality(1 .. n) = n
BY FS_Interval

LEMMA AddOne ==
    ASSUME NEW S, NEW x, IsFiniteSet(S)
    PROVE  Cardinality(S \cup {x}) \in Nat /\ Cardinality(S \cup {x}) <= Cardinality(S) + 1
<1>1. Cardinality(S) \in Nat  BY FS_CardinalityType
<1>2. IsFiniteSet(S \cup {x})  BY FS_AddElement
<1>3. Cardinality(S \cup {x}) = IF x \in S THEN Cardinality(S) ELSE Cardinality(S) + 1
  BY FS_AddElement
<1>. QED  BY <1>1, <1>3

LEMMA DisjointCount ==
    ASSUME NEW S, NEW T, IsFiniteSet(S), IsFiniteSet(T), S \cap T = {}
    PROVE  Cardinality(S \cup T) = Cardinality(S) + Cardinality(T)
<1>1. Cardinality(S \cup T) = Cardinality(S) + Cardinality(T) - Cardinality(S \cap T)
  BY FS_Union
<1>2. Cardinality(S \cap T) = 0  BY FS_EmptySet
<1>3. Cardinality(S) \in Nat /\ Cardinality(T) \in Nat  BY FS_CardinalityType
<1>. QED  BY <1>1, <1>2, <1>3

LEMMA ConcatLength ==
    ASSUME NEW S, NEW T, NEW p \in Seq(S), NEW q \in Seq(T)
    PROVE  Len(p \o q) = Len(p) + Len(q)
<1>1. p \in Seq(S \cup T) /\ q \in Seq(S \cup T)  OBVIOUS
<1>. QED  BY <1>1

LEMMA LeastNat ==
    ASSUME NEW S, S \subseteq Nat, S # {}
    PROVE  \E m \in S : \A j \in S : m <= j
<1>1. PICK R : R = OpToRel(<, Nat)  OBVIOUS
<1>2. IsWellFoundedOn(R, Nat)  BY <1>1, NatLessThanWellFounded
<1>3. \A x, y \in Nat : y < x => <<y, x>> \in R  BY <1>1 DEF OpToRel
<1>4. PICK m \in S : \A j \in S : ~ (<<j, m>> \in R)  BY <1>2, WFMin
<1>5. ASSUME NEW j \in S PROVE m <= j
  <2>1. m \in Nat /\ j \in Nat  OBVIOUS
  <2>2. ~ (j < m)  BY <1>3, <1>4, <2>1
  <2>. QED  BY <2>1, <2>2
<1>. QED  BY <1>5

LEMMA GreatestNat ==
    ASSUME NEW n \in Nat, NEW S, S \subseteq 1 .. n, S # {}
    PROVE  \E m \in S : \A j \in S : m >= j
<1>1. PICK T : T = {n - i : i \in S}  OBVIOUS
<1>2. \A i \in 1 .. n : n - i \in Nat  OBVIOUS
<1>3. T \subseteq Nat /\ T # {}  BY <1>1, <1>2
<1>4. PICK t \in T : \A u \in T : t <= u  BY <1>3, LeastNat
<1>5. PICK m \in S : t = n - m  BY <1>1
<1>6. \A j \in S : n - j \in T /\ j \in 1 .. n  BY <1>1
<1>7. \A j \in S : n - m <= n - j  BY <1>4, <1>5, <1>6
<1>. QED  BY <1>6, <1>7

-----------------------------------------------------------------------------
(* Sums over finite functions.  A sum of naturals counts the unit steps    *)
(* under its graph, so that sums compare as the sets of units do.          *)
Units(w, S) == {u \in S \X Nat : u[2] \in 1 .. w[u[1]]}

(* G is the recursive function the sum is defined with.                    *)
SumsOf(G, w) ==
   G = [s \in SUBSET (DOMAIN w) |->
                  IF s = {} THEN 0
                  ELSE w[CHOOSE x \in s : TRUE] + G[s \ {CHOOSE x \in s : TRUE}]]

LEMMA Recursion ==
    ASSUME NEW w, NEW F, SumsOf(F, w)
    PROVE  \E G : SumsOf(G, w) /\ SumFunction(w) = G[DOMAIN w]
BY DEF SumFunction, SumFunctionOnSet, FoldFunctionOnSet, MapThenFoldSet, SumsOf

(* One index more adds its own units.                                      *)
LEMMA OneMore ==
    ASSUME NEW w, NEW S, NEW x \in S, w[x] \in Nat, IsFiniteSet(Units(w, S \ {x}))
    PROVE  /\ IsFiniteSet(Units(w, S))
           /\ Cardinality(Units(w, S)) = w[x] + Cardinality(Units(w, S \ {x}))
<1>. DEFINE U == {u \in {x} \X Nat : u[2] \in 1 .. w[u[1]]}
<1>1. PICK n : n = w[x]  OBVIOUS
<1>2. PICK f : f = [k \in 1 .. n |-> <<x, k>>]  OBVIOUS
<1>3. \A k \in 1 .. n : <<x, k>> \in U  BY <1>1
<1>4. \A u \in U : \E k \in 1 .. n : u = <<x, k>>  BY <1>1
<1>5. f \in Bijection(1 .. n, U)
  <2>1. f \in [1 .. n -> U]  BY <1>2, <1>3
  <2>2. \A j, k \in 1 .. n : f[j] = f[k] => j = k  BY <1>2
  <2>3. \A u \in U : \E k \in 1 .. n : f[k] = u  BY <1>2, <1>4
  <2>. QED  BY <2>1, <2>2, <2>3 DEF Bijection, Injection, Surjection, IsInjective
<1>6. n \in Nat /\ ExistsBijection(1 .. n, U)  BY <1>1, <1>5 DEF ExistsBijection
<1>7. IsFiniteSet(U) /\ Cardinality(U) = n
  <2>. HIDE DEF U
  <2>. QED  BY <1>6, FS_NatBijection, FS_CountingElements
<1>8. Units(w, S) = U \cup Units(w, S \ {x}) /\ U \cap Units(w, S \ {x}) = {}
  BY DEF Units
<1>9. PICK V : V = Units(w, S \ {x})  OBVIOUS
<1>10. IsFiniteSet(V) /\ Cardinality(V) \in Nat  BY <1>9, FS_CardinalityType
<1>11. Units(w, S) = U \cup V /\ U \cap V = {}  BY <1>8, <1>9
<1>. HIDE DEF U
<1>12. IsFiniteSet(U \cup V) /\ Cardinality(U \cup V) = n + Cardinality(V) - 0
  <2>1. Cardinality(U \cap V) = 0  BY <1>11, FS_EmptySet
  <2>2. /\ IsFiniteSet(U \cup V)
        /\ Cardinality(U \cup V) = Cardinality(U) + Cardinality(V) - Cardinality(U \cap V)
    BY <1>7, <1>10, FS_Union
  <2>. QED  BY <1>7, <2>1, <2>2
<1>. QED  BY <1>1, <1>6, <1>9, <1>10, <1>11, <1>12

(* By induction on the indices summed so far, the operator of the          *)
(* community modules and the count agree.                                  *)
LEMMA SumIsCount ==
    ASSUME NEW w, IsFiniteSet(DOMAIN w), \A x \in DOMAIN w : w[x] \in Nat
    PROVE  /\ IsFiniteSet(Units(w, DOMAIN w))
           /\ SumFunction(w) = Cardinality(Units(w, DOMAIN w))
<1>. DEFINE D == DOMAIN w
            one(s) == CHOOSE x \in s : TRUE
            R == StrictSubsetOrdering(D)
<1>1. IsWellFoundedOn(R, SUBSET D)
  BY FS_StrictSubsetOrderingWellFounded, FS_FiniteSubsetsOfFinite
<1>2. \A s \in SUBSET D : s # {} => one(s) \in s /\ s \ {one(s)} \in SUBSET D
                                   /\ <<s \ {one(s)}, s>> \in R
  BY DEF StrictSubsetOrdering
<1>3. \A s \in SUBSET D : IsFiniteSet(Units(w, s))
  <2>. DEFINE T == {s \in SUBSET D : ~ IsFiniteSet(Units(w, s))}
  <2>. SUFFICES ASSUME T # {} PROVE FALSE  OBVIOUS
  <2>1. T \subseteq SUBSET D  OBVIOUS
  <2>2. PICK s \in T : \A y \in T : ~ (<<y, s>> \in R)
    <3>. HIDE DEF T, R
    <3>. QED  BY <1>1, <2>1, WFMin
  <2>3. s # {}
    <3>1. Units(w, {}) = {}  BY DEF Units
    <3>. QED  BY <3>1, FS_EmptySet
  <2>4. s \ {one(s)} \notin T  BY <1>2, <2>2, <2>3
  <2>5. IsFiniteSet(Units(w, s \ {one(s)}))  BY <2>4
  <2>6. one(s) \in s /\ w[one(s)] \in Nat  BY <1>2, <2>3
  <2>. HIDE DEF one
  <2>. QED  BY <2>2, <2>5, <2>6, OneMore
<1>4. PICK F : F = [s \in SUBSET D |-> Cardinality(Units(w, s))]  OBVIOUS
<1>5. SumsOf(F, w)
  <2>1. ASSUME NEW s \in SUBSET D
        PROVE  F[s] = IF s = {} THEN 0 ELSE w[one(s)] + F[s \ {one(s)}]
    <3>1. CASE s = {}
      <4>1. Units(w, {}) = {}  BY DEF Units
      <4>. QED  BY <1>4, <3>1, <4>1, FS_EmptySet
    <3>2. CASE s # {}
      <4>1. one(s) \in s /\ w[one(s)] \in Nat /\ s \ {one(s)} \in SUBSET D  BY <1>2, <3>2
      <4>2. PICK x : x = one(s)  OBVIOUS
      <4>3. Cardinality(Units(w, s)) = w[x] + Cardinality(Units(w, s \ {x}))
        <5>. HIDE DEF one
        <5>. QED  BY <1>3, <4>1, <4>2, OneMore
      <4>. QED  BY <1>4, <3>2, <4>1, <4>2, <4>3
    <3>. QED  BY <3>1, <3>2
  <2>. QED  BY <1>4, <2>1 DEF SumsOf
<1>6. PICK G : SumsOf(G, w) /\ SumFunction(w) = G[D]  BY <1>5, Recursion
<1>7. \A s \in SUBSET D : G[s] = F[s]
  <2>. DEFINE T == {s \in SUBSET D : G[s] # F[s]}
  <2>. SUFFICES ASSUME T # {} PROVE FALSE  OBVIOUS
  <2>1. T \subseteq SUBSET D  OBVIOUS
  <2>2. PICK s \in T : \A y \in T : ~ (<<y, s>> \in R)
    <3>. HIDE DEF T, R
    <3>. QED  BY <1>1, <2>1, WFMin
  <2>3. /\ F[s] = IF s = {} THEN 0 ELSE w[one(s)] + F[s \ {one(s)}]
        /\ G[s] = IF s = {} THEN 0 ELSE w[one(s)] + G[s \ {one(s)}]
    BY <1>5, <1>6, <2>2 DEF SumsOf
  <2>4. s # {}  BY <2>2, <2>3
  <2>5. s \ {one(s)} \notin T /\ s \ {one(s)} \in SUBSET D  BY <1>2, <2>2, <2>4
  <2>6. G[s \ {one(s)}] = F[s \ {one(s)}]  BY <2>5
  <2>. QED  BY <2>2, <2>3, <2>4, <2>6
<1>8. SumFunction(w) = Cardinality(Units(w, D))  BY <1>4, <1>6, <1>7
<1>. QED  BY <1>3, <1>8

(* w is a finite function to the naturals.                                 *)
Weights(w) == IsFiniteSet(DOMAIN w) /\ \A x \in DOMAIN w : w[x] \in Nat

LEMMA SumType ==
    ASSUME NEW w, Weights(w)
    PROVE  SumFunction(w) \in Nat
BY SumIsCount, FS_CardinalityType DEF Weights

(* Selecting terms of a sum, each at most once, never makes it larger.     *)
LEMMA SumSelects ==
    ASSUME NEW v, NEW w, Weights(v), Weights(w), NEW h \in [DOMAIN v -> DOMAIN w],
           \A x, y \in DOMAIN v : h[x] = h[y] => x = y,
           \A x \in DOMAIN v : v[x] = w[h[x]]
    PROVE  SumFunction(v) <= SumFunction(w)
<1>. DEFINE A == Units(v, DOMAIN v)
            B == Units(w, DOMAIN w)
            g == [u \in A |-> <<h[u[1]], u[2]>>]
<1>1. \A u \in A : <<h[u[1]], u[2]>> \in B
  <2>. SUFFICES ASSUME NEW u \in A PROVE <<h[u[1]], u[2]>> \in B  OBVIOUS
  <2>1. PICK x \in DOMAIN v, k \in Nat : u = <<x, k>> /\ k \in 1 .. v[x]  BY DEF Units
  <2>2. h[x] \in DOMAIN w /\ v[x] \in Nat /\ w[h[x]] \in Nat /\ v[x] = w[h[x]]  BY DEF Weights
  <2>3. k \in 1 .. w[h[x]]  BY <2>1, <2>2
  <2>. QED  BY <2>1, <2>2, <2>3 DEF Units
<1>2. \A u, z \in A : g[u] = g[z] => u = z
  <2>. SUFFICES ASSUME NEW u \in A, NEW z \in A, g[u] = g[z] PROVE u = z  OBVIOUS
  <2>1. PICK x \in DOMAIN v, k \in Nat : u = <<x, k>>  BY DEF Units
  <2>2. PICK y \in DOMAIN v, l \in Nat : z = <<y, l>>  BY DEF Units
  <2>3. h[x] = h[y] /\ k = l  BY <2>1, <2>2
  <2>. QED  BY <2>1, <2>2, <2>3
<1>3. g \in Injection(A, B)
  <2>1. g \in [A -> B]  BY <1>1
  <2>. HIDE DEF A, B, g
  <2>. QED  BY <1>2, <2>1 DEF Injection, IsInjective
<1>4. /\ IsFiniteSet(A) /\ SumFunction(v) = Cardinality(A)
      /\ IsFiniteSet(B) /\ SumFunction(w) = Cardinality(B)
  BY SumIsCount DEF Weights
<1>5. Cardinality(A) <= Cardinality(B)
  <2>. HIDE DEF A, B, g
  <2>. QED  BY <1>3, <1>4, FS_Injection DEF ExistsInjection
<1>. QED  BY <1>4, <1>5

LEMMA SumDrops ==
    ASSUME NEW v, NEW w, Weights(v), Weights(w), DOMAIN v \subseteq DOMAIN w,
           \A x \in DOMAIN v : v[x] = w[x]
    PROVE  SumFunction(v) <= SumFunction(w)
<1>1. PICK h : h = [x \in DOMAIN v |-> x]  OBVIOUS
<1>2. /\ h \in [DOMAIN v -> DOMAIN w]
      /\ \A x, y \in DOMAIN v : h[x] = h[y] => x = y
      /\ \A x \in DOMAIN v : v[x] = w[h[x]]
  BY <1>1
<1>. QED  BY <1>2, SumSelects

(* A sum over two disjoint sets is the sum of the two sums.                *)
LEMMA SumSplits ==
    ASSUME NEW w, Weights(w), NEW S, NEW T, DOMAIN w = S \cup T, S \cap T = {}
    PROVE  SumFunction(w) = SumFunction([x \in S |-> w[x]]) + SumFunction([x \in T |-> w[x]])
<1>. DEFINE a == [x \in S |-> w[x]]
            b == [x \in T |-> w[x]]
<1>1. IsFiniteSet(S) /\ IsFiniteSet(T)
  <2>1. S \subseteq DOMAIN w /\ T \subseteq DOMAIN w  OBVIOUS
  <2>. QED  BY <2>1, FS_Subset DEF Weights
<1>2. /\ DOMAIN a = S /\ \A x \in S : a[x] \in Nat
      /\ DOMAIN b = T /\ \A x \in T : b[x] \in Nat
  BY DEF Weights
<1>3. /\ SumFunction(a) = Cardinality(Units(a, S)) /\ IsFiniteSet(Units(a, S))
      /\ SumFunction(b) = Cardinality(Units(b, T)) /\ IsFiniteSet(Units(b, T))
      /\ SumFunction(w) = Cardinality(Units(w, DOMAIN w))
  <2>. HIDE DEF a, b
  <2>. QED  BY <1>1, <1>2, SumIsCount DEF Weights
<1>4. Units(w, DOMAIN w) = Units(a, S) \cup Units(b, T)
  <2>1. \A u : u \in Units(w, DOMAIN w) => u \in Units(a, S) \cup Units(b, T)  BY DEF Units
  <2>2. \A u : u \in Units(a, S) => u \in Units(w, DOMAIN w)  BY DEF Units
  <2>3. \A u : u \in Units(b, T) => u \in Units(w, DOMAIN w)  BY DEF Units
  <2>. QED  BY <2>1, <2>2, <2>3
<1>5. Units(a, S) \cap Units(b, T) = {}
  BY DEF Units
<1>. QED  BY <1>3, <1>4, <1>5, DisjointCount

LEMMA SumOfOne ==
    ASSUME NEW x, NEW n \in Nat
    PROVE  SumFunction([y \in {x} |-> n]) = n
<1>. DEFINE w == [y \in {x} |-> n]
<1>1. IsFiniteSet({x})  BY FS_Singleton
<1>2. DOMAIN w = {x} /\ w[x] = n  OBVIOUS
<1>3. SumFunction(w) = Cardinality(Units(w, {x}))
  <2>1. \A y \in DOMAIN w : w[y] \in Nat  OBVIOUS
  <2>. HIDE DEF w
  <2>. QED  BY <1>1, <1>2, <2>1, SumIsCount
<1>4. Units(w, {x} \ {x}) = {}  BY DEF Units
<1>5. IsFiniteSet(Units(w, {x} \ {x})) /\ Cardinality(Units(w, {x} \ {x})) = 0
  BY <1>4, FS_EmptySet
<1>6. Cardinality(Units(w, {x})) = w[x] + Cardinality(Units(w, {x} \ {x}))
  <2>1. x \in {x} /\ w[x] \in Nat  OBVIOUS
  <2>. HIDE DEF w
  <2>. QED  BY <1>5, <2>1, OneMore
<1>. QED  BY <1>2, <1>3, <1>5, <1>6

LEMMA EmptySum ==
    ASSUME NEW w, DOMAIN w = {}
    PROVE  SumFunction(w) = 0
<1>1. Units(w, DOMAIN w) = {}  BY DEF Units
<1>2. IsFiniteSet(DOMAIN w)  BY FS_EmptySet
<1>. QED  BY <1>1, <1>2, SumIsCount, FS_EmptySet

(* Terms that grow make a sum grow.                                        *)
LEMMA SumGrows ==
    ASSUME NEW v, NEW w, Weights(v), Weights(w), DOMAIN v = DOMAIN w,
           \A x \in DOMAIN v : v[x] <= w[x]
    PROVE  SumFunction(v) <= SumFunction(w)
<1>. DEFINE A == Units(v, DOMAIN v)
            B == Units(w, DOMAIN w)
<1>1. A \subseteq B
  <2>. SUFFICES ASSUME NEW u \in A PROVE u \in B  OBVIOUS
  <2>1. PICK x \in DOMAIN v, k \in Nat : u = <<x, k>> /\ k \in 1 .. v[x]  BY DEF Units
  <2>2. v[x] \in Nat /\ w[x] \in Nat /\ v[x] <= w[x]  BY DEF Weights
  <2>3. k \in 1 .. w[x]  BY <2>1, <2>2
  <2>. QED  BY <2>1, <2>3 DEF Units
<1>2. /\ IsFiniteSet(A) /\ SumFunction(v) = Cardinality(A)
      /\ IsFiniteSet(B) /\ SumFunction(w) = Cardinality(B)
  BY SumIsCount DEF Weights
<1>3. Cardinality(A) <= Cardinality(B)
  <2>. HIDE DEF A, B
  <2>. QED  BY <1>1, <1>2, FS_Subset
<1>. QED  BY <1>2, <1>3

=============================================================================
