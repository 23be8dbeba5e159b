------------------------------- MODULE Induction -------------------------------
(***************************************************************************)
(* Induction over data, and sums.  The library's theorems of induction take *)
(* the formula to prove as a parameter; these take the set of the numbers,  *)
(* or of the subsets, for which it holds, and rest on the existence of      *)
(* minimal elements.                                                        *)
(***************************************************************************)
EXTENDS FiniteSetTheorems, TLAPS

Less == {p \in Nat \X Nat : p[1] < p[2]}

(* A set of numbers has a least one.                                        *)
LEMMA LeastNumber ==
  ASSUME NEW T \in SUBSET Nat, T # {}
  PROVE  \E n \in T : \A m \in T : n <= m
<1>1. IsWellFoundedOn(Less, Nat)
  <2>1. OpToRel(<, Nat) = Less
    BY DEF OpToRel, Less
  <2> QED  BY <2>1, NatLessThanWellFounded
<1>2. PICK n \in T : \A m \in T : ~ (<<m, n>> \in Less)
  BY <1>1, WFMin
<1>3. ASSUME NEW m \in T PROVE ~ (m < n)
  <2>1. <<m, n>> \in Nat \X Nat
    OBVIOUS
  <2>2. <<m, n>> \in Less <=> <<m, n>>[1] < <<m, n>>[2]
    BY <2>1 DEF Less
  <2> QED  BY <1>2, <2>2
<1> QED  BY <1>3

(* Induction over the natural numbers.                                      *)
LEMMA NumberInduction ==
  ASSUME NEW T \in SUBSET Nat, 0 \in T, \A n \in T : n + 1 \in T
  PROVE  T = Nat
<1> SUFFICES ASSUME T # Nat PROVE FALSE
  OBVIOUS
<1>1. PICK n \in Nat \ T : \A m \in Nat \ T : n <= m
  BY LeastNumber
<1>2. n # 0 /\ n - 1 \in Nat /\ n - 1 \in T
  BY <1>1
<1> QED  BY <1>1, <1>2

(* Induction over the subsets of a finite set, one element at a time.       *)
LEMMA SubsetInduction ==
  ASSUME NEW S, IsFiniteSet(S), NEW Q \in SUBSET (SUBSET S), {} \in Q,
         \A T \in SUBSET S : T # {} /\ (\A x \in T : T \ {x} \in Q) => T \in Q
  PROVE  Q = SUBSET S
<1> SUFFICES ASSUME Q # SUBSET S PROVE FALSE
  OBVIOUS
<1> DEFINE Bad == (SUBSET S) \ Q
<1>1. \E T \in Bad : \A U \in Bad : ~ (<<U, T>> \in StrictSubsetOrdering(S))
  <2>1. Bad # {} /\ Bad \subseteq FiniteSubsetsOf(S)
    BY FS_FiniteSubsetsOfFinite
  <2> HIDE DEF Bad
  <2> QED  BY <2>1, FS_StrictSubsetOrderingWellFounded, WFMin
<1>2. PICK T \in Bad : \A U \in Bad : ~ (<<U, T>> \in StrictSubsetOrdering(S))
  BY <1>1
<1>3. T # {}
  BY <1>2
<1>4. PICK x \in T : T \ {x} \notin Q
  BY <1>2, <1>3
<1>5. T \ {x} \in Bad
  BY <1>2, <1>4
<1>6. <<T \ {x}, T>> \in StrictSubsetOrdering(S)
  <2> DEFINE p == <<T \ {x}, T>>
  <2>1. p \in (SUBSET S) \X (SUBSET S) /\ p[1] = T \ {x} /\ p[2] = T
    OBVIOUS
  <2>2. p[1] \subseteq p[2] /\ p[1] # p[2]
    BY <2>1, <1>4
  <2> HIDE DEF p
  <2>3. p \in StrictSubsetOrdering(S)
    BY <2>1, <2>2 DEF StrictSubsetOrdering
  <2> QED  BY <2>3 DEF p
<1> QED  BY <1>2, <1>5, <1>6

-----------------------------------------------------------------------------
(* Sums.  A sum takes the elements of a set in the order of a CHOOSE; that   *)
(* there is such a function at all is shown by induction over the sizes.    *)

First(s) == CHOOSE x \in s : TRUE

Adds(g, f, S) ==
  g = [s \in SUBSET S |-> IF s = {} THEN 0 ELSE f[First(s)] + g[s \ {First(s)}]]

LEMMA SumsExist ==
  ASSUME NEW S, NEW f, IsFiniteSet(S)
  PROVE  \E g : Adds(g, f, S)
<1> DEFINE UpTo(n) == {s \in SUBSET S : Cardinality(s) <= n}
           Body(g, s) == IF s = {} THEN 0 ELSE f[First(s)] + g[s \ {First(s)}]
           T == {n \in Nat : \E g : g = [s \in UpTo(n) |-> Body(g, s)]}
<1>1. \A s \in SUBSET S : IsFiniteSet(s) /\ Cardinality(s) \in Nat
  BY FS_Subset, FS_CardinalityType
<1>2. \A s \in SUBSET S : s # {} =>
        First(s) \in s /\ Cardinality(s \ {First(s)}) = Cardinality(s) - 1
  BY <1>1, FS_RemoveElement DEF First
<1>3. 0 \in T
  <2> DEFINE g == [s \in UpTo(0) |-> 0]
  <2>1. \A s \in UpTo(0) : s = {}
    BY <1>1, FS_EmptySet
  <2>2. g = [s \in UpTo(0) |-> Body(g, s)]
    BY <2>1
  <2> QED  BY <2>2
<1>4. ASSUME NEW n \in T PROVE n + 1 \in T
  <2>1. PICK g : g = [s \in UpTo(n) |-> Body(g, s)]
    OBVIOUS
  <2> DEFINE h == [s \in UpTo(n + 1) |-> Body(g, s)]
  <2>2. ASSUME NEW s \in UpTo(n) PROVE s \in UpTo(n + 1) /\ h[s] = g[s]
    <3>1. s \in UpTo(n + 1)
      BY <1>1
    <3> HIDE DEF UpTo
    <3>2. h[s] = Body(g, s)
      BY <3>1
    <3>3. g[s] = Body(g, s)
      BY <2>1, Zenon
    <3> QED  BY <3>1, <3>2, <3>3
  <2>3. ASSUME NEW s \in UpTo(n + 1), s # {}
        PROVE  s \ {First(s)} \in UpTo(n)
    BY <2>3, <1>1, <1>2
  <2>4. ASSUME NEW s \in UpTo(n + 1) PROVE Body(g, s) = Body(h, s)
    <3> HIDE DEF UpTo
    <3>1. CASE s = {}
      BY <3>1
    <3>2. CASE s # {}
      <4>1. h[s \ {First(s)}] = g[s \ {First(s)}]
        BY <2>2, <2>3, <3>2
      <4> HIDE DEF h
      <4> QED  BY <4>1, <3>2
    <3> QED  BY <3>1, <3>2
  <2>5. h = [s \in UpTo(n + 1) |-> Body(h, s)]
    <3>1. h = [s \in UpTo(n + 1) |-> Body(g, s)]
      OBVIOUS
    <3> HIDE DEF h, UpTo, Body
    <3>2. [s \in UpTo(n + 1) |-> Body(g, s)] = [s \in UpTo(n + 1) |-> Body(h, s)]
      BY <2>4
    <3> QED  BY <3>1, <3>2
  <2> HIDE DEF h
  <2>6. \E k : k = [s \in UpTo(n + 1) |-> Body(k, s)]
    BY <2>5
  <2>7. n + 1 \in Nat
    OBVIOUS
  <2> HIDE DEF Body, UpTo
  <2> QED  BY <2>6, <2>7
<1>5. T = Nat
  <2> HIDE DEF T
  <2> QED  BY <1>3, <1>4, NumberInduction DEF T
<1>6. Cardinality(S) \in Nat /\ \A s \in SUBSET S : Cardinality(s) <= Cardinality(S)
  BY FS_Subset, FS_CardinalityType
<1>7. UpTo(Cardinality(S)) = SUBSET S
  BY <1>6
<1>8. \E g : g = [s \in UpTo(Cardinality(S)) |-> Body(g, s)]
  BY <1>5, <1>6
<1> QED  BY <1>7, <1>8 DEF Adds

LEMMA SumIsASum ==
  ASSUME NEW f, IsFiniteSet(DOMAIN f)
  PROVE  \E g : Adds(g, f, DOMAIN f) /\ SumFunction(f) = g[DOMAIN f]
<1> DEFINE iter == CHOOSE g : Adds(g, f, DOMAIN f)
<1>1. Adds(iter, f, DOMAIN f)
  BY SumsExist
<1>2. SumFunction(f) = iter[DOMAIN f]
  BY DEF SumFunction, SumFunctionOnSet, FoldFunctionOnSet, MapThenFoldSet, Adds, First
<1> QED  BY <1>1, <1>2

(* Two sums over one set take its elements in one order, so they differ by   *)
(* what one element differs by.                                             *)
LEMMA SumChangesBy ==
  ASSUME NEW D, IsFiniteSet(D), NEW f \in [D -> Int], NEW g \in [D -> Int],
         NEW d \in D, \A x \in D \ {d} : g[x] = f[x]
  PROVE  /\ SumFunction(f) \in Int
         /\ SumFunction(g) = SumFunction(f) + (g[d] - f[d])
<1>1. PICK F : Adds(F, f, D) /\ SumFunction(f) = F[D]
  BY SumIsASum
<1>2. PICK G : Adds(G, g, D) /\ SumFunction(g) = G[D]
  BY SumIsASum
<1> DEFINE Q == {s \in SUBSET D :
                   F[s] \in Int /\ G[s] = F[s] + (IF d \in s THEN g[d] - f[d] ELSE 0)}
<1>3. {} \in Q
  BY <1>1, <1>2 DEF Adds
<1>4. ASSUME NEW s \in SUBSET D, s # {}, \A y \in s : s \ {y} \in Q
      PROVE  s \in Q
  <2> DEFINE y == First(s)
  <2>1. y \in s
    BY <1>4 DEF First
  <2>2. F[s] = f[y] + F[s \ {y}] /\ G[s] = g[y] + G[s \ {y}]
    BY <1>1, <1>2, <1>4 DEF Adds
  <2>3. s \ {y} \in Q
    BY <1>4, <2>1
  <2> HIDE DEF y
  <2>4. CASE y = d
    BY <2>1, <2>2, <2>3, <2>4
  <2>5. CASE y # d
    BY <2>1, <2>2, <2>3, <2>5
  <2> QED  BY <2>4, <2>5
<1>5. Q = SUBSET D
  <2>1. Q \in SUBSET (SUBSET D)
    OBVIOUS
  <2> HIDE DEF Q
  <2> QED  BY <1>3, <1>4, <2>1, SubsetInduction
<1>6. D \in Q
  BY <1>5
<1> QED  BY <1>1, <1>2, <1>6

(* A sum of nothing is nothing, a sum of amounts is an amount, and it covers *)
(* each of them.                                                            *)
LEMMA SumOfZeros ==
  ASSUME NEW D, IsFiniteSet(D), NEW f \in [D -> {0}]
  PROVE  SumFunction(f) = 0
<1>1. PICK F : Adds(F, f, D) /\ SumFunction(f) = F[D]
  BY SumIsASum
<1> DEFINE Q == {s \in SUBSET D : F[s] = 0}
<1>2. {} \in Q
  BY <1>1 DEF Adds
<1>3. ASSUME NEW s \in SUBSET D, s # {}, \A y \in s : s \ {y} \in Q
      PROVE  s \in Q
  <2>1. First(s) \in s
    BY <1>3 DEF First
  <2>2. F[s] = f[First(s)] + F[s \ {First(s)}]
    BY <1>1, <1>3 DEF Adds
  <2> QED  BY <1>3, <2>1, <2>2
<1>4. Q = SUBSET D
  <2>1. Q \in SUBSET (SUBSET D)
    OBVIOUS
  <2> HIDE DEF Q
  <2> QED  BY <1>2, <1>3, <2>1, SubsetInduction
<1> QED  BY <1>1, <1>4

LEMMA SumOfAmounts ==
  ASSUME NEW D, IsFiniteSet(D), NEW f \in [D -> Nat]
  PROVE  /\ SumFunction(f) \in Nat
         /\ \A d \in D : f[d] <= SumFunction(f)
<1>1. ASSUME NEW h \in [D -> Nat] PROVE SumFunction(h) \in Nat
  <2>1. PICK F : Adds(F, h, D) /\ SumFunction(h) = F[D]
    BY SumIsASum
  <2> DEFINE Q == {s \in SUBSET D : F[s] \in Nat}
  <2>2. {} \in Q
    BY <2>1 DEF Adds
  <2>3. ASSUME NEW s \in SUBSET D, s # {}, \A y \in s : s \ {y} \in Q
        PROVE  s \in Q
    <3>1. First(s) \in s
      BY <2>3 DEF First
    <3>2. F[s] = h[First(s)] + F[s \ {First(s)}]
      BY <2>1, <2>3 DEF Adds
    <3> QED  BY <2>3, <3>1, <3>2
  <2>4. Q = SUBSET D
    <3>1. Q \in SUBSET (SUBSET D)
      OBVIOUS
    <3> HIDE DEF Q
    <3> QED  BY <2>2, <2>3, <3>1, SubsetInduction
  <2> QED  BY <2>1, <2>4
<1>2. ASSUME NEW d \in D PROVE f[d] <= SumFunction(f)
  <2> DEFINE h == [f EXCEPT ![d] = 0]
  <2>1. h \in [D -> Nat] /\ h[d] = 0 /\ \A x \in D \ {d} : h[x] = f[x]
    OBVIOUS
  <2> HIDE DEF h
  <2>2. SumFunction(h) \in Nat /\ SumFunction(f) \in Nat
    BY <1>1, <2>1
  <2>3. SumFunction(h) = SumFunction(f) + (h[d] - f[d])
    <3>1. f \in [D -> Int] /\ h \in [D -> Int]
      BY <2>1
    <3> QED  BY <2>1, <3>1, SumChangesBy
  <2> QED  BY <2>1, <2>2, <2>3
<1> QED  BY <1>1, <1>2
=============================================================================
