------------------------------ MODULE Triage_proofs ------------------------------
(***************************************************************************)
(* Proofs about Triage: score, tier and rank of a run agree, missions only *)
(* raise a score, the marking of an alert reaches every rendering of its   *)
(* threat's report, a finished run reports each alert of its batch in one  *)
(* threat, and one more reliable alert never makes a group look more like  *)
(* a false positive.                                                       *)
(***************************************************************************)
EXTENDS Triage, FiniteSetTheorems, WellFoundedInduction, TLAPS

-----------------------------------------------------------------------------
\* Finite sets and their extremes

\* A set of natural numbers that has 0, and with a number the next, has them all.
LEMMA InductiveSet ==
  ASSUME NEW S \in SUBSET Nat, 0 \in S, \A n \in S : n + 1 \in S
  PROVE  S = Nat
<1> SUFFICES ASSUME Nat \ S # {} PROVE FALSE
    OBVIOUS
<1> DEFINE T == Nat \ S
<1>1. PICK n \in T : \A m \in T : ~(<<m, n>> \in OpToRel(<, Nat))
    BY NatLessThanWellFounded, WFMin
<1>2. n - 1 \in Nat /\ n - 1 < n /\ (n - 1) + 1 = n
    OBVIOUS
<1>3. n - 1 \notin T
    BY <1>1, <1>2 DEF OpToRel
<1> QED  BY <1>2, <1>3

\* Without one of n + 1 elements there are n.
LEMMA OneLess ==
  ASSUME NEW s, IsFiniteSet(s), NEW n \in Nat, Cardinality(s) = n + 1, NEW x \in s
  PROVE  Cardinality(s \ {x}) = n
<1>1. Cardinality(s \ {x}) = Cardinality(s) - 1
    BY FS_RemoveElement
<1> QED  BY <1>1

\* A finite set of numbers that is not empty has a largest.
LEMMA MaxFacts ==
  ASSUME NEW S, S \subseteq Int, IsFiniteSet(S), S # {}
  PROVE  Max(S) \in S /\ \A y \in S : y <= Max(S)
<1> DEFINE Good(s) == s # {} => \E x \in s : \A y \in s : y <= x
           P(n) == \A s \in SUBSET S : Cardinality(s) = n => Good(s)
           T == {n \in Nat : P(n)}
<1>1. 0 \in T
  <2> SUFFICES ASSUME NEW s \in SUBSET S, Cardinality(s) = 0 PROVE s = {}
      OBVIOUS
  <2> QED  BY FS_Subset, FS_EmptySet
<1>2. ASSUME NEW n \in T PROVE n + 1 \in T
  <2>0. n \in Nat /\ n + 1 \in Nat /\ P(n)
      OBVIOUS
  <2> SUFFICES ASSUME NEW s \in SUBSET S, Cardinality(s) = n + 1, NEW e \in s
               PROVE  \E x \in s : \A y \in s : y <= x
      BY <2>0
  <2>1. s \ {e} \in SUBSET S /\ Cardinality(s \ {e}) = n
      BY <2>0, FS_Subset, OneLess
  <2>2. Good(s \ {e})
      BY <2>0, <2>1
  <2>3. CASE s \ {e} = {}
      BY <2>3
  <2>4. CASE s \ {e} # {}
    <3>1. PICK x \in s \ {e} : \A y \in s \ {e} : y <= x
        BY <2>2, <2>4
    <3>2. CASE e <= x
        BY <3>1, <3>2
    <3>3. CASE ~(e <= x)
      <4>1. \A y \in s : y <= e
          BY <3>1, <3>3
      <4> QED  BY <4>1
    <3> QED  BY <3>2, <3>3
  <2> QED  BY <2>3, <2>4
<1> HIDE DEF T
<1>3. T = Nat
  <2>1. T \in SUBSET Nat
      BY DEF T
  <2> QED  BY <1>1, <1>2, <2>1, InductiveSet
<1>4. Cardinality(S) \in T
    BY <1>3, FS_CardinalityType
<1>5. PICK x \in S : \A y \in S : y <= x
    BY <1>4 DEF T
<1>6. \E z \in S : \A y \in S : z >= y
    BY <1>5
<1>7. Max(S) \in S /\ \A y \in S : Max(S) >= y
    BY <1>6 DEF Max
<1> QED  BY <1>7

\* And a smallest.
LEMMA MinFacts ==
  ASSUME NEW S, S \subseteq Int, IsFiniteSet(S), S # {}
  PROVE  Min(S) \in S /\ \A y \in S : Min(S) <= y
<1> DEFINE negate == [x \in S |-> 0 - x]
           T == {negate[x] : x \in S}
<1>1. T \subseteq Int /\ T # {}
  <2>1. \A x \in S : negate[x] \in Int
      OBVIOUS
  <2> QED  BY <2>1
<1>2. IsFiniteSet(T)
  <2>1. negate \in Surjection(S, T)
      BY DEF Surjection
  <2> QED  BY <2>1, FS_Surjection
<1>3. Max(T) \in T /\ \A y \in T : y <= Max(T)
    BY <1>1, <1>2, MaxFacts
<1>4. PICK x \in S : Max(T) = 0 - x
    BY <1>3
<1>5. \A y \in S : x <= y
  <2> SUFFICES ASSUME NEW y \in S PROVE x <= y
      OBVIOUS
  <2>1. 0 - y \in T
      OBVIOUS
  <2>2. 0 - y <= 0 - x
      BY <1>3, <1>4, <2>1
  <2> QED  BY <2>2
<1> QED  BY <1>5 DEF Min

\* Of two numbers.
LEMMA OfTwo ==
  ASSUME NEW x \in Int, NEW y \in Int
  PROVE  /\ Max({x, y}) = (IF x >= y THEN x ELSE y)
         /\ Min({x, y}) = (IF x <= y THEN x ELSE y)
<1>1. IsFiniteSet({x, y}) /\ {x, y} \subseteq Int /\ {x, y} # {}
  <2>1. IsFiniteSet({x}) /\ {x, y} = {x} \cup {y}
      BY FS_Singleton
  <2> QED  BY <2>1, FS_AddElement
<1> QED  BY <1>1, MaxFacts, MinFacts

-----------------------------------------------------------------------------
\* Sums over finite sets

\* g has, for each subset of S, the sum of v over it.
SumsOf(S, v, g) ==
  g = [s \in SUBSET S |-> IF s = {} THEN 0
                          ELSE v[CHOOSE x \in s : TRUE] + g[s \ {CHOOSE x \in s : TRUE}]]

\* Such a function exists,
LEMMA SumsExist ==
  ASSUME NEW S, IsFiniteSet(S), NEW v \in [S -> Int]
  PROVE  \E g : SumsOf(S, v, g)
<1> DEFINE pick(s) == CHOOSE x \in s : TRUE
           body(s, g) == IF s = {} THEN 0 ELSE v[pick(s)] + g[s \ {pick(s)}]
           T == {n \in Nat : \E g \in [SUBSET S -> Int] :
                   \A s \in SUBSET S : Cardinality(s) <= n => g[s] = body(s, g)}
<1>1. 0 \in T
  <2> DEFINE g == [s \in SUBSET S |-> 0]
  <2>1. ASSUME NEW s \in SUBSET S, Cardinality(s) <= 0 PROVE g[s] = body(s, g)
    <3>1. IsFiniteSet(s)
        BY FS_Subset
    <3>2. Cardinality(s) = 0
        BY <2>1, <3>1, FS_CardinalityType
    <3>3. s = {}
        BY <3>1, <3>2, FS_EmptySet
    <3> QED  BY <3>3
  <2>2. g \in [SUBSET S -> Int]
      OBVIOUS
  <2> HIDE DEF g, body
  <2> QED  BY <2>1, <2>2
<1>2. ASSUME NEW n \in T PROVE n + 1 \in T
  <2>1. PICK g \in [SUBSET S -> Int] :
               \A s \in SUBSET S : Cardinality(s) <= n => g[s] = body(s, g)
      OBVIOUS
  <2> DEFINE h == [s \in SUBSET S |-> body(s, g)]
  <2>2. \A s \in SUBSET S : s # {} => pick(s) \in s /\ s \ {pick(s)} \in SUBSET S
      OBVIOUS
  <2>3. h \in [SUBSET S -> Int]
      BY <2>2
  <2>4. ASSUME NEW s \in SUBSET S, Cardinality(s) <= n + 1 PROVE h[s] = body(s, h)
    <3>1. CASE s = {}
        BY <3>1
    <3>2. CASE s # {}
      <4> DEFINE r == s \ {pick(s)}
      <4>1. pick(s) \in s /\ r \in SUBSET S
          BY <3>2, <2>2
      <4>2. IsFiniteSet(s) /\ Cardinality(s) \in Nat /\ Cardinality(r) = Cardinality(s) - 1
          BY <4>1, FS_Subset, FS_RemoveElement, FS_CardinalityType
      <4>3. Cardinality(r) <= n
          BY <4>2, <2>4
      <4>4. h[r] = body(r, g) /\ g[r] = body(r, g)
          BY <4>1, <4>3, <2>1
      <4>5. h[s] = v[pick(s)] + g[r]
          BY <3>2
      <4> QED  BY <3>2, <4>4, <4>5
    <3> QED  BY <3>1, <3>2
  <2>5. n + 1 \in Nat
      OBVIOUS
  <2> HIDE DEF h, body
  <2> QED  BY <2>3, <2>4, <2>5
<1> HIDE DEF T
<1>3. Cardinality(S) \in T
  <2>1. T \in SUBSET Nat
      BY DEF T
  <2>2. T = Nat
      BY <1>1, <1>2, <2>1, InductiveSet
  <2> QED  BY <2>2, FS_CardinalityType
<1>4. PICK g \in [SUBSET S -> Int] :
             \A s \in SUBSET S : Cardinality(s) <= Cardinality(S) => g[s] = body(s, g)
    BY <1>3 DEF T
<1>5. \A s \in SUBSET S : g[s] = body(s, g)
    BY <1>4, FS_Subset
<1>6. SumsOf(S, v, g)
    BY <1>5 DEF SumsOf
<1> QED  BY <1>6

\* its values are numbers,
LEMMA SumsAreNumbers ==
  ASSUME NEW S, IsFiniteSet(S), NEW v \in [S -> Int], NEW g, SumsOf(S, v, g)
  PROVE  g[S] \in Int
<1> DEFINE T == {n \in Nat : \A s \in SUBSET S : Cardinality(s) = n => g[s] \in Int}
<1>1. 0 \in T
  <2>1. ASSUME NEW s \in SUBSET S, Cardinality(s) = 0 PROVE g[s] \in Int
    <3>1. s = {}
        BY <2>1, FS_Subset, FS_EmptySet
    <3> QED  BY <3>1 DEF SumsOf
  <2> QED  BY <2>1
<1>2. ASSUME NEW n \in T PROVE n + 1 \in T
  <2>1. ASSUME NEW s \in SUBSET S, Cardinality(s) = n + 1 PROVE g[s] \in Int
    <3> DEFINE x == CHOOSE x \in s : TRUE
    <3>1. n \in Nat /\ IsFiniteSet(s) /\ s # {}
        BY <2>1, FS_Subset, FS_EmptySet
    <3>2. x \in s /\ s \ {x} \in SUBSET S
        BY <3>1
    <3>3. Cardinality(s \ {x}) = n
        BY <2>1, <3>1, <3>2, OneLess
    <3>4. g[s \ {x}] \in Int /\ v[x] \in Int
        BY <3>2, <3>3
    <3>5. g[s] = v[x] + g[s \ {x}]
        BY <3>1 DEF SumsOf
    <3> QED  BY <3>4, <3>5
  <2> QED  BY <2>1
<1> HIDE DEF T
<1>3. Cardinality(S) \in T
  <2>1. T \in SUBSET Nat
      BY DEF T
  <2>2. T = Nat
      BY <1>1, <1>2, <2>1, InductiveSet
  <2> QED  BY <2>2, FS_CardinalityType
<1> QED  BY <1>3 DEF T

\* and changing one value changes the sum by as much.
LEMMA SumsDiffer ==
  ASSUME NEW S, IsFiniteSet(S), NEW v \in [S -> Int], NEW w \in [S -> Int], NEW e \in S,
         \A x \in S \ {e} : w[x] = v[x],
         NEW g, SumsOf(S, v, g), NEW h, SumsOf(S, w, h)
  PROVE  g[S] \in Int /\ h[S] = g[S] + (w[e] - v[e])
<1> DEFINE d(s) == IF e \in s THEN w[e] - v[e] ELSE 0
           T == {n \in Nat : \A s \in SUBSET S :
                   Cardinality(s) = n => g[s] \in Int /\ h[s] = g[s] + d(s)}
<1>1. 0 \in T
  <2>1. ASSUME NEW s \in SUBSET S, Cardinality(s) = 0 PROVE g[s] \in Int /\ h[s] = g[s] + d(s)
    <3>1. s = {}
        BY <2>1, FS_Subset, FS_EmptySet
    <3>2. g[s] = 0 /\ h[s] = 0
        BY <3>1 DEF SumsOf
    <3> QED  BY <3>1, <3>2
  <2> QED  BY <2>1
<1>2. ASSUME NEW n \in T PROVE n + 1 \in T
  <2>1. ASSUME NEW s \in SUBSET S, Cardinality(s) = n + 1
        PROVE  g[s] \in Int /\ h[s] = g[s] + d(s)
    <3> DEFINE x == CHOOSE x \in s : TRUE
               r == s \ {x}
    <3>1. n \in Nat /\ IsFiniteSet(s) /\ s # {}
        BY <2>1, FS_Subset, FS_EmptySet
    <3>2. x \in s /\ r \in SUBSET S
        BY <3>1
    <3>3. Cardinality(r) = n
        BY <2>1, <3>1, <3>2, OneLess
    <3>4. g[r] \in Int /\ h[r] = g[r] + d(r)
        BY <3>2, <3>3
    <3>5. g[s] = v[x] + g[r] /\ h[s] = w[x] + h[r]
        BY <3>1 DEF SumsOf
    <3>6. v[x] \in Int /\ w[x] \in Int /\ v[e] \in Int /\ w[e] \in Int
        BY <3>2
    <3>7. CASE x = e
      <4>1. d(r) = 0 /\ d(s) = w[e] - v[e]
          BY <3>2, <3>7
      <4> HIDE DEF d, x, r
      <4> QED  BY <3>4, <3>5, <3>6, <3>7, <4>1
    <3>8. CASE x # e
      <4>1. d(r) = d(s) /\ w[x] = v[x] /\ d(s) \in Int
          BY <3>2, <3>6, <3>8
      <4> HIDE DEF d, x, r
      <4> QED  BY <3>4, <3>5, <3>6, <4>1
    <3> QED  BY <3>7, <3>8
  <2> QED  BY <2>1
<1> HIDE DEF T
<1>3. Cardinality(S) \in T
  <2>1. T \in SUBSET Nat
      BY DEF T
  <2>2. T = Nat
      BY <1>1, <1>2, <2>1, InductiveSet
  <2> QED  BY <2>2, FS_CardinalityType
<1> QED  BY <1>3 DEF T

\* The sums over the subsets of a part of S are those of S.
LEMMA SumsOfPart ==
  ASSUME NEW S, NEW v, NEW g, SumsOf(S, v, g), NEW R \in SUBSET S,
         NEW w, \A x \in R : w[x] = v[x]
  PROVE  \E h : SumsOf(R, w, h) /\ h[R] = g[R]
<1> DEFINE h == [s \in SUBSET R |-> g[s]]
           pick(s) == CHOOSE x \in s : TRUE
           body(s) == IF s = {} THEN 0 ELSE w[pick(s)] + h[s \ {pick(s)}]
<1>1. ASSUME NEW s \in SUBSET R PROVE h[s] = body(s)
  <2>1. s \in SUBSET S /\ h[s] = g[s]
      OBVIOUS
  <2>2. g[s] = IF s = {} THEN 0 ELSE v[pick(s)] + g[s \ {pick(s)}]
      BY <2>1 DEF SumsOf
  <2>3. s # {} => pick(s) \in s
      OBVIOUS
  <2> HIDE DEF pick
  <2>4. s # {} => /\ w[pick(s)] = v[pick(s)]
                  /\ h[s \ {pick(s)}] = g[s \ {pick(s)}]
      BY <2>3
  <2> QED  BY <2>1, <2>2, <2>4
<1>2. h = [s \in SUBSET R |-> body(s)]
  <2> HIDE DEF body
  <2> QED  BY <1>1
<1>3. h[R] = g[R]
    OBVIOUS
<1> HIDE DEF h
<1>4. SumsOf(R, w, h)
    BY <1>2, Zenon DEF SumsOf
<1> QED  BY <1>3, <1>4

\* The sum over a part of a finite set is a number.
LEMMA PartsAreNumbers ==
  ASSUME NEW S, IsFiniteSet(S), NEW v \in [S -> Int], NEW g, SumsOf(S, v, g), NEW R \in SUBSET S
  PROVE  g[R] \in Int
<1> DEFINE w == [x \in R |-> v[x]]
<1>1. w \in [R -> Int] /\ (\A x \in R : w[x] = v[x]) /\ IsFiniteSet(R)
    BY FS_Subset
<1> HIDE DEF w
<1>2. PICK h : SumsOf(R, w, h) /\ h[R] = g[R]
    BY <1>1, SumsOfPart
<1> QED  BY <1>1, <1>2, SumsAreNumbers

\* A sum is that without one element, and this element's value.
LEMMA SumsWithout ==
  ASSUME NEW S, IsFiniteSet(S), NEW v \in [S -> Int], NEW g, SumsOf(S, v, g), NEW e \in S
  PROVE  g[S] = v[e] + g[S \ {e}]
<1>1. \A s \in SUBSET S : g[s] \in Int
    BY PartsAreNumbers
<1> DEFINE T == {n \in Nat : \A s \in SUBSET S :
                   Cardinality(s) = n => \A x \in s : g[s] = v[x] + g[s \ {x}]}
<1>2. 0 \in T
  <2>1. ASSUME NEW s \in SUBSET S, Cardinality(s) = 0 PROVE s = {}
      BY <2>1, FS_Subset, FS_EmptySet
  <2> QED  BY <2>1
<1>3. ASSUME NEW n \in T PROVE n + 1 \in T
  <2>1. ASSUME NEW s \in SUBSET S, Cardinality(s) = n + 1, NEW x \in s
        PROVE  g[s] = v[x] + g[s \ {x}]
    <3> DEFINE y == CHOOSE z \in s : TRUE
    <3>1. n \in Nat /\ IsFiniteSet(s) /\ s # {}
        BY <2>1, FS_Subset
    <3>2. y \in s /\ g[s] = v[y] + g[s \ {y}]
        BY <3>1 DEF SumsOf
    <3> HIDE DEF y
    <3>3. CASE x = y
        BY <3>2, <3>3
    <3>4. CASE x # y
      <4> DEFINE rest == g[s \ {x, y}]
                 withX == g[s \ {y}]
                 withY == g[s \ {x}]
      <4>1. (s \ {y}) \ {x} = s \ {x, y} /\ (s \ {x}) \ {y} = s \ {x, y}
          OBVIOUS
      <4>2. Cardinality(s \ {x}) = n /\ Cardinality(s \ {y}) = n
          BY <2>1, <3>1, <3>2, OneLess
      <4>3. x \in s \ {y} /\ y \in s \ {x} /\ s \ {x} \in SUBSET S /\ s \ {y} \in SUBSET S
          BY <2>1, <3>2, <3>4
      <4>4. withX = v[x] + rest
        <5>1. withX = v[x] + g[(s \ {y}) \ {x}]
            BY <4>2, <4>3
        <5> QED  BY <4>1, <5>1
      <4>5. withY = v[y] + rest
        <5>1. withY = v[y] + g[(s \ {x}) \ {y}]
            BY <4>2, <4>3
        <5> QED  BY <4>1, <5>1
      <4>6. rest \in Int /\ v[x] \in Int /\ v[y] \in Int
        <5>1. s \ {x, y} \in SUBSET S /\ x \in S /\ y \in S
            BY <2>1, <3>2
        <5> QED  BY <1>1, <5>1
      <4>7. g[s] = v[y] + withX
          BY <3>2
      <4> HIDE DEF rest, withX, withY
      <4>8. g[s] = v[x] + withY
          BY <4>4, <4>5, <4>6, <4>7
      <4> QED  BY <4>8 DEF withY
    <3> QED  BY <3>3, <3>4
  <2>2. n + 1 \in Nat
      OBVIOUS
  <2> QED  BY <2>1, <2>2
<1> HIDE DEF T
<1>4. T = Nat
  <2>1. T \in SUBSET Nat
      BY DEF T
  <2> QED  BY <1>2, <1>3, <2>1, InductiveSet
<1>5. Cardinality(S) \in T /\ S \in SUBSET S
    BY <1>4, FS_CardinalityType
<1> QED  BY <1>5 DEF T

\* The sum of natural numbers is one.
LEMMA SumsAreNatural ==
  ASSUME NEW S, IsFiniteSet(S), NEW v \in [S -> Nat], NEW g, SumsOf(S, v, g)
  PROVE  g[S] \in Nat
<1> DEFINE T == {n \in Nat : \A s \in SUBSET S : Cardinality(s) = n => g[s] \in Nat}
<1>1. 0 \in T
  <2>1. ASSUME NEW s \in SUBSET S, Cardinality(s) = 0 PROVE g[s] \in Nat
    <3>1. s = {}
        BY <2>1, FS_Subset, FS_EmptySet
    <3> QED  BY <3>1 DEF SumsOf
  <2> QED  BY <2>1
<1>2. ASSUME NEW n \in T PROVE n + 1 \in T
  <2>1. ASSUME NEW s \in SUBSET S, Cardinality(s) = n + 1 PROVE g[s] \in Nat
    <3> DEFINE x == CHOOSE x \in s : TRUE
    <3>1. n \in Nat /\ IsFiniteSet(s) /\ s # {}
        BY <2>1, FS_Subset, FS_EmptySet
    <3>2. x \in s /\ s \ {x} \in SUBSET S
        BY <3>1
    <3>3. Cardinality(s \ {x}) = n
        BY <2>1, <3>1, <3>2, OneLess
    <3>4. g[s \ {x}] \in Nat /\ v[x] \in Nat
        BY <3>2, <3>3
    <3>5. g[s] = v[x] + g[s \ {x}]
        BY <3>1 DEF SumsOf
    <3> QED  BY <3>4, <3>5
  <2> QED  BY <2>1
<1> HIDE DEF T
<1>3. T = Nat
  <2>1. T \in SUBSET Nat
      BY DEF T
  <2> QED  BY <1>1, <1>2, <2>1, InductiveSet
<1> QED  BY <1>3, FS_CardinalityType DEF T

\* Two functions with the recursion of one sum agree.
LEMMA SumsAgree ==
  ASSUME NEW S, IsFiniteSet(S), NEW v \in [S -> Int], NEW g, SumsOf(S, v, g),
         NEW h, SumsOf(S, v, h)
  PROVE  g[S] = h[S]
<1>1. CASE S = {}
    BY <1>1 DEF SumsOf
<1>2. CASE S # {}
  <2>1. PICK e \in S : TRUE
      BY <1>2
  <2>2. g[S] \in Int /\ h[S] = g[S] + (v[e] - v[e]) /\ v[e] \in Int
      BY <2>1, SumsDiffer
  <2> QED  BY <2>2
<1> QED  BY <1>1, <1>2


\* n is the sum of v over S.
SumIs(S, v, n) ==
  /\ IsFiniteSet(S) /\ v \in [S -> Int]
  /\ \E g : SumsOf(S, v, g) /\ g[S] = n

\* The values of F are those of S, and that of e.
OneMore(S, v, e, F, w) ==
  /\ e \in F /\ S = F \ {e}
  /\ \A a \in S : v[a] = w[a]

\* The sum with one more element is the sum before, and its value.
LEMMA SumWithOneMore ==
  ASSUME NEW S, NEW v, NEW e, NEW F, NEW w, OneMore(S, v, e, F, w),
         NEW m, SumIs(S, v, m), NEW n, SumIs(F, w, n)
  PROVE  n = m + w[e]
<1>1. PICK h : SumsOf(S, v, h) /\ h[S] = m
    BY DEF SumIs
<1>2. IsFiniteSet(F) /\ w \in [F -> Int] /\ e \in F /\ w[e] \in Int
    BY DEF SumIs, OneMore
<1>3. \A g : SumsOf(F, w, g) => g[F] = w[e] + g[F \ {e}]
    BY <1>2, SumsWithout
<1>4. PICK g : SumsOf(F, w, g) /\ g[F] = n
    BY DEF SumIs
<1>5. IsFiniteSet(S) /\ v \in [S -> Int] /\ S \in SUBSET F /\ \A a \in S : v[a] = w[a]
    BY DEF SumIs, OneMore
<1>6. PICK k : SumsOf(S, v, k) /\ k[S] = g[S]
    BY <1>4, <1>5, SumsOfPart
<1>7. k[S] = h[S]
    BY <1>1, <1>5, <1>6, SumsAgree
<1>8. m = g[S]
    BY <1>1, <1>6, <1>7
<1>9. g[S] \in Int
    BY <1>2, <1>4, <1>5, PartsAreNumbers
<1>10. n = w[e] + g[S]
  <2>1. n = w[e] + g[F \ {e}]
      BY <1>3, <1>4
  <2> QED  BY <2>1 DEF OneMore
<1>11. n = w[e] + m /\ m \in Int
    BY <1>8, <1>9, <1>10
<1> QED  BY <1>2, <1>11

-----------------------------------------------------------------------------
\* Alerts

\* What intake makes of a valid alert: its numbers are in range, its lists end,
\* and it is marked as its source demands.
AlertOk(a) ==
  /\ a.reliability \in 0 .. 100 /\ a.criticality \in 0 .. 100 /\ a.time \in Int
  /\ IsFiniteSet(a.observables) /\ IsFiniteSet(a.techniques)
  /\ a.sourceType \in SensitiveSources => a.tlp = "TLP:RED"

\* The asset's fields, and what stays with the rest.
Unregistered(a, b) ==
  /\ DOMAIN b = DOMAIN a
  /\ \A f \in {"reliability", "time", "observables", "techniques", "sourceType", "tlp"} :
       b[f] = a[f]
  /\ b.criticality \in 0 .. 100

\* An entry of the registry says what it may say.
LEMMA OfRegistryKeeps ==
  ASSUME NEW a, DOMAIN a = DOMAIN DefaultAlert, a.criticality \in 0 .. 100,
         NEW ip \in DOMAIN AssetRegistry
  PROVE  Unregistered(a, OfRegistry(a, AssetRegistry[ip]))
<1> DEFINE entry == AssetRegistry[ip]
           b == OfRegistry(a, entry)
<1>1. /\ DOMAIN entry \subseteq {"asset", "hostname", "segment", "criticality", "tags"}
      /\ "criticality" \in DOMAIN entry => entry.criticality \in 0 .. 100
    BY TriageAssumption
<1>2. DOMAIN a = DOMAIN DefaultAlert /\ DOMAIN b = DOMAIN a
      /\ \A f \in DOMAIN a : b[f] = IF f \in DOMAIN entry THEN entry[f] ELSE a[f]
    BY DEF OfRegistry
<1>3. {"reliability", "time", "observables", "techniques", "sourceType", "tlp", "criticality"}
        \subseteq DOMAIN a
    BY <1>2 DEF DefaultAlert
<1> HIDE DEF entry, b
<1>4. \A f \in {"reliability", "time", "observables", "techniques", "sourceType", "tlp"} :
        b[f] = a[f]
    BY <1>1, <1>2, <1>3
<1>5. b["criticality"] \in 0 .. 100
    BY <1>1, <1>2, <1>3
<1> QED  BY <1>2, <1>4, <1>5 DEF Unregistered, b, entry

\* Looking up the asset changes nothing else.
LEMMA EnrichAssetKeeps ==
  ASSUME NEW a, DOMAIN a = DOMAIN DefaultAlert, a.criticality \in 0 .. 100,
         a.ips \in Seq(STRING)
  PROVE  Unregistered(a, EnrichAsset(a))
<1> DEFINE at == RegisteredIps(a)
           ip == CHOOSE i \in ObservedIps(a) : TRUE
           blank == [a EXCEPT !.asset = None, !.hostname = None, !.ips = <<ip>>,
                              !.segment = None, !.criticality = 50, !.tags = {}]
<1>1. CASE at # {}
  <2>1. at \subseteq 1 .. Len(a.ips) /\ Len(a.ips) \in Nat
      BY DEF RegisteredIps
  <2> HIDE DEF at
  <2>2. at \subseteq Int /\ IsFiniteSet(at)
    <3> DEFINE I == 1 .. Len(a.ips)
    <3>1. IsFiniteSet(I)
        BY <2>1, FS_Interval
    <3>2. I \subseteq Int /\ at \in SUBSET I
        BY <2>1
    <3> HIDE DEF I
    <3> QED  BY <3>1, <3>2, FS_Subset
  <2>3. Min(at) \in at
      BY <1>1, <2>2, MinFacts
  <2>4. a.ips[Min(at)] \in DOMAIN AssetRegistry
      BY <2>3 DEF RegisteredIps, at
  <2>5. EnrichAsset(a) = OfRegistry(a, AssetRegistry[a.ips[Min(at)]])
      BY <1>1 DEF EnrichAsset, at
  <2> QED  BY <2>4, <2>5, OfRegistryKeeps
<1>2. CASE at = {} /\ ObservedIps(a) # {}
  <2>1. ip \in DOMAIN AssetRegistry
      BY <1>2 DEF ObservedIps
  <2>2. DOMAIN blank = DOMAIN DefaultAlert
      OBVIOUS
  <2>3. blank.criticality \in 0 .. 100
      BY DEF DefaultAlert
  <2>4. \A f \in {"reliability", "time", "observables", "techniques", "sourceType", "tlp"} :
          blank[f] = a[f]
      BY DEF DefaultAlert
  <2>5. EnrichAsset(a) = OfRegistry(blank, AssetRegistry[ip])
      BY <1>2 DEF EnrichAsset
  <2> HIDE DEF blank, ip
  <2>6. Unregistered(blank, EnrichAsset(a))
      BY <2>1, <2>2, <2>3, <2>5, OfRegistryKeeps
  <2> QED  BY <2>2, <2>4, <2>6 DEF Unregistered
<1>3. CASE at = {} /\ ObservedIps(a) = {}
  <2>1. EnrichAsset(a) = a
      BY <1>3 DEF EnrichAsset
  <2> QED  BY <2>1 DEF Unregistered
<1> QED  BY <1>1, <1>2, <1>3

\* Intake makes proper alerts of valid ones.
LEMMA IntakeOk ==
  ASSUME NEW raw \in RawAlerts, ValidAlert(raw)
  PROVE  AlertOk(Enrich(Normalise(raw)))
<1> DEFINE n == Normalise(raw)
           e == EnrichAsset(n)
           g == ResolveGeo(e)
           a == AssignTlp(g)
<1>1. /\ DOMAIN raw = DOMAIN DefaultAlert
      /\ raw.time \in Int /\ raw.ips \in Seq(STRING)
      /\ IsFiniteSet(raw.observables) /\ IsFiniteSet(raw.mentions)
      /\ IsFiniteSet(raw.techniques)
      /\ raw.reliability \in 0 .. 100 /\ raw.criticality \in 0 .. 100
    BY TriageAssumption DEF ValidAlert
<1>2. /\ DOMAIN n = DOMAIN DefaultAlert
      /\ n.time \in Int /\ n.ips \in Seq(STRING) /\ IsFiniteSet(n.techniques)
      /\ n.reliability \in 0 .. 100 /\ n.criticality \in 0 .. 100
    BY <1>1 DEF Normalise, DefaultAlert
<1>3. IsFiniteSet(n.observables)
  <2>1. PICK found \in SUBSET raw.mentions : n.observables = raw.observables \cup found
    <3> DEFINE found == {o \in raw.mentions :
                  /\ o.value \notin {p.value : p \in raw.observables}
                  /\ ~(o.type = "ipv4-addr" /\ o.value \in PrivateIps)}
    <3>1. n = [raw EXCEPT !.observables = @ \cup found]
        BY DEF Normalise
    <3>2. "observables" \in DOMAIN raw
        BY <1>1 DEF DefaultAlert
    <3>3. n.observables = raw.observables \cup found
        BY <3>1, <3>2
    <3> QED  BY <3>3
  <2> QED  BY <1>1, <2>1, FS_Subset, FS_Union
<1> HIDE DEF n
<1>4. Unregistered(n, e)
    BY <1>2, EnrichAssetKeeps
<1>5. /\ DOMAIN e = DOMAIN DefaultAlert
      /\ e.time \in Int /\ e.reliability \in 0 .. 100 /\ e.criticality \in 0 .. 100
      /\ IsFiniteSet(e.observables) /\ IsFiniteSet(e.techniques)
    BY <1>2, <1>3, <1>4 DEF Unregistered
<1> HIDE DEF e
<1>6. /\ DOMAIN g = DOMAIN DefaultAlert
      /\ g.time \in Int /\ g.reliability \in 0 .. 100 /\ g.criticality \in 0 .. 100
      /\ IsFiniteSet(g.observables) /\ IsFiniteSet(g.techniques)
    BY <1>5 DEF ResolveGeo, DefaultAlert
<1> HIDE DEF g
<1>7. {"reliability", "time", "observables", "techniques", "sourceType", "tlp", "criticality"}
        \subseteq DOMAIN g
    BY <1>6 DEF DefaultAlert
<1>8. /\ a.time \in Int /\ a.reliability \in 0 .. 100 /\ a.criticality \in 0 .. 100
      /\ IsFiniteSet(a.observables) /\ IsFiniteSet(a.techniques)
    BY <1>6, <1>7 DEF AssignTlp
<1>9. a.sourceType \in SensitiveSources => a.tlp = "TLP:RED"
    BY <1>7 DEF AssignTlp
<1> QED  BY <1>8, <1>9 DEF AlertOk, Enrich, n, e, g

-----------------------------------------------------------------------------
\* Links

\* What the correlators are given.
BatchOk(alerts) == IsFiniteSet(alerts) /\ \A a \in alerts : AlertOk(a)

\* A pair is two proper alerts; what is taken of them is finite.
LEMMA PairFacts ==
  ASSUME NEW alerts, BatchOk(alerts), NEW p \in Pairs(alerts)
  PROVE  /\ IsFiniteSet(p) /\ p # {} /\ \A a \in p : AlertOk(a)
         /\ IsFiniteSet({a.time : a \in p}) /\ IsFiniteSet({a.criticality : a \in p})
<1>1. p \subseteq alerts /\ Cardinality(p) = 2
    BY DEF Pairs
<1>2. IsFiniteSet(p) /\ p # {} /\ \A a \in p : AlertOk(a)
    BY <1>1, FS_Subset, FS_EmptySet DEF BatchOk
<1>3. IsFiniteSet({a.time : a \in p})
  <2> DEFINE f == [a \in p |-> a.time]
  <2>1. f \in Surjection(p, {a.time : a \in p})
      BY DEF Surjection
  <2> QED  BY <1>2, <2>1, FS_Surjection
<1>4. IsFiniteSet({a.criticality : a \in p})
  <2> DEFINE f == [a \in p |-> a.criticality]
  <2>1. f \in Surjection(p, {a.criticality : a \in p})
      BY DEF Surjection
  <2> QED  BY <1>2, <2>1, FS_Surjection
<1> QED  BY <1>2, <1>3, <1>4

\* Numbers from 0 to n have a largest, from 0 to n.
LEMMA MaxBounded ==
  ASSUME NEW n \in Nat, NEW S, S \subseteq 0 .. n, S # {}
  PROVE  Max(S) \in 0 .. n
<1> DEFINE I == 0 .. n
<1>1. IsFiniteSet(I) /\ I \subseteq Int /\ S \in SUBSET I
    BY FS_Interval
<1> HIDE DEF I
<1>2. IsFiniteSet(S) /\ S \subseteq Int
    BY <1>1, FS_Subset
<1>3. Max(S) \in S
    BY <1>2, MaxFacts
<1> QED  BY <1>3

\* Confidences are in thousandths.
LEMMA MaxThousandths ==
  ASSUME NEW S, S \subseteq 0 .. 1000, S # {}
  PROVE  Max(S) \in 0 .. 1000
<1> DEFINE n == 1000
<1>1. n \in Nat /\ S \subseteq 0 .. n
    OBVIOUS
<1> HIDE DEF n
<1>2. Max(S) \in 0 .. n
    BY <1>1, MaxBounded
<1> QED  BY <1>2 DEF n

\* The smaller of a number and a bound is within the bound.
LEMMA Capped ==
  ASSUME NEW n \in Nat, NEW m \in Nat
  PROVE  Min({n, m}) \in 0 .. n
<1>1. Min({n, m}) = IF n <= m THEN n ELSE m
    BY OfTwo
<1> QED  BY <1>1

\* Of a natural number and a thousand, the smaller is a confidence.
LEMMA CappedThousand ==
  ASSUME NEW m \in Nat
  PROVE  Min({1000, m}) \in 0 .. 1000
<1> DEFINE n == 1000
<1>1. n \in Nat
    OBVIOUS
<1> HIDE DEF n
<1>2. Min({n, m}) \in 0 .. n
    BY <1>1, Capped
<1> QED  BY <1>2 DEF n

\* Links by observables.
LEMMA IocConfidence ==
  ASSUME NEW alerts, BatchOk(alerts), NEW l \in IocLinks(alerts)
  PROVE  l.confidence \in 0 .. 1000 /\ l.method = "IOC_MATCH"
<1> DEFINE values(p) == {Specificity(o) : o \in Shared(p)}
           bonus(p) == Min({150, 50 * (Cardinality(Shared(p)) - 1)})
           strength(p) == Min({1000, Max(values(p)) + bonus(p)})
<1>1. PICK p \in Pairs(alerts) :
        /\ \E o \in Shared(p) : o.type \notin WeakIocTypes
        /\ l = [pair |-> p, method |-> "IOC_MATCH", confidence |-> strength(p)]
  <2>1. PICK p \in {q \in Pairs(alerts) : \E o \in Shared(q) : o.type \notin WeakIocTypes} :
          l = [pair |-> p, method |-> "IOC_MATCH", confidence |-> strength(p)]
      BY Zenon DEF IocLinks
  <2> HIDE DEF strength
  <2> QED  BY <2>1, Zenon
<1> DEFINE n == Cardinality(Shared(p))
<1>2. IsFiniteSet(Shared(p)) /\ Shared(p) # {}
  <2>1. p # {} /\ \A a \in p : IsFiniteSet(a.observables)
      BY PairFacts DEF AlertOk
  <2>2. PICK a \in p : IsFiniteSet(a.observables)
      BY <2>1
  <2>3. Shared(p) \subseteq a.observables
      BY DEF Shared
  <2> QED  BY <1>1, <2>2, <2>3, FS_Subset
<1>3. n \in Nat /\ n # 0
    BY <1>2, FS_CardinalityType, FS_EmptySet
<1>4. values(p) \subseteq 0 .. 1000 /\ values(p) # {}
    BY <1>2 DEF Specificity
<1>5. Max(values(p)) \in Nat
  <2>1. Max(values(p)) \in 0 .. 1000
      BY <1>4, MaxThousandths
  <2> HIDE DEF values
  <2> QED  BY <2>1
<1>6. bonus(p) \in Nat
  <2>1. 50 * (n - 1) \in Nat /\ 150 \in Nat
      BY <1>3
  <2>2. Min({150, 50 * (n - 1)}) \in 0 .. 150
      BY <2>1, Capped, Zenon
  <2> QED  BY <2>2
<1> HIDE DEF values, bonus
<1> DEFINE m == Max(values(p)) + bonus(p)
<1>7. m \in Nat
    BY <1>5, <1>6
<1> HIDE DEF m
<1>8. Min({1000, m}) \in 0 .. 1000
    BY <1>7, CappedThousand
<1> QED  BY <1>1, <1>8 DEF m

\* A part of something is at most a hundred hundredths of it.
LEMMA Hundredths ==
  ASSUME NEW n \in Nat \ {0}, NEW m \in 0 .. n
  PROVE  (100 * m) \div n \in 0 .. 100
<1> DEFINE q == (100 * m) \div n
           r == (100 * m) % n
<1>1. q \in Int /\ r \in 0 .. n - 1 /\ 100 * m = n * q + r
    OBVIOUS
<1> HIDE DEF q, r
<1>2. q >= 0
  <2> SUFFICES ASSUME q <= -1 PROVE FALSE
      BY <1>1
  <2>1. n * q <= 0 - n
      BY <1>1
  <2> QED  BY <1>1, <2>1
<1>3. q <= 100
  <2> SUFFICES ASSUME q >= 101 PROVE FALSE
      BY <1>1
  <2>1. n * q >= 101 * n
      BY <1>1
  <2> QED  BY <1>1, <2>1
<1> QED  BY <1>1, <1>2, <1>3 DEF q

\* Links by time.
LEMMA TemporalConfidence ==
  ASSUME NEW alerts, BatchOk(alerts), NEW l \in TemporalLinks(alerts)
  PROVE  l.confidence \in 0 .. 1000
<1>1. PICK p \in Pairs(alerts) :
        /\ Distance(p) <= Window
        /\ l.confidence = (IF SameSource(p) THEN 150 ELSE 350)
                            + (100 * (Window - Distance(p))) \div Window
    BY DEF TemporalLinks
<1> DEFINE times == {a.time : a \in p}
<1>2. IsFiniteSet(times) /\ times \subseteq Int /\ times # {}
    BY PairFacts DEF AlertOk
<1> HIDE DEF times
<1>3. Max(times) \in Int /\ Min(times) \in Int /\ Min(times) <= Max(times)
    BY <1>2, MaxFacts, MinFacts
<1>4. Distance(p) \in Nat
    BY <1>3 DEF Distance, times
<1>5. Window \in Nat \ {0} /\ Window - Distance(p) \in 0 .. Window
    BY <1>1, <1>4, TriageAssumption
<1>6. (100 * (Window - Distance(p))) \div Window \in 0 .. 100
    BY <1>5, Hundredths
<1> QED  BY <1>1, <1>6

\* Links by asset.
LEMMA AssetConfidence ==
  ASSUME NEW alerts, BatchOk(alerts), NEW l \in AssetLinks(alerts)
  PROVE  l.confidence \in 0 .. 1000 /\ l.method = "ASSET_OVERLAP"
<1> DEFINE values(p) == {a.criticality : a \in p}
           strength(p) == Min({1000, Max(AssetConfidences(p))
                                       + (150 * Max(values(p))) \div 100})
<1>1. PICK p \in Pairs(alerts) :
        /\ AssetConfidences(p) # {}
        /\ l = [pair |-> p, method |-> "ASSET_OVERLAP", confidence |-> strength(p)]
  <2>1. PICK p \in {q \in Pairs(alerts) : AssetConfidences(q) # {}} :
          l = [pair |-> p, method |-> "ASSET_OVERLAP", confidence |-> strength(p)]
      BY Zenon DEF AssetLinks
  <2> HIDE DEF strength
  <2> QED  BY <2>1, Zenon
<1>2. AssetConfidences(p) \subseteq 0 .. 1000
    BY DEF AssetConfidences, Agree
<1>3. Max(AssetConfidences(p)) \in Nat
    BY <1>1, <1>2, MaxThousandths
<1>4. values(p) \subseteq 0 .. 1000 /\ values(p) # {}
  <2>1. p # {} /\ \A a \in p : a.criticality \in 0 .. 100
      BY PairFacts DEF AlertOk
  <2> QED  BY <2>1
<1>5. Max(values(p)) \in 0 .. 1000
    BY <1>4, MaxThousandths
<1> HIDE DEF values
<1>6. (150 * Max(values(p))) \div 100 \in Nat
    BY <1>5
<1> DEFINE m == Max(AssetConfidences(p)) + (150 * Max(values(p))) \div 100
<1>7. m \in Nat
    BY <1>3, <1>6
<1> HIDE DEF m
<1>8. Min({1000, m}) \in 0 .. 1000
    BY <1>7, CappedThousand
<1> QED  BY <1>1, <1>8 DEF m

\* Links by behaviour.
LEMMA BehaviourConfidence ==
  ASSUME NEW alerts, BatchOk(alerts), NEW l \in BehaviourLinks(alerts)
  PROVE  l.confidence \in 0 .. 1000
<1>1. PICK p \in Pairs(alerts) :
        BehaviourConfidences(p) # {} /\ l.confidence = Max(BehaviourConfidences(p))
    BY DEF BehaviourLinks
<1> DEFINE n == Cardinality(SharedTechniques(p))
           m == 700 + Min({150, 70 * (n - 1)})
<1>2. ASSUME SharedTechniques(p) # {} PROVE Min({1000, m}) \in 0 .. 1000
  <2>1. IsFiniteSet(SharedTechniques(p))
    <3>1. p # {} /\ \A a \in p : IsFiniteSet(a.techniques)
        BY PairFacts DEF AlertOk
    <3>2. PICK a \in p : IsFiniteSet(a.techniques)
        BY <3>1
    <3>3. SharedTechniques(p) \subseteq a.techniques
        BY DEF SharedTechniques
    <3> QED  BY <3>2, <3>3, FS_Subset
  <2>2. n \in Nat /\ n # 0
      BY <1>2, <2>1, FS_CardinalityType, FS_EmptySet
  <2> HIDE DEF n
  <2>3. 70 * (n - 1) \in Nat /\ 150 \in Nat
      BY <2>2
  <2>4. Min({150, 70 * (n - 1)}) \in 0 .. 150
      BY <2>3, Capped, Zenon
  <2>5. m \in Nat
      BY <2>4
  <2> HIDE DEF m
  <2> QED  BY <2>5, CappedThousand
<1>3. \A x \in BehaviourConfidences(p) :
        \/ x \in {900, 850, 500}
        \/ SharedTechniques(p) # {} /\ x = Min({1000, m})
    BY DEF BehaviourConfidences, Agree, Both
<1> HIDE DEF m, n
<1>4. BehaviourConfidences(p) \subseteq 0 .. 1000
  <2> SUFFICES ASSUME NEW x \in BehaviourConfidences(p) PROVE x \in 0 .. 1000
      OBVIOUS
  <2>1. CASE x \in {900, 850, 500}
      BY <2>1
  <2>2. CASE SharedTechniques(p) # {} /\ x = Min({1000, m})
      BY <1>2, <2>2
  <2> QED  BY <1>3, <2>1, <2>2
<1> QED  BY <1>1, <1>4, MaxThousandths

\* Every link of a batch has a confidence, and one of four methods.
LEMMA LinkFacts ==
  ASSUME NEW alerts, BatchOk(alerts), NEW l \in Significant(alerts)
  PROVE  /\ l.confidence \in 0 .. 1000
         /\ l.method \in {"IOC_MATCH", "TEMPORAL", "ASSET_OVERLAP", "BEHAVIOUR"}
<1>1. l \in IocLinks(alerts) \cup TemporalLinks(alerts) \cup AssetLinks(alerts)
             \cup BehaviourLinks(alerts)
    BY DEF Significant, Links
<1>2. CASE l \in IocLinks(alerts)
    BY <1>2, IocConfidence
<1>3. CASE l \in TemporalLinks(alerts)
  <2>1. l.method = "TEMPORAL"
      BY <1>3 DEF TemporalLinks
  <2> QED  BY <1>3, <2>1, TemporalConfidence
<1>4. CASE l \in AssetLinks(alerts)
    BY <1>4, AssetConfidence
<1>5. CASE l \in BehaviourLinks(alerts)
  <2>1. l.method = "BEHAVIOUR"
      BY <1>5 DEF BehaviourLinks
  <2> QED  BY <1>5, <2>1, BehaviourConfidence
<1> QED  BY <1>1, <1>2, <1>3, <1>4, <1>5

-----------------------------------------------------------------------------
\* Threats

\* What scoring and reporting rely on.
ThreatOk(t) ==
  /\ IsFiniteSet(t.alerts) /\ t.alerts # {} /\ \A a \in t.alerts : AlertOk(a)
  /\ IsFiniteSet(t.sourceTypes)
  /\ t.confidence \in Int /\ t.fp \in Int /\ t.last \in Int

\* A pair has the confidence of its links.
LEMMA PairConfidenceOk ==
  ASSUME NEW alerts, BatchOk(alerts), NEW links \in SUBSET Significant(alerts), links # {},
         NEW centrality \in Nat
  PROVE  PairConfidence(links, centrality) \in 0 .. 1000
<1> DEFINE values == {l.confidence : l \in links}
           methods == {l.method : l \in links}
           n == Cardinality(methods)
           bonus == Min({250, 80 * (n - 1)})
           m == Max(values) + bonus + centrality
<1>1. values \subseteq 0 .. 1000 /\ values # {}
    BY LinkFacts
<1>2. Max(values) \in Nat
  <2>1. Max(values) \in 0 .. 1000
      BY <1>1, MaxThousandths
  <2> HIDE DEF values
  <2> QED  BY <2>1
<1>3. n \in Nat /\ n # 0
  <2> DEFINE all == {"IOC_MATCH", "TEMPORAL", "ASSET_OVERLAP", "BEHAVIOUR"}
  <2>1. IsFiniteSet(all)
    <3> DEFINE one == {"IOC_MATCH"}
               two == one \cup {"TEMPORAL"}
               three == two \cup {"ASSET_OVERLAP"}
    <3>1. all = three \cup {"BEHAVIOUR"}
        OBVIOUS
    <3>2. IsFiniteSet(one)
        BY FS_Singleton
    <3> HIDE DEF one
    <3>3. IsFiniteSet(two)
        BY <3>2, FS_AddElement
    <3> HIDE DEF two
    <3>4. IsFiniteSet(three)
        BY <3>3, FS_AddElement
    <3> HIDE DEF three
    <3> QED  BY <3>1, <3>4, FS_AddElement
  <2>2. methods \in SUBSET all /\ methods # {}
      BY LinkFacts
  <2> HIDE DEF all, methods
  <2>3. IsFiniteSet(methods)
      BY <2>1, <2>2, FS_Subset
  <2> QED  BY <2>2, <2>3, FS_CardinalityType, FS_EmptySet
<1> HIDE DEF methods, n, values
<1>4. bonus \in Nat
  <2>1. 80 * (n - 1) \in Nat /\ 250 \in Nat
      BY <1>3
  <2>2. Min({250, 80 * (n - 1)}) \in 0 .. 250
      BY <2>1, Capped, Zenon
  <2> QED  BY <2>2
<1> HIDE DEF bonus
<1>5. m \in Nat
    BY <1>2, <1>4
<1>6. PairConfidence(links, centrality) = Min({1000, m})
    BY Zenon DEF PairConfidence, values, methods, n, bonus
<1> HIDE DEF m
<1> QED  BY <1>5, <1>6, CappedThousand

\* And a group that of one of its pairs.
LEMMA GroupConfidenceOk ==
  ASSUME NEW alerts, BatchOk(alerts), NEW group,
         NEW c \in GroupConfidences(group, Significant(alerts))
  PROVE  c \in Int
<1> DEFINE links == Significant(alerts)
           of(p) == {l \in links : l.pair = p}
<1>1. CASE Cardinality(group) = 1
  <2>1. c = SingletonConfidence
      BY <1>1 DEF GroupConfidences
  <2> QED  BY <2>1 DEF SingletonConfidence
<1>2. CASE Cardinality(group) # 1
  <2>1. PICK p \in {l.pair : l \in Within(group, links)}, b \in CentralityBoosts :
               c = PairConfidence(of(p), b)
      BY <1>2 DEF GroupConfidences
  <2>2. of(p) \in SUBSET links /\ of(p) # {}
      BY DEF Within
  <2>3. b \in Nat
      BY TriageAssumption
  <2> HIDE DEF of
  <2>4. c \in 0 .. 1000
      BY <2>1, <2>2, <2>3, PairConfidenceOk
  <2> QED  BY <2>4
<1> QED  BY <1>1, <1>2

\* The fold behind the whitelist is one of the sums.
LEMMA WhitelistFold ==
  ASSUME NEW S, IsFiniteSet(S)
  PROVE  \E h : /\ SumsOf(S, [a \in S |-> WhitelistScore(a)], h)
                /\ MapThenSumSet(WhitelistScore, S) = h[S]
<1> DEFINE v == [a \in S |-> WhitelistScore(a)]
           pick(s) == CHOOSE x \in s : TRUE
           I(h) == h = [s \in SUBSET S |-> IF s = {} THEN 0
                          ELSE WhitelistScore(pick(s)) + h[s \ {pick(s)}]]
<1>1. MapThenSumSet(WhitelistScore, S) = (CHOOSE h : I(h))[S]
    BY Zenon DEF MapThenSumSet, MapThenFoldSet
<1>2. v \in [S -> Int]
    BY DEF WhitelistScore
<1>3. \A h : SumsOf(S, v, h) <=> I(h)
  <2> SUFFICES ASSUME NEW h PROVE SumsOf(S, v, h) <=> I(h)
      OBVIOUS
  <2> DEFINE left(s) == IF s = {} THEN 0 ELSE v[pick(s)] + h[s \ {pick(s)}]
             right(s) == IF s = {} THEN 0 ELSE WhitelistScore(pick(s)) + h[s \ {pick(s)}]
  <2>1. ASSUME NEW s \in SUBSET S PROVE left(s) = right(s)
    <3>1. s # {} => pick(s) \in S
        OBVIOUS
    <3> HIDE DEF pick
    <3> QED  BY <3>1
  <2>2. [s \in SUBSET S |-> left(s)] = [s \in SUBSET S |-> right(s)]
    <3> HIDE DEF left, right
    <3> QED  BY <2>1
  <2> QED  BY <2>2, Zenon DEF SumsOf
<1>4. \E h : I(h)
  <2> HIDE DEF v, I
  <2>1. PICK h : SumsOf(S, v, h)
      BY <1>2, SumsExist
  <2> QED  BY <2>1, <1>3
<1>5. I(CHOOSE h : I(h))
  <2> HIDE DEF I
  <2> QED  BY <1>4
<1>6. SumsOf(S, v, CHOOSE h : I(h))
    BY <1>3, <1>5, Zenon
<1> HIDE DEF I
<1> QED  BY <1>1, <1>6, Zenon

\* The whitelist counts whole alerts.
LEMMA WhitelistSum ==
  ASSUME NEW S, IsFiniteSet(S)
  PROVE  MapThenSumSet(WhitelistScore, S) \in Nat
<1> DEFINE v == [a \in S |-> WhitelistScore(a)]
<1>1. v \in [S -> Nat]
    BY DEF WhitelistScore
<1>2. PICK h : SumsOf(S, v, h) /\ MapThenSumSet(WhitelistScore, S) = h[S]
    BY WhitelistFold, Zenon
<1> HIDE DEF v
<1>3. h[S] \in Nat
    BY <1>1, <1>2, SumsAreNatural
<1> QED  BY <1>2, <1>3, Zenon

\* So the false-positive probability is a number.
LEMMA FpIsNumber ==
  ASSUME NEW group, IsFiniteSet(group), NEW confidence
  PROVE  FpProbability(group, confidence) \in Int
<1> DEFINE sourceTypes == {a.sourceType : a \in group}
           worst == MaxSeverity(group)
           lowSum == MapThenSumSet(LAMBDA a : a.reliability, group)
                       < LowReliability * Cardinality(group)
           listed == MapThenSumSet(WhitelistScore, group)
           suspicion == (IF Cardinality(sourceTypes) = 1 THEN 200 ELSE 0)
                        + (IF lowSum THEN 250 ELSE 0)
                        + (IF worst \in {"INFO", "LOW"} THEN 250 ELSE 0)
                        + listed
                        + (IF confidence < 400 THEN 150 ELSE 0)
           corroborated == IF Cardinality(sourceTypes) >= MinSources
                           THEN Atleast0(suspicion - 200) ELSE suspicion
           severe == IF worst \in {"CRITICAL", "HIGH"} THEN Atleast0(corroborated - 100)
                                                       ELSE corroborated
<1>1. FpProbability(group, confidence) = Min({severe, MaxFp})
    BY Zenon DEF FpProbability
<1>2. listed \in Nat
    BY WhitelistSum, Zenon
<1> HIDE DEF listed, lowSum
<1>3. suspicion \in Int
    BY <1>2
<1> HIDE DEF suspicion
<1>4. corroborated \in Int
    BY <1>3 DEF Atleast0
<1> HIDE DEF corroborated
<1>5. severe \in Int
    BY <1>4 DEF Atleast0
<1> HIDE DEF severe
<1>6. MaxFp \in Int
    BY DEF MaxFp
<1>7. Min({severe, MaxFp}) \in Int
    BY <1>5, <1>6, OfTwo
<1> QED  BY <1>1, <1>7

\* correlate makes such threats.
LEMMA CorrelatedOk ==
  ASSUME NEW alerts, BatchOk(alerts), NEW g \in Groups(alerts),
         NEW c \in GroupConfidences(g, Significant(alerts))
  PROVE  ThreatOk(BuildThreat(g, Significant(alerts), c))
<1> DEFINE t == BuildThreat(g, Significant(alerts), c)
           times == {a.time : a \in g}
           types == {a.sourceType : a \in g}
<1>1. g \subseteq alerts /\ g # {}
    BY DEF Groups
<1>2. IsFiniteSet(g) /\ \A a \in g : AlertOk(a)
    BY <1>1, FS_Subset DEF BatchOk
<1>3. IsFiniteSet(types)
  <2> DEFINE f == [a \in g |-> a.sourceType]
  <2>1. f \in Surjection(g, types)
      BY DEF Surjection
  <2> QED  BY <1>2, <2>1, FS_Surjection
<1>4. Max(times) \in Int
  <2> DEFINE f == [a \in g |-> a.time]
  <2>1. f \in Surjection(g, times)
      BY DEF Surjection
  <2>2. IsFiniteSet(times)
      BY <1>2, <2>1, FS_Surjection
  <2>3. times \subseteq Int /\ times # {}
      BY <1>1, <1>2 DEF AlertOk
  <2> HIDE DEF times
  <2> QED  BY <2>2, <2>3, MaxFacts
<1>5. /\ t.alerts = g /\ t.sourceTypes = types /\ t.confidence = c
      /\ t.fp = FpProbability(g, c) /\ t.last = Max(times)
    BY DEF BuildThreat
<1>6. c \in Int /\ FpProbability(g, c) \in Int
    BY <1>2, GroupConfidenceOk, FpIsNumber
<1> HIDE DEF t, times, types
<1> QED  BY <1>1, <1>2, <1>3, <1>4, <1>5, <1>6 DEF ThreatOk, t

-----------------------------------------------------------------------------
\* Missions

\* What a context says of a group is finite.
LEMMA WeightsFinite ==
  ASSUME NEW context \in Contexts, NEW time, NEW group
  PROVE  IsFiniteSet(Weights(context, time, group)) /\ Weights(context, time, group) \subseteq Nat
<1> DEFINE active == ActiveMissions(context, time)
           weight(m, r) == (r.weight * UrgencyMultiplier(m) + 50) \div 100
           touched(m) == {r \in m.roles : Touches(r, group)}
           of == [m \in active |-> {weight(m, r) : r \in touched(m)}]
           sets == {of[m] : m \in active}
<1>1. active \in SUBSET context /\ IsFiniteSet(context)
    BY TriageAssumption DEF ActiveMissions
<1>2. IsFiniteSet(active)
    BY <1>1, FS_Subset
<1>3. ASSUME NEW m \in active PROVE IsFiniteSet(of[m]) /\ of[m] \subseteq Nat
  <2>1. /\ m.rank \in 1 .. 10 /\ IsFiniteSet(m.roles)
        /\ \A r \in m.roles : r.weight \in 0 .. 300
      BY <1>1, TriageAssumption
  <2>2. UrgencyMultiplier(m) \in Nat
      BY <2>1 DEF UrgencyMultiplier
  <2>3. IsFiniteSet(touched(m)) /\ touched(m) \subseteq m.roles
      BY <2>1, FS_Subset
  <2> DEFINE f == [r \in touched(m) |-> weight(m, r)]
             image == {weight(m, r) : r \in touched(m)}
  <2>4. f \in Surjection(touched(m), image)
      BY DEF Surjection
  <2>5. IsFiniteSet(image)
    <3> HIDE DEF f, touched, image
    <3> QED  BY <2>3, <2>4, FS_Surjection
  <2>6. ASSUME NEW r \in touched(m) PROVE weight(m, r) \in Nat
    <3>1. r.weight \in 0 .. 300
        BY <2>1, <2>3
    <3>2. r.weight * UrgencyMultiplier(m) \in Nat
        BY <2>2, <3>1
    <3> QED  BY <3>2
  <2>7. of[m] = image
      OBVIOUS
  <2> HIDE DEF of, weight
  <2> QED  BY <2>5, <2>6, <2>7
<1>4. IsFiniteSet(sets)
  <2> DEFINE dom == DOMAIN of
  <2>1. dom = active
      OBVIOUS
  <2>2. of \in Surjection(active, sets)
      BY DEF Surjection
  <2> HIDE DEF of, sets, active
  <2> QED  BY <1>2, <2>2, FS_Surjection
<1>5. IsFiniteSet(UNION sets)
  <2>1. \A s \in sets : IsFiniteSet(s)
    <3> HIDE DEF of
    <3> QED  BY <1>3
  <2> HIDE DEF sets
  <2> QED  BY <1>4, <2>1, FS_UNION
<1>6. Weights(context, time, group) = UNION sets
  <2>1. sets = {{weight(m, r) : r \in touched(m)} : m \in active}
      OBVIOUS
  <2> QED  BY <2>1, Zenon DEF Weights
<1>7. UNION sets \subseteq Nat
  <2> HIDE DEF of
  <2> QED  BY <1>3
<1> QED  BY <1>5, <1>6, <1>7

\* A mission multiplies by one at least and by three at most, and by one what
\* none of its roles touches.
LEMMA ImpactFacts ==
  ASSUME NEW context \in Contexts, NEW time, NEW group
  PROVE  /\ MissionImpact(context, time, group) \in 1000 .. 3000
         /\ (\A m \in context : \A r \in m.roles : ~Touches(r, group))
              => MissionImpact(context, time, group) = 1000
<1> DEFINE weights == Weights(context, time, group)
           all == {1000} \cup weights
<1>1. IsFiniteSet(weights) /\ weights \subseteq Nat
    BY WeightsFinite
<1>2. IsFiniteSet(all) /\ all \subseteq Nat /\ 1000 \in all
  <2>1. all = weights \cup {1000}
      OBVIOUS
  <2> QED  BY <1>1, <2>1, FS_AddElement
<1>3. Max(all) \in all /\ Max(all) >= 1000 /\ Max(all) \in Nat
  <2> HIDE DEF all
  <2>1. all \subseteq Int /\ all # {}
      BY <1>2
  <2>2. Max(all) \in all /\ \A y \in all : y <= Max(all)
      BY <1>2, <2>1, MaxFacts
  <2> QED  BY <1>2, <2>2
<1>4. MissionImpact(context, time, group) = Min({3000, Max(all)})
    BY Zenon DEF MissionImpact
<1> DEFINE n == Max(all)
           top == 3000
<1>5. Min({top, n}) = IF top <= n THEN top ELSE n
  <2>1. top \in Int /\ n \in Int
      BY <1>3
  <2> HIDE DEF top, n
  <2> QED  BY <2>1, OfTwo
<1>6. MissionImpact(context, time, group) \in 1000 .. 3000
    BY <1>3, <1>4, <1>5
<1>7. ASSUME \A m \in context : \A r \in m.roles : ~Touches(r, group)
      PROVE  MissionImpact(context, time, group) = 1000
  <2>1. weights = {}
      BY <1>7 DEF Weights, ActiveMissions
  <2>2. all = {1000}
      BY <2>1
  <2>3. Max(all) = 1000
    <3> HIDE DEF all
    <3> QED  BY <1>3, <2>2
  <2> QED  BY <2>3, <1>4, <1>5
<1> QED  BY <1>6, <1>7

-----------------------------------------------------------------------------
\* Scores

\* Of two numbers, one is the larger and one the smaller.
LEMMA IntOfTwo ==
  ASSUME NEW x \in Int, NEW y \in Int
  PROVE  Max({x, y}) \in Int /\ Min({x, y}) \in Int
BY OfTwo

\* The fold behind the reliabilities is one of the sums.
LEMMA ReliabilityFold ==
  ASSUME NEW S, IsFiniteSet(S), \A a \in S : a.reliability \in Int
  PROVE  \E h : /\ SumsOf(S, [a \in S |-> a.reliability], h)
                /\ MapThenSumSet(LAMBDA a : a.reliability, S) = h[S]
<1> DEFINE v == [a \in S |-> a.reliability]
           pick(s) == CHOOSE x \in s : TRUE
           I(h) == h = [s \in SUBSET S |-> IF s = {} THEN 0
                          ELSE pick(s).reliability + h[s \ {pick(s)}]]
<1>1. MapThenSumSet(LAMBDA a : a.reliability, S) = (CHOOSE h : I(h))[S]
    BY Zenon DEF MapThenSumSet, MapThenFoldSet
<1>2. v \in [S -> Int]
    OBVIOUS
<1>3. \A h : SumsOf(S, v, h) <=> I(h)
  <2> SUFFICES ASSUME NEW h PROVE SumsOf(S, v, h) <=> I(h)
      OBVIOUS
  <2> DEFINE left(s) == IF s = {} THEN 0 ELSE v[pick(s)] + h[s \ {pick(s)}]
             right(s) == IF s = {} THEN 0 ELSE pick(s).reliability + h[s \ {pick(s)}]
  <2>1. ASSUME NEW s \in SUBSET S PROVE left(s) = right(s)
    <3>1. s # {} => pick(s) \in S
        OBVIOUS
    <3> HIDE DEF pick
    <3> QED  BY <3>1
  <2>2. [s \in SUBSET S |-> left(s)] = [s \in SUBSET S |-> right(s)]
    <3> HIDE DEF left, right
    <3> QED  BY <2>1
  <2> QED  BY <2>2, Zenon DEF SumsOf
<1>4. \E h : I(h)
  <2> HIDE DEF v, I
  <2>1. PICK h : SumsOf(S, v, h)
      BY <1>2, SumsExist
  <2> QED  BY <2>1, <1>3
<1>5. I(CHOOSE h : I(h))
  <2> HIDE DEF I
  <2> QED  BY <1>4
<1>6. SumsOf(S, v, CHOOSE h : I(h))
    BY <1>3, <1>5, Zenon
<1> HIDE DEF I
<1> QED  BY <1>1, <1>6, Zenon

\* The reliabilities of a group have a sum.
LEMMA ReliabilitySum ==
  ASSUME NEW S, IsFiniteSet(S), \A a \in S : a.reliability \in Int
  PROVE  MapThenSumSet(LAMBDA a : a.reliability, S) \in Int
<1> DEFINE v == [a \in S |-> a.reliability]
<1>1. v \in [S -> Int]
    OBVIOUS
<1>2. PICK h : SumsOf(S, v, h) /\ MapThenSumSet(LAMBDA a : a.reliability, S) = h[S]
    BY ReliabilityFold, Zenon
<1> HIDE DEF v
<1>3. h[S] \in Int
    BY <1>1, <1>2, SumsAreNumbers
<1> QED  BY <1>2, <1>3, Zenon

Components == DOMAIN ComponentWeights

\* There are five.
LEMMA ComponentsFinite == IsFiniteSet(Components)
<1> DEFINE one == {"severity"}
           two == one \cup {"confidence"}
           three == two \cup {"reliability"}
           four == three \cup {"criticality"}
<1>1. Components = four \cup {"urgency"}
    BY DEF Components, ComponentWeights
<1>2. IsFiniteSet(one)
    BY FS_Singleton
<1> HIDE DEF one
<1>3. IsFiniteSet(two)
    BY <1>2, FS_AddElement
<1> HIDE DEF two
<1>4. IsFiniteSet(three)
    BY <1>3, FS_AddElement
<1> HIDE DEF three
<1>5. IsFiniteSet(four)
    BY <1>4, FS_AddElement
<1> HIDE DEF four
<1> QED  BY <1>1, <1>5, FS_AddElement

\* The weighted values of the components have a sum too.
LEMMA WeightedSum ==
  ASSUME NEW values, values \in [Components -> Int]
  PROVE  \E h : /\ SumsOf(Components, [c \in Components |-> values[c] * ComponentWeights[c]], h)
                /\ MapThenSumSet(LAMBDA c : values[c] * ComponentWeights[c], DOMAIN values)
                     = h[Components]
<1> DEFINE S == DOMAIN values
           v == [c \in S |-> values[c] * ComponentWeights[c]]
           pick(s) == CHOOSE x \in s : TRUE
           I(h) == h = [s \in SUBSET S |-> IF s = {} THEN 0
                          ELSE values[pick(s)] * ComponentWeights[pick(s)] + h[s \ {pick(s)}]]
<1>1. MapThenSumSet(LAMBDA c : values[c] * ComponentWeights[c], DOMAIN values)
        = (CHOOSE h : I(h))[S]
    BY Zenon DEF MapThenSumSet, MapThenFoldSet
<1>2. S = Components /\ IsFiniteSet(S)
    BY ComponentsFinite
<1>3. v \in [S -> Int]
  <2>1. \A c \in Components : ComponentWeights[c] \in Int
      BY DEF Components, ComponentWeights
  <2> QED  BY <2>1
<1>4. \A h : SumsOf(S, v, h) <=> I(h)
  <2> SUFFICES ASSUME NEW h PROVE SumsOf(S, v, h) <=> I(h)
      OBVIOUS
  <2> DEFINE left(s) == IF s = {} THEN 0 ELSE v[pick(s)] + h[s \ {pick(s)}]
             right(s) == IF s = {} THEN 0
                         ELSE values[pick(s)] * ComponentWeights[pick(s)] + h[s \ {pick(s)}]
  <2>1. ASSUME NEW s \in SUBSET S PROVE left(s) = right(s)
    <3>1. s # {} => pick(s) \in S
        OBVIOUS
    <3>2. \A c \in S : v[c] = values[c] * ComponentWeights[c]
        OBVIOUS
    <3> HIDE DEF pick, v, S
    <3> QED  BY <3>1, <3>2
  <2>2. [s \in SUBSET S |-> left(s)] = [s \in SUBSET S |-> right(s)]
    <3> HIDE DEF left, right
    <3> QED  BY <2>1
  <2> QED  BY <2>2, Zenon DEF SumsOf
<1>5. \E h : I(h)
  <2> HIDE DEF v, I
  <2>1. PICK h : SumsOf(S, v, h)
      BY <1>2, <1>3, SumsExist
  <2> QED  BY <2>1, <1>4
<1>6. I(CHOOSE h : I(h))
  <2> HIDE DEF I
  <2> QED  BY <1>5
<1>7. SumsOf(S, v, CHOOSE h : I(h))
    BY <1>4, <1>6, Zenon
<1>8. SumsOf(Components, [c \in Components |-> values[c] * ComponentWeights[c]], CHOOSE h : I(h))
  <2> HIDE DEF I
  <2> QED  BY <1>2, <1>7, Zenon
<1> HIDE DEF I
<1> QED  BY <1>1, <1>2, <1>8, Zenon

\* What does not depend on the missions is a number.
LEMMA ComponentFacts ==
  ASSUME NEW t, ThreatOk(t), NEW time \in Int
  PROVE  /\ SeverityComponent(t) \in Int
         /\ ConfidenceComponent(t) \in Int
         /\ ReliabilityComponent(t) \in Int
         /\ UrgencyComponent(t, time) \in Int
<1> DEFINE n == Cardinality(t.alerts)
           k == Cardinality(t.sourceTypes)
           zero == 0
<1>1. n \in Nat \ {0} /\ k \in Nat
    BY FS_CardinalityType, FS_EmptySet DEF ThreatOk
<1>2. One \in Int /\ zero \in Int
    BY DEF One
<1>3. SeverityComponent(t) \in Int
  <2> DEFINE base == CASE t.severity = "CRITICAL" -> 100000 [] t.severity = "HIGH" -> 75000
                       [] t.severity = "MEDIUM" -> 50000 [] t.severity = "LOW" -> 25000
                       [] OTHER -> 10000
             cap == 10000
             more == 1500 * (n - 1)
             sum == base + Min({cap, more})
  <2>1. SeverityComponent(t) = Min({One, sum})
      BY DEF SeverityComponent
  <2>2. base \in Int
      OBVIOUS
  <2>3. cap \in Int /\ more \in Int
      BY <1>1
  <2> HIDE DEF base, cap, more
  <2>4. Min({cap, more}) \in Int
      BY <2>3, IntOfTwo
  <2>5. sum \in Int
      BY <2>2, <2>4
  <2> HIDE DEF sum
  <2> QED  BY <1>2, <2>1, <2>5, IntOfTwo
<1>4. ConfidenceComponent(t) \in Int
  <2> DEFINE cap == 20000
             more == 8000 * (k - 1)
             sum == 100 * t.confidence + Min({cap, more}) - 30 * t.fp
             positive == Max({zero, sum})
  <2>1. ConfidenceComponent(t) = Min({One, positive})
      BY DEF ConfidenceComponent
  <2>2. cap \in Int /\ more \in Int /\ t.confidence \in Int /\ t.fp \in Int
      BY <1>1 DEF ThreatOk
  <2> HIDE DEF cap, more
  <2>3. Min({cap, more}) \in Int
      BY <2>2, IntOfTwo
  <2>4. sum \in Int
      BY <2>2, <2>3
  <2> HIDE DEF sum, zero
  <2>5. positive \in Int
      BY <1>2, <2>4, IntOfTwo
  <2> HIDE DEF positive
  <2> QED  BY <1>2, <2>1, <2>5, IntOfTwo
<1>5. ReliabilityComponent(t) \in Int
  <2> DEFINE sum == MapThenSumSet(LAMBDA a : a.reliability, t.alerts)
  <2>1. IsFiniteSet(t.alerts) /\ \A a \in t.alerts : a.reliability \in Int
      BY DEF ThreatOk, AlertOk
  <2>2. sum \in Int
    <3> DEFINE S == t.alerts
    <3> HIDE DEF S
    <3>1. MapThenSumSet(LAMBDA a : a.reliability, S) \in Int
        BY <2>1, ReliabilitySum, Zenon DEF S
    <3> QED  BY <3>1, Zenon DEF S
  <2>3. ReliabilityComponent(t) = (1000 * sum) \div n
      BY Zenon DEF ReliabilityComponent
  <2> HIDE DEF sum, n
  <2> QED  BY <1>1, <2>2, <2>3
<1>6. UrgencyComponent(t, time) \in Int
  <2> DEFINE left == (1000 * (MaxAge - (time - t.last)) + MaxAge \div 2) \div MaxAge
  <2>1. left \in Int
      BY DEF ThreatOk, MaxAge
  <2>2. UrgencyComponent(t, time) = 100 * Max({zero, left})
      BY DEF UrgencyComponent
  <2> HIDE DEF left, zero
  <2> QED  BY <1>2, <2>1, <2>2, IntOfTwo
<1> QED  BY <1>3, <1>4, <1>5, <1>6

-----------------------------------------------------------------------------
\* What a multiplier may be, and that of no mission.
Multipliers == 1000 .. 3000
Plain == 1000

\* A larger factor makes the criticality larger, up to the whole component.
LEMMA CriticalityGrows ==
  ASSUME NEW t, ThreatOk(t), NEW m \in Multipliers
  PROVE  /\ CriticalityComponent(t, m) \in Int /\ CriticalityComponent(t, Plain) \in Int
         /\ 0 <= CriticalityComponent(t, Plain)
         /\ CriticalityComponent(t, Plain) <= CriticalityComponent(t, m)
         /\ CriticalityComponent(t, m) <= One
<1> DEFINE values == {a.criticality : a \in t.alerts}
           worst == Max(values)
           raised == worst * m
           plain == worst * Plain
<1>1. worst \in 0 .. 100
  <2> DEFINE f == [a \in t.alerts |-> a.criticality]
  <2>1. f \in Surjection(t.alerts, values)
      BY DEF Surjection
  <2>2. IsFiniteSet(t.alerts) /\ t.alerts # {} /\ \A a \in t.alerts : a.criticality \in 0 .. 100
      BY DEF ThreatOk, AlertOk
  <2>3. IsFiniteSet(values) /\ values # {} /\ values \subseteq 0 .. 100
      BY <2>1, <2>2, FS_Surjection
  <2> HIDE DEF values
  <2>4. values \subseteq Int
      BY <2>3
  <2>5. Max(values) \in values
      BY <2>3, <2>4, MaxFacts
  <2> HIDE DEF worst
  <2>6. \A x \in values : x \in 0 .. 100
      BY <2>3
  <2> QED  BY <2>5, <2>6 DEF worst
<1>2. Plain \in Int /\ m \in Int /\ 0 <= Plain /\ Plain <= m /\ 100 * Plain <= One /\ One \in Int
    BY DEF One, Multipliers, Plain
<1>3. /\ CriticalityComponent(t, m) = Min({One, raised})
      /\ CriticalityComponent(t, Plain) = Min({One, plain})
    BY DEF CriticalityComponent
<1> HIDE DEF worst
<1>4. raised \in Int /\ plain \in Int /\ 0 <= plain /\ plain <= raised
    BY <1>1, <1>2
<1> HIDE DEF raised, plain
<1>5. /\ Min({One, raised}) = (IF One <= raised THEN One ELSE raised)
      /\ Min({One, plain}) = (IF One <= plain THEN One ELSE plain)
    BY <1>2, <1>4, OfTwo
<1> QED  BY <1>2, <1>3, <1>4, <1>5

\* So it makes the points more, by no more than the weight of the criticality.
LEMMA PointsGrow ==
  ASSUME NEW t, ThreatOk(t), NEW time \in Int, NEW m \in Multipliers
  PROVE  /\ Points(t, time, m) \in Int /\ Points(t, time, Plain) \in Int
         /\ Points(t, time, Plain) <= Points(t, time, m)
         /\ Points(t, time, m) <= Points(t, time, Plain) + 20 * One
<1> DEFINE values(x) ==
             [severity |-> SeverityComponent(t), confidence |-> ConfidenceComponent(t),
              reliability |-> ReliabilityComponent(t),
              criticality |-> CriticalityComponent(t, x), urgency |-> UrgencyComponent(t, time)]
           weighted(x) == [c \in Components |-> values(x)[c] * ComponentWeights[c]]
           sum(x) == MapThenSumSet(LAMBDA c : values(x)[c] * ComponentWeights[c],
                                   DOMAIN values(x))
           most == 100 * One
<1>1. \A x : Points(t, time, x) = Min({most, sum(x)})
    BY Zenon DEF Points
<1>2. /\ CriticalityComponent(t, m) \in Int /\ CriticalityComponent(t, Plain) \in Int
      /\ 0 <= CriticalityComponent(t, Plain)
      /\ CriticalityComponent(t, Plain) <= CriticalityComponent(t, m)
      /\ CriticalityComponent(t, m) <= One
    BY CriticalityGrows
<1>3. ASSUME NEW x \in {m, Plain}
      PROVE  /\ values(x) \in [Components -> Int]
             /\ weighted(x) \in [Components -> Int]
             /\ \E h : SumsOf(Components, weighted(x), h) /\ sum(x) = h[Components]
  <2>1. values(x) \in [Components -> Int]
      BY <1>2, ComponentFacts DEF Components, ComponentWeights
  <2>2. \A c \in Components : ComponentWeights[c] \in Int
      BY DEF Components, ComponentWeights
  <2>3. weighted(x) \in [Components -> Int]
      BY <2>1, <2>2
  <2>4. \E h : SumsOf(Components, weighted(x), h) /\ sum(x) = h[Components]
    <3> DEFINE v == values(x)
    <3> HIDE DEF v
    <3>1. \E h : /\ SumsOf(Components, [c \in Components |-> v[c] * ComponentWeights[c]], h)
                 /\ MapThenSumSet(LAMBDA c : v[c] * ComponentWeights[c], DOMAIN v) = h[Components]
        BY <2>1, WeightedSum, Zenon DEF v
    <3> QED  BY <3>1, Zenon DEF v
  <2> QED  BY <2>1, <2>3, <2>4
<1>4. /\ \A c \in Components \ {"criticality"} : weighted(m)[c] = weighted(Plain)[c]
      /\ weighted(m)["criticality"] = CriticalityComponent(t, m) * 20
      /\ weighted(Plain)["criticality"] = CriticalityComponent(t, Plain) * 20
      /\ "criticality" \in Components
    BY DEF Components, ComponentWeights
<1>5. IsFiniteSet(Components)
    BY ComponentsFinite
<1> HIDE DEF weighted, sum
<1>6. PICK g : SumsOf(Components, weighted(Plain), g) /\ sum(Plain) = g[Components]
    BY <1>3
<1>7. PICK h : SumsOf(Components, weighted(m), h) /\ sum(m) = h[Components]
    BY <1>3
<1>8. /\ g[Components] \in Int
      /\ h[Components] = g[Components]
                           + (weighted(m)["criticality"] - weighted(Plain)["criticality"])
    BY <1>3, <1>4, <1>5, <1>6, <1>7, SumsDiffer
<1> DEFINE more == CriticalityComponent(t, m) * 20 - CriticalityComponent(t, Plain) * 20
           low == sum(Plain)
           high == sum(m)
<1>9. One \in Int /\ most \in Int /\ 0 <= more /\ more <= 20 * One /\ more \in Int
    BY <1>2 DEF One
<1>10. low \in Int /\ high \in Int /\ high = low + more
    BY <1>4, <1>6, <1>7, <1>8, <1>9
<1> HIDE DEF more, low, high, most
<1>11. /\ Min({most, high}) = (IF most <= high THEN most ELSE high)
       /\ Min({most, low}) = (IF most <= low THEN most ELSE low)
    BY <1>9, <1>10, OfTwo
<1>12. Points(t, time, m) = Min({most, high}) /\ Points(t, time, Plain) = Min({most, low})
    BY <1>1 DEF high, low
<1>13. /\ Points(t, time, m) \in Int /\ Points(t, time, Plain) \in Int
       /\ Points(t, time, Plain) <= Points(t, time, m)
       /\ Points(t, time, m) <= Points(t, time, Plain) + 20 * One
    BY <1>9, <1>10, <1>11, <1>12
<1> QED  BY <1>13

\* The reduction of a false positive keeps that.
LEMMA AdjustedGrow ==
  ASSUME NEW t, ThreatOk(t), NEW time \in Int, NEW m \in Multipliers
  PROVE  /\ AdjustedPoints(t, time, m) \in Nat /\ AdjustedPoints(t, time, Plain) \in Nat
         /\ AdjustedPoints(t, time, Plain) <= AdjustedPoints(t, time, m)
         /\ AdjustedPoints(t, time, m) <= AdjustedPoints(t, time, Plain) + 20 * One
<1> DEFINE zero == 0
           high == Points(t, time, m) - FpAdjustment(t)
           low == Points(t, time, Plain) - FpAdjustment(t)
<1>1. /\ Points(t, time, m) \in Int /\ Points(t, time, Plain) \in Int
      /\ Points(t, time, Plain) <= Points(t, time, m)
      /\ Points(t, time, m) <= Points(t, time, Plain) + 20 * One
    BY PointsGrow
<1>2. FpAdjustment(t) \in Int /\ One \in Int /\ 0 <= One
    BY DEF FpAdjustment, ThreatOk, One
<1>3. /\ AdjustedPoints(t, time, m) = Max({zero, high})
      /\ AdjustedPoints(t, time, Plain) = Max({zero, low})
    BY DEF AdjustedPoints
<1>4. zero \in Int /\ zero = 0 /\ high \in Int /\ low \in Int /\ low <= high /\ high <= low + 20 * One
    BY <1>1, <1>2
<1> HIDE DEF zero, high, low
<1>5. /\ Max({zero, high}) = (IF zero >= high THEN zero ELSE high)
      /\ Max({zero, low}) = (IF zero >= low THEN zero ELSE low)
    BY <1>4, OfTwo
<1>6. /\ AdjustedPoints(t, time, m) \in Nat /\ AdjustedPoints(t, time, Plain) \in Nat
      /\ AdjustedPoints(t, time, Plain) <= AdjustedPoints(t, time, m)
      /\ AdjustedPoints(t, time, m) <= AdjustedPoints(t, time, Plain) + 20 * One
    BY <1>2, <1>3, <1>4, <1>5
<1> QED  BY <1>6

\* Rounding keeps the order.
LEMMA RoundedGrows ==
  ASSUME NEW p \in Nat, NEW q \in Nat
  PROVE  /\ Rounded(p) \in Nat
         /\ p <= q => Rounded(p) <= Rounded(q)
         /\ q <= p + 20 * One => Rounded(q) <= Rounded(p) + 2000
BY DEF Rounded, One
-----------------------------------------------------------------------------
\* Tiers and ranks

\* The tier follows the points, and so the score shown, except on a threshold.
LEMMA TiersFollowScores ==
  ASSUME NEW p \in Nat, NEW q \in Nat
  PROVE  /\ Rounded(p) > Rounded(q) => TierRank(AssignTier(p)) <= TierRank(AssignTier(q))
         /\ Rounded(p) = Rounded(q) /\ AssignTier(p) # AssignTier(q)
              => Rounded(p) \in {8000, 6000, 3500}
<1> DEFINE place(x) == IF x >= 80 * One THEN 1 ELSE IF x >= 60 * One THEN 2
                       ELSE IF x >= 35 * One THEN 3 ELSE 4
<1>1. /\ TierRank("CRITICAL") = 1 /\ TierRank("HIGH") = 2 /\ TierRank("MEDIUM") = 3
      /\ TierRank("LOW") = 4
  <2>1. /\ DOMAIN Tiers = 1 .. 4
        /\ Tiers[1] = "CRITICAL" /\ Tiers[2] = "HIGH" /\ Tiers[3] = "MEDIUM" /\ Tiers[4] = "LOW"
      BY DEF Tiers
  <2> QED  BY <2>1 DEF TierRank, IndexIn
<1>2. \A x \in Nat : TierRank(AssignTier(x)) = place(x)
  <2> SUFFICES ASSUME NEW x \in Nat PROVE TierRank(AssignTier(x)) = place(x)
      OBVIOUS
  <2>1. CASE x >= 80 * One
      BY <1>1, <2>1 DEF AssignTier
  <2>2. CASE ~(x >= 80 * One) /\ x >= 60 * One
      BY <1>1, <2>2 DEF AssignTier
  <2>3. CASE ~(x >= 80 * One) /\ ~(x >= 60 * One) /\ x >= 35 * One
      BY <1>1, <2>3 DEF AssignTier
  <2>4. CASE ~(x >= 80 * One) /\ ~(x >= 60 * One) /\ ~(x >= 35 * One)
      BY <1>1, <2>4 DEF AssignTier
  <2> QED  BY <2>1, <2>2, <2>3, <2>4
<1>3. \A x \in Nat, y \in Nat : AssignTier(x) # AssignTier(y) => place(x) # place(y)
    BY DEF AssignTier, One
<1>4. One = 100000 /\ Rounded(p) = (p + 500) \div 1000 /\ Rounded(q) = (q + 500) \div 1000
    BY DEF One, Rounded
<1>5. Rounded(p) > Rounded(q) => p > q
    BY <1>4
<1>6. p > q => place(p) <= place(q)
    BY <1>4
<1>7. Rounded(p) = Rounded(q) /\ place(p) # place(q) => Rounded(p) \in {8000, 6000, 3500}
    BY <1>4
<1> QED  BY <1>2, <1>3, <1>5, <1>6, <1>7

\* One list has the entries of the other, each in one place.
Rearranged(new, old) ==
  \E order \in Bijection(DOMAIN old, DOMAIN old) :
    \A k \in DOMAIN old : new[k] = old[order[k]]

\* Ranking puts each result in one place, the higher score first.
LEMMA RankedFacts ==
  ASSUME NEW n \in Nat, NEW list, DOMAIN list = 1 .. n,
         \A i \in DOMAIN list : list[i].score.shown \in Int
  PROVE  /\ Ranked(list) = [k \in DOMAIN list |-> Ranked(list)[k]]
         /\ \A k \in DOMAIN list : \E i \in DOMAIN list : Ranked(list)[k] = list[i]
         /\ \A i, j \in DOMAIN list :
              i < j => Ranked(list)[i].score.shown >= Ranked(list)[j].score.shown
         /\ Rearranged(Ranked(list), list)
<1> DEFINE D == DOMAIN list
           shown(i) == list[i].score.shown
           before(i, j) == \/ list[i].score.shown > list[j].score.shown
                           \/ list[i].score.shown = list[j].score.shown /\ i < j
           ahead(i) == {j \in D : before(j, i)}
           rank == [i \in D |-> Cardinality(ahead(i))]
           T == 0 .. (n - 1)
           row(k) == CHOOSE i \in D : Cardinality(ahead(i)) = k - 1
<1>1. Ranked(list) = [k \in D |-> list[row(k)]]
    BY Zenon DEF Ranked
<1>2. \A i \in D : i \in Int /\ shown(i) \in Int
    OBVIOUS
<1>3. IsFiniteSet(D) /\ Cardinality(D) = n
    BY FS_Interval
<1>4. IsFiniteSet(T) /\ Cardinality(T) = n
  <2>1. 0 \in Int /\ n - 1 \in Int /\ (0 > n - 1 => n = 0) /\ (n - 1) - 0 + 1 = n
      OBVIOUS
  <2> QED  BY <2>1, FS_Interval
<1>5. \A i \in D : IsFiniteSet(ahead(i)) /\ Cardinality(ahead(i)) \in Nat
  <2>1. \A i \in D : ahead(i) \in SUBSET D
      OBVIOUS
  <2> HIDE DEF ahead, D
  <2> QED  BY <1>3, <2>1, FS_Subset, FS_CardinalityType
<1>6. ASSUME NEW i \in D, NEW k \in D, before(i, k)
      PROVE  Cardinality(ahead(i)) < Cardinality(ahead(k))
  <2>1. i \in ahead(k) /\ i \notin ahead(i)
      BY <1>2, <1>6
  <2>2. ahead(i) \subseteq ahead(k)
    <3> SUFFICES ASSUME NEW j \in ahead(i) PROVE before(j, k)
        OBVIOUS
    <3>1. j \in D /\ before(j, i)
        OBVIOUS
    <3> QED  BY <1>2, <1>6, <3>1
  <2>3. ahead(i) \cup {i} \in SUBSET ahead(k)
      BY <2>1, <2>2
  <2> DEFINE a == ahead(i)
             b == ahead(k)
  <2>4. IsFiniteSet(a) /\ IsFiniteSet(b) /\ Cardinality(a) \in Nat /\ Cardinality(b) \in Nat
      BY <1>5
  <2>5. a \cup {i} \in SUBSET b /\ i \notin a
      BY <2>1, <2>3
  <2> HIDE DEF a, b
  <2>6. Cardinality(a \cup {i}) = Cardinality(a) + 1
      BY <2>4, <2>5, FS_AddElement
  <2>7. Cardinality(a \cup {i}) <= Cardinality(b)
      BY <2>4, <2>5, FS_Subset
  <2>8. Cardinality(a) < Cardinality(b)
      BY <2>4, <2>6, <2>7
  <2> QED  BY <2>8 DEF a, b
<1>7. \A i \in D : Cardinality(ahead(i)) \in T
  <2> SUFFICES ASSUME NEW i \in D PROVE Cardinality(ahead(i)) \in T
      OBVIOUS
  <2> DEFINE a == ahead(i)
             rest == D \ {i}
  <2>1. a \in SUBSET rest
      BY <1>2
  <2>2. i \in D
      OBVIOUS
  <2>3. IsFiniteSet(a) /\ Cardinality(a) \in Nat
      BY <1>5
  <2> HIDE DEF a, D
  <2>4. IsFiniteSet(rest) /\ Cardinality(rest) = n - 1
      BY <1>3, <2>2, FS_RemoveElement
  <2> HIDE DEF rest
  <2>5. Cardinality(a) <= n - 1
      BY <2>1, <2>4, FS_Subset
  <2>6. Cardinality(a) \in T
      BY <2>3, <2>5
  <2> QED  BY <2>6 DEF a
<1>8. \A i, k \in D : i # k => before(i, k) \/ before(k, i)
    BY <1>2
<1> HIDE DEF before, T, D
<1>9. rank \in Injection(D, T)
  <2>1. rank \in [D -> T]
      BY <1>7
  <2>2. \A i, k \in D : i # k => Cardinality(ahead(i)) # Cardinality(ahead(k))
    <3> SUFFICES ASSUME NEW i \in D, NEW k \in D, i # k
                 PROVE  Cardinality(ahead(i)) # Cardinality(ahead(k))
        OBVIOUS
    <3>1. Cardinality(ahead(i)) < Cardinality(ahead(k)) \/ Cardinality(ahead(k)) < Cardinality(ahead(i))
        BY <1>6, <1>8
    <3>2. Cardinality(ahead(i)) \in Nat /\ Cardinality(ahead(k)) \in Nat
        BY <1>5
    <3> HIDE DEF ahead
    <3> QED  BY <3>1, <3>2
  <2> HIDE DEF ahead
  <2> QED  BY <2>1, <2>2 DEF Injection, IsInjective
<1>10. rank \in Surjection(D, T)
  <2> HIDE DEF rank
  <2> QED  BY <1>3, <1>4, <1>9, FS_Injection
<1>11. \A k \in D : row(k) \in D /\ Cardinality(ahead(row(k))) = k - 1
  <2> SUFFICES ASSUME NEW k \in D PROVE \E i \in D : Cardinality(ahead(i)) = k - 1
      BY Zenon
  <2>1. k - 1 \in T
      BY DEF D, T
  <2> HIDE DEF ahead
  <2> QED  BY <1>10, <2>1 DEF Surjection
<1> HIDE DEF row, ahead, shown
<1>12. ASSUME NEW i \in D, NEW j \in D, i < j PROVE shown(row(i)) >= shown(row(j))
  <2>1. row(i) \in D /\ row(j) \in D
      BY <1>11
  <2>2. Cardinality(ahead(row(i))) < Cardinality(ahead(row(j)))
    <3>1. i \in Int /\ j \in Int
        BY <1>2
    <3> QED  BY <1>11, <1>12, <3>1
  <2>3. Cardinality(ahead(row(i))) \in Nat /\ Cardinality(ahead(row(j))) \in Nat
      BY <1>5, <2>1
  <2>4. ~ before(row(j), row(i))
      BY <1>6, <2>1, <2>2, <2>3
  <2>5. before(row(i), row(j)) \/ row(i) = row(j)
      BY <1>8, <2>1, <2>4
  <2> QED  BY <1>2, <2>1, <2>5 DEF before, shown
<1>13. DOMAIN Ranked(list) = D /\ \A k \in D : Ranked(list)[k] = list[row(k)]
    BY <1>1
<1>14. \A i \in D, j \in D :
         i < j => Ranked(list)[i].score.shown >= Ranked(list)[j].score.shown
  <2> SUFFICES ASSUME NEW i \in D, NEW j \in D, i < j
               PROVE  Ranked(list)[i].score.shown >= Ranked(list)[j].score.shown
      OBVIOUS
  <2> QED  BY <1>12, <1>13 DEF shown
<1>15. Ranked(list) = [k \in D |-> Ranked(list)[k]]
  <2>1. \A k \in D : Ranked(list)[k] = list[row(k)]
      BY <1>13
  <2> QED  BY <1>1, <2>1
<1>16. \A i, k \in D : i # k => row(i) # row(k)
  <2> SUFFICES ASSUME NEW i \in D, NEW k \in D, row(i) = row(k) PROVE i = k
      OBVIOUS
  <2>1. Cardinality(ahead(row(i))) = i - 1 /\ Cardinality(ahead(row(k))) = k - 1
      BY <1>11
  <2>2. i - 1 = k - 1
      BY <2>1
  <2> QED  BY <1>2, <2>2
<1>17. Rearranged(Ranked(list), list)
  <2> DEFINE order == [k \in D |-> row(k)]
  <2>1. order \in [D -> D] /\ \A k \in D : order[k] = row(k)
      BY <1>11
  <2> HIDE DEF order
  <2>2. order \in Injection(D, D)
      BY <1>16, <2>1 DEF Injection, IsInjective
  <2>3. order \in Surjection(D, D)
      BY <1>3, <2>2, FS_Injection
  <2>4. order \in Bijection(D, D)
      BY <2>2, <2>3 DEF Bijection
  <2>5. \A k \in D : Ranked(list)[k] = list[order[k]]
      BY <1>13, <2>1
  <2> QED  BY <2>4, <2>5 DEF Rearranged, D
<1> QED  BY <1>11, <1>13, <1>14, <1>15, <1>17 DEF D
-----------------------------------------------------------------------------
\* Markings

\* A threat's marking is as strict as that of each of its alerts.
LEMMA StrictestMarking ==
  ASSUME NEW t, NEW a \in t.alerts, a.tlp \in ToSet(TlpOrder)
  PROVE  IndexIn(TlpOrder, DetermineTlp(t)) <= IndexIn(TlpOrder, a.tlp)
<1> DEFINE listed == {b.tlp : b \in t.alerts} \cap ToSet(TlpOrder)
           places == {IndexIn(TlpOrder, x) : x \in listed}
           strictest == Min(places)
<1>1. DOMAIN TlpOrder = 1 .. 4
    BY DEF TlpOrder
<1>2. \A i \in 1 .. 4, j \in 1 .. 4 : TlpOrder[i] = TlpOrder[j] => i = j
    BY DEF TlpOrder
<1>3. a.tlp \in listed
    OBVIOUS
<1>4. \A x \in listed : IndexIn(TlpOrder, x) \in 1 .. 4
    BY <1>1 DEF ToSet, IndexIn
<1>5. \A i \in 1 .. 4 : IndexIn(TlpOrder, TlpOrder[i]) = i
    BY <1>1, <1>2 DEF IndexIn
<1>6. places \in SUBSET (1 .. 4) /\ IndexIn(TlpOrder, a.tlp) \in places
    BY <1>3, <1>4
<1>7. IsFiniteSet(places)
  <2> DEFINE one == 1
             four == 4
             I == one .. four
  <2>1. one \in Int /\ four \in Int /\ places \in SUBSET I
      BY <1>6
  <2> HIDE DEF one, four
  <2>2. IsFiniteSet(I)
      BY <2>1, FS_Interval
  <2> HIDE DEF I, places
  <2> QED  BY <2>1, <2>2, FS_Subset
<1>8. places \subseteq Int /\ places # {}
    BY <1>6
<1> HIDE DEF places
<1>9. strictest \in places /\ \A y \in places : strictest <= y
    BY <1>7, <1>8, MinFacts
<1>10. DetermineTlp(t) = TlpOrder[strictest]
    BY <1>3 DEF DetermineTlp, places
<1> HIDE DEF strictest
<1>11. IndexIn(TlpOrder, DetermineTlp(t)) = strictest
    BY <1>5, <1>6, <1>9, <1>10
<1> QED  BY <1>6, <1>9, <1>11

\* And TLP:RED is only as strict as itself.
LEMMA RedPrevails ==
  ASSUME NEW t, NEW a \in t.alerts, a.tlp = "TLP:RED"
  PROVE  DetermineTlp(t) = "TLP:RED"
<1> DEFINE listed == {b.tlp : b \in t.alerts} \cap ToSet(TlpOrder)
           places == {IndexIn(TlpOrder, x) : x \in listed}
<1>1. DOMAIN TlpOrder = 1 .. 4 /\ TlpOrder[1] = "TLP:RED"
    BY DEF TlpOrder
<1>2. a.tlp \in listed
    BY <1>1 DEF ToSet
<1>3. \A x \in listed : IndexIn(TlpOrder, x) \in 1 .. 4
    BY <1>1 DEF ToSet, IndexIn
<1>4. IndexIn(TlpOrder, a.tlp) = 1
    BY <1>1 DEF IndexIn, TlpOrder
<1>5. 1 \in places /\ \A i \in places : i \in 1 .. 4
    BY <1>2, <1>3, <1>4
<1>6. Min(places) = 1
    BY <1>5 DEF Min
<1> QED  BY <1>1, <1>2, <1>6 DEF DetermineTlp

\* The report is marked as its threat, and each rendering as the report.
LEMMA MarkingKept ==
  ASSUME NEW t, NEW score, NEW role \in OutputRole
  PROVE  Render(Generate(t, score), role).tlp = DetermineTlp(t)
<1> DEFINE report == Generate(t, score)
<1>1. report.tlp = DetermineTlp(t)
    BY DEF Generate
<1> HIDE DEF report
<1>2. Render(report, role).tlp = report.tlp
    BY DEF Render, OutputRole
<1> QED  BY <1>1, <1>2 DEF report
-----------------------------------------------------------------------------
\* The invariant

\* A multiplier some context gave, at some time.
Weighed(m, alerts) ==
  \E context \in Contexts, time \in Nat : m = MissionImpact(context, time, alerts)

\* A result has the score and the report of its threat.
ScoredOk(r) ==
  /\ ThreatOk(r.threat)
  /\ r.score.at \in Nat /\ Weighed(r.score.multiplier, r.threat.alerts)
  /\ r.score = Score(r.threat, r.score.at, r.score.multiplier, r.score.degraded)
  /\ r.report = Generate(r.threat, r.score)

ListOk(list) ==
  /\ \E S : list \in Seq(S)
  /\ \A i \in DOMAIN list : ScoredOk(list[i])

Sorted(list) ==
  \A i, j \in DOMAIN list : i < j => list[i].score.shown >= list[j].score.shown

TriageInv ==
  /\ now \in Nat /\ missions \in Contexts
  /\ BatchOk(batch)
  /\ \A t \in waiting : ThreatOk(t)
  /\ \A h \in half : ThreatOk(h.threat) /\ Weighed(h.multiplier, h.threat.alerts)
  /\ ListOk(results)
  /\ stage # "scoring" => half = {}
  /\ stage = "done" => Sorted(results)

\* What a score says.
LEMMA ScoredFacts ==
  ASSUME NEW r, ScoredOk(r)
  PROVE  /\ r.score.multiplier \in Multipliers
         /\ AdjustedPoints(r.threat, r.score.at, r.score.multiplier) \in Nat
         /\ r.score.shown = Rounded(AdjustedPoints(r.threat, r.score.at, r.score.multiplier))
         /\ r.score.tier = AssignTier(AdjustedPoints(r.threat, r.score.at, r.score.multiplier))
         /\ r.score.shown \in Nat
<1> DEFINE m == r.score.multiplier
           p == AdjustedPoints(r.threat, r.score.at, m)
<1>1. m \in Multipliers
    BY ImpactFacts DEF ScoredOk, Weighed, Multipliers
<1>2. p \in Nat
    BY <1>1, AdjustedGrow DEF ScoredOk
<1>3. r.score.shown = Rounded(p) /\ r.score.tier = AssignTier(p)
    BY DEF ScoredOk, Score
<1> HIDE DEF p
<1>4. Rounded(p) \in Nat
    BY <1>2, RoundedGrows
<1> QED  BY <1>1, <1>2, <1>3, <1>4 DEF p

\* Rank, tier and score shown agree.
LEMMA RankingRespected ==
  ASSUME TriageInv
  PROVE  RankingRespectsTiers
<1> SUFFICES ASSUME NEW i \in DOMAIN results, NEW j \in DOMAIN results
             PROVE  LET a == results[i].score
                        b == results[j].score
                    IN /\ stage = "done" /\ i < j => a.shown >= b.shown
                       /\ a.shown > b.shown => TierRank(a.tier) <= TierRank(b.tier)
                       /\ a.shown = b.shown /\ a.tier # b.tier
                            => a.shown \in {8000, 6000, 3500}
    BY DEF RankingRespectsTiers
<1> DEFINE a == results[i].score
           b == results[j].score
           p == AdjustedPoints(results[i].threat, a.at, a.multiplier)
           q == AdjustedPoints(results[j].threat, b.at, b.multiplier)
<1>1. ScoredOk(results[i]) /\ ScoredOk(results[j])
    BY DEF TriageInv, ListOk
<1>2. p \in Nat /\ a.shown = Rounded(p) /\ a.tier = AssignTier(p)
    BY <1>1, ScoredFacts
<1>3. q \in Nat /\ b.shown = Rounded(q) /\ b.tier = AssignTier(q)
    BY <1>1, ScoredFacts
<1>4. stage = "done" /\ i < j => a.shown >= b.shown
    BY DEF TriageInv, Sorted
<1> HIDE DEF a, b, p, q
<1>5. /\ a.shown > b.shown => TierRank(a.tier) <= TierRank(b.tier)
      /\ a.shown = b.shown /\ a.tier # b.tier => a.shown \in {8000, 6000, 3500}
    BY <1>2, <1>3, TiersFollowScores
<1> QED  BY <1>4, <1>5 DEF a, b

\* A mission raises a score, and only that of a threat it touches.
LEMMA MissionRaised ==
  ASSUME TriageInv
  PROVE  MissionOnlyRaises
<1> SUFFICES ASSUME NEW i \in DOMAIN results
             PROVE  LET t == results[i].threat
                        score == results[i].score
                        plain == Score(t, score.at, 1000, {})
                    IN /\ score.shown >= plain.shown
                       /\ score.shown <= plain.shown + 100 * ComponentWeights.criticality
                       /\ (\A m \in UNION Contexts : \A r \in m.roles : ~Touches(r, t.alerts))
                            => score.shown = plain.shown
    BY DEF MissionOnlyRaises
<1> DEFINE t == results[i].threat
           score == results[i].score
           m == score.multiplier
           plain == Score(t, score.at, 1000, {})
           p == AdjustedPoints(t, score.at, m)
           q == AdjustedPoints(t, score.at, Plain)
<1>1. ScoredOk(results[i])
    BY DEF TriageInv, ListOk
<1>2. ThreatOk(t) /\ score.at \in Nat /\ Weighed(m, t.alerts)
    BY <1>1 DEF ScoredOk
<1>3. m \in Multipliers /\ score.shown = Rounded(p)
    BY <1>1, ScoredFacts
<1>4. plain.shown = Rounded(q)
    BY DEF Score, Plain
<1>5. (\A x \in UNION Contexts : \A r \in x.roles : ~Touches(r, t.alerts)) => m = Plain
  <2> SUFFICES ASSUME \A x \in UNION Contexts : \A r \in x.roles : ~Touches(r, t.alerts)
               PROVE  m = Plain
      OBVIOUS
  <2>1. PICK context \in Contexts, time \in Nat : m = MissionImpact(context, time, t.alerts)
      BY <1>2 DEF Weighed
  <2>2. \A x \in context : \A r \in x.roles : ~Touches(r, t.alerts)
      OBVIOUS
  <2> QED  BY <2>1, <2>2, ImpactFacts DEF Plain
<1>6. p \in Nat /\ q \in Nat /\ q <= p /\ p <= q + 20 * One
  <2>1. score.at \in Int
      BY <1>2
  <2> HIDE DEF t, score, m
  <2> QED  BY <1>2, <1>3, <2>1, AdjustedGrow
<1>7. ComponentWeights.criticality = 20
    BY DEF ComponentWeights
<1>8. m = Plain => p = q
    OBVIOUS
<1> HIDE DEF t, score, m, plain, p, q
<1>9. /\ Rounded(p) \in Nat /\ Rounded(q) \in Nat
      /\ Rounded(q) <= Rounded(p) /\ Rounded(p) <= Rounded(q) + 2000
    BY <1>6, RoundedGrows
<1>10. /\ score.shown >= plain.shown
       /\ score.shown <= plain.shown + 100 * ComponentWeights.criticality
       /\ (\A x \in UNION Contexts : \A r \in x.roles : ~Touches(r, t.alerts))
            => score.shown = plain.shown
    BY <1>3, <1>4, <1>5, <1>7, <1>8, <1>9
<1> QED  BY <1>10 DEF t, score, plain

\* The renderings are marked as the strictest alert.
LEMMA MarkingsKept ==
  ASSUME TriageInv
  PROVE  ReportKeepsMarking
<1> SUFFICES ASSUME NEW i \in DOMAIN results, NEW a \in results[i].threat.alerts,
                    NEW role \in OutputRole
             PROVE  LET shown == Render(results[i].report, role).tlp
                    IN /\ a.sourceType \in SensitiveSources => shown = "TLP:RED"
                       /\ a.tlp \in ToSet(TlpOrder)
                            => IndexIn(TlpOrder, shown) <= IndexIn(TlpOrder, a.tlp)
    BY Zenon DEF ReportKeepsMarking
<1> DEFINE t == results[i].threat
<1>1. ScoredOk(results[i])
    BY DEF TriageInv, ListOk
<1>2. AlertOk(a) /\ results[i].report = Generate(t, results[i].score)
    BY <1>1 DEF ScoredOk, ThreatOk
<1>3. Render(results[i].report, role).tlp = DetermineTlp(t)
    BY <1>2, MarkingKept
<1>4. a.sourceType \in SensitiveSources => DetermineTlp(t) = "TLP:RED"
    BY <1>2, RedPrevails DEF AlertOk
<1>5. a.tlp \in ToSet(TlpOrder)
        => IndexIn(TlpOrder, DetermineTlp(t)) <= IndexIn(TlpOrder, a.tlp)
    BY StrictestMarking
<1> QED  BY <1>3, <1>4, <1>5
-----------------------------------------------------------------------------
\* The steps

\* A service starts with nothing taken in.
LEMMA TriageInit ==
  ASSUME Init
  PROVE  TriageInv
<1>1. BatchOk(batch)
    BY FS_EmptySet DEF Init, BatchOk
<1>2. ListOk(results)
  <2>1. results \in Seq({}) /\ DOMAIN results = {}
      BY DEF Init
  <2> QED  BY <2>1 DEF ListOk
<1> QED  BY <1>1, <1>2 DEF Init, TriageInv

\* An alert is taken in.
LEMMA TakeStep ==
  ASSUME TriageInv, NEW raw \in RawAlerts, Take(raw)
  PROVE  TriageInv'
<1> DEFINE a == Enrich(Normalise(raw))
<1>1. AlertOk(a)
    BY IntakeOk DEF Take
<1>2. batch' = batch \cup {a} /\ UNCHANGED <<now, missions, stage, waiting, half, results>>
    BY DEF Take
<1> HIDE DEF a
<1>3. BatchOk(batch \cup {a})
    BY <1>1, FS_AddElement DEF TriageInv, BatchOk
<1>4. BatchOk(batch')
    BY <1>2, <1>3
<1> QED  BY <1>2, <1>4 DEF TriageInv, Sorted, ListOk, ScoredOk

\* The batch becomes threats.
LEMMA CorrelateStep ==
  ASSUME TriageInv, Correlate
  PROVE  TriageInv'
<1> DEFINE groups == Groups(batch)
           links == Significant(batch)
<1>1. PICK f \in Confidences(groups, links) :
             waiting' = {BuildThreat(g, links, f[g]) : g \in groups}
    BY DEF Correlate
<1>2. \A g \in groups : f[g] \in GroupConfidences(g, links)
    BY <1>1 DEF Confidences
<1>3. BatchOk(batch)
    BY DEF TriageInv
<1>4. ASSUME NEW t \in waiting' PROVE ThreatOk(t)
  <2>1. PICK g \in groups : t = BuildThreat(g, links, f[g])
      BY <1>1
  <2> QED  BY <1>2, <1>3, <2>1, CorrelatedOk
<1>5. stage' = "scoring" /\ UNCHANGED <<now, missions, batch, half, results>>
    BY DEF Correlate
<1> HIDE DEF groups, links
<1> QED  BY <1>4, <1>5 DEF TriageInv, Sorted, ListOk, ScoredOk

\* The missions are read as they are now.
LEMMA WeighStep ==
  ASSUME TriageInv, NEW t \in waiting, Weigh(t)
  PROVE  TriageInv'
<1> DEFINE m == MissionImpact(missions, now, t.alerts)
<1>1. half' = {[threat |-> t, multiplier |-> m]}
    BY DEF Weigh
<1>2. stage = "scoring" /\ UNCHANGED <<now, missions, stage, batch, waiting, results>>
    BY DEF Weigh
<1>3. ThreatOk(t) /\ Weighed(m, t.alerts)
    BY DEF TriageInv, Weighed
<1> HIDE DEF m
<1>4. \A h \in half' : ThreatOk(h.threat) /\ Weighed(h.multiplier, h.threat.alerts)
    BY <1>1, <1>3
<1> QED  BY <1>2, <1>4 DEF TriageInv, Sorted, ListOk, ScoredOk

\* The rest of the score is computed with the multiplier read before.
LEMMA JudgeStep ==
  ASSUME TriageInv, Judge
  PROVE  TriageInv'
<1>1. PICK h \in half :
        LET t == h.threat
            score == Score(t, now, h.multiplier, DegradedMissions(missions, now, t.alerts))
        IN /\ results' = Append(results,
                                [threat |-> t, score |-> score, report |-> Generate(t, score)])
           /\ waiting' = waiting \ {t}
    BY Zenon DEF Judge
<1> DEFINE t == h.threat
           degraded == DegradedMissions(missions, now, t.alerts)
           score == Score(t, now, h.multiplier, degraded)
           new == [threat |-> t, score |-> score, report |-> Generate(t, score)]
<1>2. results' = Append(results, new) /\ waiting' = waiting \ {t}
    BY <1>1, Zenon
<1>3. half' = {} /\ UNCHANGED <<now, missions, stage, batch>>
    BY DEF Judge
<1>4. stage = "scoring"
    BY DEF TriageInv
<1>5. ThreatOk(t) /\ Weighed(h.multiplier, t.alerts) /\ now \in Nat
    BY DEF TriageInv
<1>6. /\ score.at = now /\ score.multiplier = h.multiplier /\ score.degraded = degraded
      /\ score = Score(t, now, h.multiplier, degraded)
    BY DEF Score
<1> HIDE DEF degraded, score
<1>7. new.threat = t /\ new.score = score /\ new.report = Generate(t, score)
    OBVIOUS
<1> HIDE DEF new, t
<1>8. ScoredOk(new)
    BY <1>5, <1>6, <1>7 DEF ScoredOk
<1>9. ListOk(Append(results, new))
  <2>1. PICK S : results \in Seq(S)
      BY DEF TriageInv, ListOk
  <2> DEFINE T == S \cup {new}
  <2>2. results \in Seq(T) /\ new \in T
      BY <2>1
  <2> HIDE DEF T
  <2>3. Append(results, new) \in Seq(T)
      BY <2>2
  <2>4. \A i \in DOMAIN Append(results, new) :
          \/ Append(results, new)[i] = new
          \/ i \in DOMAIN results /\ Append(results, new)[i] = results[i]
    <3>1. /\ Len(results) \in Nat /\ DOMAIN results = 1 .. Len(results)
          /\ DOMAIN Append(results, new) = 1 .. (Len(results) + 1)
          /\ Append(results, new)[Len(results) + 1] = new
          /\ \A i \in 1 .. Len(results) : Append(results, new)[i] = results[i]
        BY <2>2
    <3> QED  BY <3>1
  <2>5. \A i \in DOMAIN Append(results, new) : ScoredOk(Append(results, new)[i])
      BY <1>8, <2>4 DEF TriageInv, ListOk
  <2> QED  BY <2>3, <2>5 DEF ListOk
<1>10. ListOk(results')
    BY <1>2, <1>9
<1> QED  BY <1>2, <1>3, <1>4, <1>10 DEF TriageInv

\* The results are sorted.
LEMMA RankStep ==
  ASSUME TriageInv, Rank
  PROVE  TriageInv'
<1>1. /\ half = {} /\ stage' = "done" /\ results' = Ranked(results)
      /\ UNCHANGED <<now, missions, batch, waiting, half>>
    BY DEF Rank
<1>2. PICK S : results \in Seq(S)
    BY DEF TriageInv, ListOk
<1> DEFINE n == Len(results)
<1>3. n \in Nat /\ DOMAIN results = 1 .. n
    BY <1>2
<1>4. \A i \in DOMAIN results : ScoredOk(results[i])
    BY DEF TriageInv, ListOk
<1>5. \A i \in DOMAIN results : results[i].score.shown \in Int
    BY <1>4, ScoredFacts
<1>6. /\ Ranked(results) = [k \in DOMAIN results |-> Ranked(results)[k]]
      /\ \A k \in DOMAIN results : \E i \in DOMAIN results : Ranked(results)[k] = results[i]
      /\ Sorted(Ranked(results))
    BY <1>3, <1>5, RankedFacts DEF Sorted
<1> DEFINE list == Ranked(results)
<1>7. list \in Seq(S)
  <2>1. \A k \in 1 .. n : list[k] \in S
    <3>1. \A i \in DOMAIN results : results[i] \in S
        BY <1>2
    <3> HIDE DEF n, list
    <3> QED  BY <1>3, <1>6, <3>1 DEF list
  <2>2. list = [k \in 1 .. n |-> list[k]]
      BY <1>3, <1>6
  <2> HIDE DEF list, n
  <2>3. list \in [1 .. n -> S]
      BY <2>1, <2>2
  <2> QED  BY <1>3, <2>3
<1>8. \A k \in DOMAIN list : ScoredOk(list[k])
    BY <1>4, <1>6
<1> HIDE DEF list
<1>9. ListOk(list)
    BY <1>7, <1>8 DEF ListOk
<1>10. ListOk(results') /\ Sorted(results')
    BY <1>1, <1>6, <1>9 DEF list
<1> QED  BY <1>1, <1>10 DEF TriageInv

\* The other steps leave the results alone, or drop them.
LEMMA RestStep ==
  ASSUME TriageInv,
         Standby \/ (\E context \in Contexts : Reload(context)) \/ Tick \/ UNCHANGED vars
  PROVE  TriageInv'
<1>1. CASE Standby
  <2>1. batch' = {} /\ results' = <<>> /\ stage' = "intake" /\ stage = "done"
        /\ UNCHANGED <<now, missions, waiting, half>>
      BY <1>1 DEF Standby
  <2>2. BatchOk({})
      BY FS_EmptySet DEF BatchOk
  <2>3. ListOk(<<>>)
    <3>1. <<>> \in Seq({}) /\ DOMAIN <<>> = {}
        OBVIOUS
    <3> QED  BY <3>1 DEF ListOk
  <2>4. BatchOk(batch') /\ ListOk(results')
      BY <2>1, <2>2, <2>3
  <2> QED  BY <2>1, <2>4 DEF TriageInv
<1>2. CASE \E context \in Contexts : Reload(context)
    BY <1>2 DEF Reload, TriageInv, Sorted, ListOk, ScoredOk
<1>3. CASE Tick
  <2>1. now' \in Nat
    <3>1. Step \in Nat /\ now \in Nat
        BY TriageAssumption DEF TriageInv
    <3> QED  BY <1>3, <3>1 DEF Tick
  <2> QED  BY <1>3, <2>1 DEF Tick, TriageInv, Sorted, ListOk, ScoredOk
<1>4. CASE UNCHANGED vars
    BY <1>4 DEF vars, TriageInv, Sorted, ListOk, ScoredOk
<1> QED  BY <1>1, <1>2, <1>3, <1>4
-----------------------------------------------------------------------------
\* The groups of a batch

\* A set of alerts no link leads out of.
IsClosed(g, all) == g \in SUBSET all /\ g # {} /\ Closed(g, Significant(all))

\* A link joins two alerts of the batch.
LEMMA LinksWithin ==
  ASSUME NEW all, NEW l \in Significant(all)
  PROVE  l.pair \subseteq all /\ l.pair # {}
<1>1. l \in Links(all)
    BY DEF Significant
<1>2. l.pair \in Pairs(all)
  <2>1. CASE l \in IocLinks(all)
    <3> DEFINE strength(p) == Min({1000, Max({Specificity(o) : o \in Shared(p)})
                                    + Min({150, 50 * (Cardinality(Shared(p)) - 1)})})
    <3>1. \E p \in {q \in Pairs(all) : \E o \in Shared(q) : o.type \notin WeakIocTypes} :
            l = [pair |-> p, method |-> "IOC_MATCH", confidence |-> strength(p)]
        BY <2>1, Zenon DEF IocLinks
    <3> HIDE DEF strength
    <3> QED  BY <3>1
  <2>2. CASE l \in TemporalLinks(all)
      BY <2>2 DEF TemporalLinks
  <2>3. CASE l \in AssetLinks(all)
    <3> DEFINE strength(p) == Min({1000, Max(AssetConfidences(p))
                                    + (150 * Max({a.criticality : a \in p})) \div 100})
    <3>1. \E p \in {q \in Pairs(all) : AssetConfidences(q) # {}} :
            l = [pair |-> p, method |-> "ASSET_OVERLAP", confidence |-> strength(p)]
        BY <2>3, Zenon DEF AssetLinks
    <3> HIDE DEF strength
    <3> QED  BY <3>1
  <2>4. CASE l \in BehaviourLinks(all)
      BY <2>4 DEF BehaviourLinks
  <2> QED  BY <1>1, <2>1, <2>2, <2>3, <2>4 DEF Links
<1>3. l.pair \in SUBSET all /\ Cardinality(l.pair) = 2
    BY <1>2 DEF Pairs
<1> QED  BY <1>3, FS_EmptySet

\* What a group of a batch is.
LEMMA GroupFacts ==
  ASSUME NEW all, NEW g
  PROVE  g \in Groups(all) <=>
           IsClosed(g, all) /\ \A h \in SUBSET all : IsClosed(h, all) /\ h \subseteq g => h = g
<1> DEFINE closed == {h \in SUBSET all : h # {} /\ Closed(h, Significant(all))}
<1>1. Groups(all) = {x \in closed : \A h \in closed : h \subseteq x => h = x}
    BY Zenon DEF Groups
<1>2. \A h : h \in closed <=> IsClosed(h, all)
    BY DEF IsClosed
<1> HIDE DEF closed
<1>3. \A h : IsClosed(h, all) => h \in SUBSET all
    BY DEF IsClosed
<1>4. g \in Groups(all) <=> g \in closed /\ \A h \in closed : h \subseteq g => h = g
    BY <1>1
<1> QED  BY <1>2, <1>3, <1>4

\* What two closed sets share is closed, and what the one has besides.
LEMMA ClosedParts ==
  ASSUME NEW all, NEW g, NEW h, IsClosed(g, all), IsClosed(h, all)
  PROVE  /\ g \cap h # {} => IsClosed(g \cap h, all)
         /\ g \ h # {} => IsClosed(g \ h, all)
<1>1. ASSUME NEW l \in Significant(all)
      PROVE  /\ l.pair \subseteq g \/ l.pair \cap g = {}
             /\ l.pair \subseteq h \/ l.pair \cap h = {}
    BY <1>1 DEF IsClosed, Closed
<1>2. ASSUME NEW l \in Significant(all)
      PROVE  /\ l.pair \subseteq g \cap h \/ l.pair \cap (g \cap h) = {}
             /\ l.pair \subseteq g \ h \/ l.pair \cap (g \ h) = {}
  <2> DEFINE p == l.pair
  <2>1. (p \subseteq g \/ p \cap g = {}) /\ (p \subseteq h \/ p \cap h = {})
      BY <1>1
  <2> HIDE DEF p
  <2>2. p \subseteq g \cap h \/ p \cap (g \cap h) = {}
      BY <2>1
  <2>3. p \subseteq g \ h \/ p \cap (g \ h) = {}
      BY <2>1
  <2> QED  BY <2>2, <2>3 DEF p
<1>3. Closed(g \cap h, Significant(all)) /\ Closed(g \ h, Significant(all))
    BY <1>2 DEF Closed
<1> QED  BY <1>3 DEF IsClosed

\* Two groups of a batch that share an alert are one.
LEMMA GroupsApart ==
  ASSUME NEW all, NEW g \in Groups(all), NEW h \in Groups(all), g \cap h # {}
  PROVE  g = h
<1>1. IsClosed(g, all) /\ IsClosed(h, all)
    BY GroupFacts
<1>2. IsClosed(g \cap h, all)
    BY <1>1, ClosedParts
<1>3. g \cap h \in SUBSET all /\ g \cap h \subseteq g /\ g \cap h \subseteq h
    BY <1>2 DEF IsClosed
<1>4. g \cap h = g /\ g \cap h = h
    BY <1>2, <1>3, GroupFacts
<1> QED  BY <1>4

\* Every alert of a batch is in a group: in what all closed sets that have it
\* share.
LEMMA GroupOfAlert ==
  ASSUME NEW all, NEW a \in all
  PROVE  \E g \in Groups(all) : a \in g
<1> DEFINE g == {b \in all : \A h \in SUBSET all : IsClosed(h, all) /\ a \in h => b \in h}
<1>1. a \in g /\ g \in SUBSET all
    OBVIOUS
<1>2. \A h \in SUBSET all : IsClosed(h, all) /\ a \in h => g \subseteq h
    OBVIOUS
<1>3. ASSUME NEW l \in Significant(all) PROVE l.pair \subseteq g \/ l.pair \cap g = {}
  <2> SUFFICES ASSUME NEW x \in l.pair, x \in g, NEW y \in l.pair PROVE y \in g
      OBVIOUS
  <2>1. y \in all
      BY LinksWithin
  <2>2. ASSUME NEW h \in SUBSET all, IsClosed(h, all), a \in h PROVE y \in h
    <3>1. x \in h
        BY <1>2, <2>2
    <3> HIDE DEF g
    <3> QED  BY <2>2, <3>1 DEF IsClosed, Closed
  <2> QED  BY <2>1, <2>2
<1> HIDE DEF g
<1>4. IsClosed(g, all)
    BY <1>1, <1>3 DEF IsClosed, Closed
<1>5. ASSUME NEW h \in SUBSET all, IsClosed(h, all), h \subseteq g PROVE h = g
  <2>1. CASE a \in h
      BY <1>2, <1>5, <2>1
  <2>2. CASE a \notin h
    <3>1. IsClosed(g \ h, all)
        BY <1>1, <1>4, <1>5, <2>2, ClosedParts
    <3>2. g \ h \in SUBSET all /\ a \in g \ h
        BY <1>1, <2>2
    <3>3. g \subseteq g \ h
        BY <1>2, <3>1, <3>2
    <3>4. h = {}
        BY <1>5, <3>3
    <3> QED  BY <1>5, <3>4 DEF IsClosed
  <2> QED  BY <2>1, <2>2
<1> QED  BY <1>1, <1>4, <1>5, GroupFacts
-----------------------------------------------------------------------------
\* The threats of a batch

\* What a finished run reports of its batch: every alert in one result, two
\* alerts with a significant link between them in the same, and in no result
\* a part that no such link joins to the rest (the components of
\* correlation/engine.py:259-275, the loop over the threats of
\* ThreatPipeline.run, pipeline.py:249-311).
ReportsPartitionBatch ==
  stage = "done" =>
    /\ \A a \in batch : \E i \in DOMAIN results :
         \A j \in DOMAIN results : a \in results[j].threat.alerts <=> j = i
    /\ \A l \in Significant(batch) : \E i \in DOMAIN results :
         l.pair \subseteq results[i].threat.alerts
    /\ \A i \in DOMAIN results :
         LET g == results[i].threat.alerts
         IN /\ g \in SUBSET batch /\ g # {}
            /\ \A part \in (SUBSET g) \ {{}, g} : \E l \in Significant(batch) :
                 l.pair \subseteq g /\ ~(l.pair \subseteq part) /\ l.pair \cap part # {}

\* Each group of a batch is one threat, that waits for its score or has it.
OneThreatEach(all, unscored, scored) ==
  /\ \A t \in unscored : t.alerts \in Groups(all)
  /\ \A i \in DOMAIN scored : scored[i].threat.alerts \in Groups(all)
  /\ \A g \in Groups(all) : \/ \E t \in unscored : t.alerts = g
                            \/ \E i \in DOMAIN scored : scored[i].threat.alerts = g
  /\ \A t, u \in unscored : t.alerts = u.alerts => t = u
  /\ \A t \in unscored, i \in DOMAIN scored : scored[i].threat.alerts # t.alerts
  /\ \A i, j \in DOMAIN scored : scored[i].threat.alerts = scored[j].threat.alerts => i = j

PartsInv ==
  /\ \A h \in half : h.threat \in waiting
  /\ stage = "intake" => waiting = {} /\ results = <<>>
  /\ stage = "done" => waiting = {}
  /\ stage # "intake" => OneThreatEach(batch, waiting, results)

\* Groups of a finished run that are a threat each report what they should.
LEMMA PartsReported ==
  ASSUME PartsInv
  PROVE  ReportsPartitionBatch
<1> SUFFICES ASSUME stage = "done"
             PROVE  /\ \A a \in batch : \E i \in DOMAIN results :
                         \A j \in DOMAIN results : a \in results[j].threat.alerts <=> j = i
                    /\ \A l \in Significant(batch) : \E i \in DOMAIN results :
                         l.pair \subseteq results[i].threat.alerts
                    /\ \A i \in DOMAIN results :
                         LET g == results[i].threat.alerts
                         IN /\ g \in SUBSET batch /\ g # {}
                            /\ \A part \in (SUBSET g) \ {{}, g} : \E l \in Significant(batch) :
                                 /\ l.pair \subseteq g /\ ~(l.pair \subseteq part)
                                 /\ l.pair \cap part # {}
    BY DEF ReportsPartitionBatch
<1> DEFINE part(i) == results[i].threat.alerts
<1>1. waiting = {} /\ OneThreatEach(batch, waiting, results)
    BY DEF PartsInv
<1>2. /\ \A i \in DOMAIN results : part(i) \in Groups(batch)
      /\ \A g \in Groups(batch) : \E i \in DOMAIN results : part(i) = g
      /\ \A i, j \in DOMAIN results : part(i) = part(j) => i = j
    BY <1>1 DEF OneThreatEach
<1> HIDE DEF part
<1>3. ASSUME NEW a \in batch
      PROVE  \E i \in DOMAIN results : \A j \in DOMAIN results : a \in part(j) <=> j = i
  <2>1. PICK g \in Groups(batch) : a \in g
      BY GroupOfAlert
  <2>2. PICK i \in DOMAIN results : part(i) = g
      BY <1>2
  <2>3. ASSUME NEW j \in DOMAIN results, a \in part(j) PROVE j = i
    <3>1. part(j) \in Groups(batch) /\ part(j) \cap g # {}
        BY <1>2, <2>1, <2>3
    <3>2. part(j) = g
        BY <3>1, GroupsApart
    <3> QED  BY <1>2, <2>2, <3>2
  <2> QED  BY <2>1, <2>2, <2>3
<1>4. ASSUME NEW l \in Significant(batch)
      PROVE  \E i \in DOMAIN results : l.pair \subseteq part(i)
  <2>1. PICK a \in l.pair : a \in batch
      BY LinksWithin
  <2>2. PICK i \in DOMAIN results : a \in part(i)
      BY <1>3, <2>1
  <2>3. Closed(part(i), Significant(batch))
      BY <1>2, GroupFacts DEF IsClosed
  <2> QED  BY <2>1, <2>2, <2>3 DEF Closed
<1>5. ASSUME NEW i \in DOMAIN results
      PROVE  /\ part(i) \in SUBSET batch /\ part(i) # {}
             /\ \A s \in (SUBSET part(i)) \ {{}, part(i)} : \E l \in Significant(batch) :
                  l.pair \subseteq part(i) /\ ~(l.pair \subseteq s) /\ l.pair \cap s # {}
  <2> DEFINE g == part(i)
  <2>1. /\ IsClosed(g, batch)
        /\ \A h \in SUBSET batch : IsClosed(h, batch) /\ h \subseteq g => h = g
      BY <1>2, GroupFacts
  <2> HIDE DEF g
  <2>2. g \in SUBSET batch /\ g # {} /\ Closed(g, Significant(batch))
      BY <2>1 DEF IsClosed
  <2>3. ASSUME NEW s \in (SUBSET g) \ {{}, g}
        PROVE  \E l \in Significant(batch) :
                 l.pair \subseteq g /\ ~(l.pair \subseteq s) /\ l.pair \cap s # {}
    <3>1. s \in SUBSET batch /\ s # {} /\ s \subseteq g /\ s # g
        BY <2>2
    <3>2. ~ Closed(s, Significant(batch))
        BY <2>1, <3>1 DEF IsClosed
    <3>3. PICK l \in Significant(batch) : ~(l.pair \subseteq s) /\ l.pair \cap s # {}
        BY <3>2 DEF Closed
    <3>4. l.pair \subseteq g \/ l.pair \cap g = {}
        BY <2>2 DEF Closed
    <3> QED  BY <3>1, <3>3, <3>4
  <2> QED  BY <2>2, <2>3 DEF g
<1> QED  BY <1>3, <1>4, <1>5 DEF part

\* A service starts with no threats.
LEMMA PartsInit ==
  ASSUME Init
  PROVE  PartsInv
BY DEF Init, PartsInv

\* Correlating makes one threat of each group.
LEMMA CorrelateParts ==
  ASSUME PartsInv, Correlate
  PROVE  PartsInv'
<1> DEFINE groups == Groups(batch)
           links == Significant(batch)
<1>1. PICK f \in Confidences(groups, links) :
             waiting' = {BuildThreat(g, links, f[g]) : g \in groups}
    BY DEF Correlate
<1>2. \A g \in groups : BuildThreat(g, links, f[g]).alerts = g
    BY DEF BuildThreat
<1>3. stage = "intake" /\ stage' = "scoring" /\ UNCHANGED <<now, missions, batch, half, results>>
    BY DEF Correlate
<1> DEFINE threat(g) == BuildThreat(g, links, f[g])
<1>4. \A t \in waiting' : \E g \in groups : t = threat(g)
    BY <1>1
<1>5. \A g \in groups : threat(g) \in waiting' /\ threat(g).alerts = g
    BY <1>1, <1>2
<1>6. groups' = groups
    BY <1>3
<1> HIDE DEF threat, links
<1>7. results' = <<>> /\ DOMAIN results' = {} /\ half' = {}
    BY <1>3 DEF PartsInv
<1>8. OneThreatEach(batch', waiting', results')
  <2>1. \A t \in waiting' : t.alerts \in groups
      BY <1>4, <1>5
  <2>2. \A t, u \in waiting' : t.alerts = u.alerts => t = u
      BY <1>4, <1>5
  <2>3. \A g \in groups : \E t \in waiting' : t.alerts = g
      BY <1>5
  <2>4. batch' = batch
      BY <1>3
  <2> HIDE DEF groups
  <2> QED  BY <1>7, <2>1, <2>2, <2>3, <2>4 DEF OneThreatEach, groups
<1> QED  BY <1>3, <1>7, <1>8 DEF PartsInv

\* Scoring a threat takes it from those that wait.
LEMMA JudgeParts ==
  ASSUME TriageInv, PartsInv, Judge
  PROVE  PartsInv'
<1>1. PICK h \in half :
        LET t == h.threat
            score == Score(t, now, h.multiplier, DegradedMissions(missions, now, t.alerts))
        IN /\ results' = Append(results,
                                [threat |-> t, score |-> score, report |-> Generate(t, score)])
           /\ waiting' = waiting \ {t}
    BY Zenon DEF Judge
<1> DEFINE t == h.threat
           score == Score(t, now, h.multiplier, DegradedMissions(missions, now, t.alerts))
           new == [threat |-> t, score |-> score, report |-> Generate(t, score)]
<1>2. results' = Append(results, new) /\ waiting' = waiting \ {t}
    BY <1>1, Zenon
<1>3. half' = {} /\ UNCHANGED <<now, missions, stage, batch>>
    BY DEF Judge
<1>4. stage = "scoring" /\ t \in waiting
    BY DEF TriageInv, PartsInv
<1>5. new.threat = t
    OBVIOUS
<1> HIDE DEF new, t
<1>6. PICK S : results \in Seq(S)
    BY DEF TriageInv, ListOk
<1> DEFINE T == S \cup {new}
           n == Len(results)
<1>7. results \in Seq(T) /\ new \in T
    BY <1>6
<1> HIDE DEF T
<1>8. /\ n \in Nat /\ DOMAIN results = 1 .. n /\ DOMAIN results' = 1 .. (n + 1)
      /\ results'[n + 1] = new /\ \A i \in 1 .. n : results'[i] = results[i]
    BY <1>2, <1>7
<1>9. OneThreatEach(batch, waiting, results)
    BY <1>4 DEF PartsInv
<1> DEFINE part(i) == results[i].threat.alerts
           after(i) == results'[i].threat.alerts
<1>10. \A i \in 1 .. (n + 1) : i = n + 1 \/ i \in 1 .. n
    BY <1>8
<1>11. after(n + 1) = t.alerts /\ \A i \in 1 .. n : after(i) = part(i)
    BY <1>5, <1>8
<1>12. /\ \A u \in waiting : u.alerts \in Groups(batch)
       /\ \A i \in 1 .. n : part(i) \in Groups(batch)
       /\ \A g \in Groups(batch) : \/ \E u \in waiting : u.alerts = g
                                   \/ \E i \in 1 .. n : part(i) = g
       /\ \A u, v \in waiting : u.alerts = v.alerts => u = v
       /\ \A u \in waiting, i \in 1 .. n : part(i) # u.alerts
       /\ \A i, j \in 1 .. n : part(i) = part(j) => i = j
    BY <1>8, <1>9 DEF OneThreatEach
<1>13. n + 1 \in 1 .. (n + 1) /\ \A i \in 1 .. n : i \in 1 .. (n + 1)
    BY <1>8
<1> HIDE DEF part, after, n
<1>14. \A i \in 1 .. (n + 1) : after(i) \in Groups(batch)
    BY <1>4, <1>10, <1>11, <1>12
<1>15. ASSUME NEW g \in Groups(batch)
       PROVE  (\E u \in waiting' : u.alerts = g) \/ (\E i \in 1 .. (n + 1) : after(i) = g)
    BY <1>2, <1>11, <1>12, <1>13
<1>16. \A u \in waiting', i \in 1 .. (n + 1) : after(i) # u.alerts
    BY <1>2, <1>4, <1>10, <1>11, <1>12
<1>17. \A i, j \in 1 .. (n + 1) : after(i) = after(j) => i = j
    BY <1>4, <1>10, <1>11, <1>12
<1>18. OneThreatEach(batch', waiting', results')
  <2>1. DOMAIN results' = 1 .. (n + 1) /\ batch' = batch
      BY <1>3, <1>8 DEF n
  <2> QED  BY <1>2, <1>12, <1>14, <1>15, <1>16, <1>17, <2>1 DEF OneThreatEach, after
<1> QED  BY <1>3, <1>4, <1>18 DEF PartsInv

\* Ranking moves the results and keeps each.
LEMMA RankParts ==
  ASSUME TriageInv, PartsInv, Rank
  PROVE  PartsInv'
<1>1. /\ stage = "scoring" /\ waiting = {} /\ half = {} /\ stage' = "done"
      /\ results' = Ranked(results) /\ UNCHANGED <<now, missions, batch, waiting, half>>
    BY DEF Rank
<1>2. PICK S : results \in Seq(S)
    BY DEF TriageInv, ListOk
<1>3. Len(results) \in Nat /\ DOMAIN results = 1 .. Len(results)
    BY <1>2
<1>4. \A i \in DOMAIN results : results[i].score.shown \in Int
    BY ScoredFacts DEF TriageInv, ListOk
<1>5. /\ Ranked(results) = [k \in DOMAIN results |-> Ranked(results)[k]]
      /\ Rearranged(Ranked(results), results)
    BY <1>3, <1>4, RankedFacts
<1> DEFINE D == DOMAIN results
<1>6. PICK order \in Bijection(D, D) : \A k \in D : results'[k] = results[order[k]]
    BY <1>1, <1>5 DEF Rearranged
<1>7. DOMAIN results' = D
    BY <1>1, <1>5
<1>8. /\ \A k \in D : order[k] \in D
      /\ \A i, k \in D : order[i] = order[k] => i = k
      /\ \A i \in D : \E k \in D : order[k] = i
    BY DEF Bijection, Injection, Surjection, IsInjective
<1>9. OneThreatEach(batch, waiting, results)
    BY <1>1 DEF PartsInv
<1> DEFINE part(i) == results[i].threat.alerts
           after(i) == results'[i].threat.alerts
<1>10. /\ \A i \in D : part(i) \in Groups(batch)
       /\ \A g \in Groups(batch) : \E i \in D : part(i) = g
       /\ \A i, j \in D : part(i) = part(j) => i = j
    BY <1>1, <1>9 DEF OneThreatEach
<1>11. \A k \in D : after(k) = part(order[k])
    BY <1>6
<1> HIDE DEF part, after, D
<1>12. /\ \A k \in D : after(k) \in Groups(batch)
       /\ \A g \in Groups(batch) : \E k \in D : after(k) = g
       /\ \A i, k \in D : after(i) = after(k) => i = k
    BY <1>8, <1>10, <1>11
<1>13. OneThreatEach(batch', waiting', results')
    BY <1>1, <1>7, <1>12 DEF OneThreatEach, after
<1> QED  BY <1>1, <1>13 DEF PartsInv
-----------------------------------------------------------------------------
\* Evidence and the heuristic false-positive probability

\* An alert adds its reliability to that of its group,
LEMMA ReliabilityAdds ==
  ASSUME NEW F, IsFiniteSet(F), NEW e \in F, \A a \in F : a.reliability \in Int
  PROVE  MapThenSumSet(LAMBDA a : a.reliability, F)
           = MapThenSumSet(LAMBDA a : a.reliability, F \ {e}) + e.reliability
<1> DEFINE S == F \ {e}
           v == [a \in S |-> a.reliability]
           w == [a \in F |-> a.reliability]
           m == MapThenSumSet(LAMBDA a : a.reliability, S)
           n == MapThenSumSet(LAMBDA a : a.reliability, F)
<1>1. IsFiniteSet(S) /\ \A a \in S : a.reliability \in Int
    BY FS_Subset
<1>2. PICK g : SumsOf(F, w, g) /\ n = g[F]
    BY ReliabilityFold, Zenon
<1>3. PICK h : SumsOf(S, v, h) /\ m = h[S]
    BY <1>1, ReliabilityFold, Zenon
<1>4. v \in [S -> Int] /\ w \in [F -> Int]
    OBVIOUS
<1>5. w[e] = e.reliability /\ \A a \in S : v[a] = w[a]
    OBVIOUS
<1>6. OneMore(S, v, e, F, w)
  <2> HIDE DEF v, w
  <2> QED  BY <1>5 DEF OneMore
<1> HIDE DEF S, v, w, m, n
<1>7. SumIs(S, v, m) /\ SumIs(F, w, n)
    BY <1>1, <1>2, <1>3, <1>4 DEF SumIs
<1>8. n = m + w[e]
    BY <1>6, <1>7, SumWithOneMore
<1>9. n = m + e.reliability
    BY <1>5, <1>8
<1> QED  BY <1>9, Zenon DEF S, m, n

\* and its whitelisted assets.
LEMMA WhitelistAdds ==
  ASSUME NEW F, IsFiniteSet(F), NEW e \in F
  PROVE  MapThenSumSet(WhitelistScore, F)
           = MapThenSumSet(WhitelistScore, F \ {e}) + WhitelistScore(e)
<1> DEFINE S == F \ {e}
           v == [a \in S |-> WhitelistScore(a)]
           w == [a \in F |-> WhitelistScore(a)]
           m == MapThenSumSet(WhitelistScore, S)
           n == MapThenSumSet(WhitelistScore, F)
<1>1. IsFiniteSet(S)
    BY FS_Subset
<1>2. PICK g : SumsOf(F, w, g) /\ n = g[F]
    BY WhitelistFold, Zenon
<1>3. PICK h : SumsOf(S, v, h) /\ m = h[S]
    BY <1>1, WhitelistFold, Zenon
<1>4. v \in [S -> Int] /\ w \in [F -> Int]
    BY DEF WhitelistScore
<1>5. w[e] = WhitelistScore(e) /\ \A a \in S : v[a] = w[a]
    OBVIOUS
<1>6. OneMore(S, v, e, F, w)
  <2> HIDE DEF v, w
  <2> QED  BY <1>5 DEF OneMore
<1> HIDE DEF S, v, w, m, n
<1>7. SumIs(S, v, m) /\ SumIs(F, w, n)
    BY <1>1, <1>2, <1>3, <1>4 DEF SumIs
<1>8. n = m + w[e]
    BY <1>6, <1>7, SumWithOneMore
<1>9. n = m + WhitelistScore(e)
    BY <1>5, <1>8
<1> QED  BY <1>9, Zenon DEF S, m, n

Place(severity) == IndexIn(SeverityOrder, severity)

\* The severity of a group is the first of the order that an alert of it has.
LEMMA SeverityFacts ==
  ASSUME NEW group, group # {}, \A a \in group : a.severity \in ToSet(SeverityOrder)
  PROVE  /\ \E a \in group : MaxSeverity(group) = a.severity
         /\ \A a \in group : Place(MaxSeverity(group)) <= Place(a.severity)
<1> DEFINE places == {IndexIn(SeverityOrder, a.severity) : a \in group}
           first == Min(places)
<1>1. DOMAIN SeverityOrder = 1 .. 5
    BY DEF SeverityOrder
<1>2. \A i \in 1 .. 5, j \in 1 .. 5 : SeverityOrder[i] = SeverityOrder[j] => i = j
    BY DEF SeverityOrder
<1>3. ASSUME NEW a \in group
      PROVE  /\ IndexIn(SeverityOrder, a.severity) \in 1 .. 5
             /\ SeverityOrder[IndexIn(SeverityOrder, a.severity)] = a.severity
    BY <1>1 DEF ToSet, IndexIn
<1>4. \A i \in 1 .. 5 : IndexIn(SeverityOrder, SeverityOrder[i]) = i
    BY <1>1, <1>2 DEF IndexIn
<1>5. places \in SUBSET (1 .. 5)
    BY <1>3
<1>6. IsFiniteSet(places)
  <2> DEFINE one == 1
             five == 5
             I == one .. five
  <2>1. one \in Int /\ five \in Int /\ places \in SUBSET I
      BY <1>5
  <2> HIDE DEF one, five
  <2>2. IsFiniteSet(I)
      BY <2>1, FS_Interval
  <2> HIDE DEF I, places
  <2> QED  BY <2>1, <2>2, FS_Subset
<1>7. places \subseteq Int /\ places # {}
    BY <1>5
<1>8. first \in places /\ \A y \in places : first <= y
  <2> HIDE DEF places
  <2> QED  BY <1>6, <1>7, MinFacts
<1>9. MaxSeverity(group) = SeverityOrder[first]
    BY Zenon DEF MaxSeverity
<1> HIDE DEF first
<1>10. PICK a \in group : first = IndexIn(SeverityOrder, a.severity)
    BY <1>8
<1>11. MaxSeverity(group) = a.severity
    BY <1>3, <1>9, <1>10
<1>12. Place(MaxSeverity(group)) = first
    BY <1>4, <1>5, <1>8, <1>9 DEF Place
<1>13. \A b \in group : first <= Place(b.severity)
    BY <1>8 DEF Place
<1> QED  BY <1>11, <1>12, <1>13

\* A further alert leaves a group at least as severe.
LEMMA SeverityGrows ==
  ASSUME NEW F, NEW G, G \subseteq F, G # {},
         \A a \in F : a.severity \in ToSet(SeverityOrder)
  PROVE  /\ MaxSeverity(F) \in {"INFO", "LOW"} => MaxSeverity(G) \in {"INFO", "LOW"}
         /\ MaxSeverity(G) \in {"CRITICAL", "HIGH"} => MaxSeverity(F) \in {"CRITICAL", "HIGH"}
<1>1. PICK g \in G : MaxSeverity(G) = g.severity
    BY SeverityFacts
<1>2. F # {} /\ \A a \in F : Place(MaxSeverity(F)) <= Place(a.severity)
    BY SeverityFacts
<1>3. PICK f \in F : MaxSeverity(F) = f.severity
    BY <1>2, SeverityFacts
<1>4. /\ Place("CRITICAL") = 1 /\ Place("HIGH") = 2 /\ Place("MEDIUM") = 3
      /\ Place("LOW") = 4 /\ Place("INFO") = 5
    BY DEF Place, IndexIn, SeverityOrder
<1>5. ToSet(SeverityOrder) = {"CRITICAL", "HIGH", "MEDIUM", "LOW", "INFO"}
    BY DEF ToSet, SeverityOrder
<1>6. /\ f.severity \in {"CRITICAL", "HIGH", "MEDIUM", "LOW", "INFO"}
      /\ g.severity \in {"CRITICAL", "HIGH", "MEDIUM", "LOW", "INFO"}
      /\ Place(f.severity) <= Place(g.severity)
    BY <1>1, <1>2, <1>3, <1>5
<1> QED  BY <1>1, <1>3, <1>4, <1>6

\* What a group gives away: the points of compute_fp_probability before the
\* two reductions.
Suspicion(group, confidence) ==
  (IF Cardinality({a.sourceType : a \in group}) = 1 THEN 200 ELSE 0)
  + (IF MapThenSumSet(LAMBDA a : a.reliability, group) < LowReliability * Cardinality(group)
     THEN 250 ELSE 0)
  + (IF MaxSeverity(group) \in {"INFO", "LOW"} THEN 250 ELSE 0)
  + MapThenSumSet(WhitelistScore, group)
  + (IF confidence < 400 THEN 150 ELSE 0)

\* An alert that is reliable and on no whitelist makes a group no more
\* suspicious, and as severe and as well corroborated as before.
LEMMA EvidenceGrows ==
  ASSUME NEW F, IsFiniteSet(F), NEW e \in F, F # {e},
         \A a \in F : a.severity \in ToSet(SeverityOrder) /\ a.reliability \in Int,
         e.reliability >= LowReliability, WhitelistScore(e) = 0,
         NEW c \in Int, NEW d \in Int, c <= d
  PROVE  /\ Suspicion(F, d) \in Nat /\ Suspicion(F \ {e}, c) \in Nat
         /\ Suspicion(F, d) <= Suspicion(F \ {e}, c)
         /\ Cardinality({a.sourceType : a \in F \ {e}}) >= MinSources
              => Cardinality({a.sourceType : a \in F}) >= MinSources
<1> DEFINE S == F \ {e}
           types(G) == {a.sourceType : a \in G}
           reliable(G) == MapThenSumSet(LAMBDA a : a.reliability, G)
           listed(G) == MapThenSumSet(WhitelistScore, G)
           unsure(G) == reliable(G) < LowReliability * Cardinality(G)
<1>1. IsFiniteSet(S) /\ S # {} /\ S \subseteq F /\ Cardinality(F) = Cardinality(S) + 1
      /\ Cardinality(S) \in Nat
    BY FS_Subset, FS_RemoveElement, FS_CardinalityType
<1>2. /\ IsFiniteSet(types(F)) /\ types(S) \in SUBSET types(F)
  <2> DEFINE f == [a \in F |-> a.sourceType]
  <2>1. f \in Surjection(F, types(F))
      BY DEF Surjection
  <2>2. IsFiniteSet(types(F))
      BY <2>1, FS_Surjection
  <2> QED  BY <2>2
<1>3. /\ Cardinality(types(F)) \in Nat /\ Cardinality(types(S)) \in Nat
      /\ Cardinality(types(S)) <= Cardinality(types(F)) /\ Cardinality(types(S)) # 0
  <2>1. types(S) # {}
      BY <1>1
  <2> HIDE DEF types, S
  <2>2. IsFiniteSet(types(S)) /\ Cardinality(types(S)) <= Cardinality(types(F))
      BY <1>2, FS_Subset
  <2> QED  BY <1>2, <2>1, <2>2, FS_CardinalityType, FS_EmptySet
<1>4. reliable(F) = reliable(S) + e.reliability
    BY ReliabilityAdds, Zenon
<1>5. reliable(S) \in Int
  <2>1. \A a \in S : a.reliability \in Int
      OBVIOUS
  <2> HIDE DEF S
  <2> QED  BY <1>1, <2>1, ReliabilitySum, Zenon
<1>6. listed(F) = listed(S) + WhitelistScore(e)
    BY WhitelistAdds, Zenon
<1>7. listed(S) \in Nat
    BY <1>1, WhitelistSum, Zenon
<1>8. MaxSeverity(F) \in {"INFO", "LOW"} => MaxSeverity(S) \in {"INFO", "LOW"}
  <2>1. S \subseteq F /\ S # {} /\ \A a \in F : a.severity \in ToSet(SeverityOrder)
      BY <1>1
  <2> HIDE DEF S
  <2> QED  BY <2>1, SeverityGrows
<1>9. unsure(F) => unsure(S)
  <2> DEFINE n == Cardinality(S)
             r == reliable(S)
             x == e.reliability
  <2>1. n \in Nat /\ r \in Int /\ x \in Int /\ x >= 30
      BY <1>1, <1>5 DEF LowReliability
  <2>2. unsure(F) <=> r + x < 30 * (n + 1)
      BY <1>1, <1>4 DEF LowReliability
  <2>3. unsure(S) <=> r < 30 * n
      BY DEF LowReliability
  <2> HIDE DEF n, r, x, unsure
  <2> QED  BY <2>1, <2>2, <2>3
<1> DEFINE points(G, confidence) ==
             (IF Cardinality(types(G)) = 1 THEN 200 ELSE 0) + (IF unsure(G) THEN 250 ELSE 0)
             + (IF MaxSeverity(G) \in {"INFO", "LOW"} THEN 250 ELSE 0) + listed(G)
             + (IF confidence < 400 THEN 150 ELSE 0)
<1>10. Suspicion(F, d) = points(F, d) /\ Suspicion(S, c) = points(S, c)
    BY Zenon DEF Suspicion
<1>11. listed(F) = listed(S) /\ listed(F) \in Nat
    BY <1>6, <1>7
<1> HIDE DEF unsure, types, reliable, listed, S
<1>12. points(F, d) \in Nat /\ points(S, c) \in Nat /\ points(F, d) <= points(S, c)
    BY <1>3, <1>8, <1>9, <1>11
<1>13. Cardinality(types(S)) >= MinSources => Cardinality(types(F)) >= MinSources
    BY <1>3 DEF MinSources
<1> HIDE DEF points
<1> QED  BY <1>10, <1>12, <1>13 DEF types, S

-----------------------------------------------------------------------------
\* The theorems

\* What a run has made so far fits together at every moment, whatever the
\* batch, the contexts and the interleaving with a commander's.
THEOREM TriageInvariance == Spec => []TriageInv
<1>1. Init => TriageInv
    BY TriageInit
<1>2. TriageInv /\ [Next]_vars => TriageInv'
  <2> SUFFICES ASSUME TriageInv, [Next]_vars PROVE TriageInv'
      OBVIOUS
  <2>1. ASSUME NEW raw \in RawAlerts, Take(raw) PROVE TriageInv'
      BY <2>1, TakeStep
  <2>2. CASE Correlate
      BY <2>2, CorrelateStep
  <2>3. ASSUME NEW t \in waiting, Weigh(t) PROVE TriageInv'
      BY <2>3, WeighStep
  <2>4. CASE Judge
      BY <2>4, JudgeStep
  <2>5. CASE Rank
      BY <2>5, RankStep
  <2>6. CASE Standby \/ (\E context \in Contexts : Reload(context)) \/ Tick \/ UNCHANGED vars
      BY <2>6, RestStep
  <2> QED  BY <2>1, <2>2, <2>3, <2>4, <2>5, <2>6 DEF Next
<1> QED  BY <1>1, <1>2, PTL DEF Spec

\* A finished run lists its threats by score, and tier, score shown and rank
\* agree but on a threshold (prioritisation_engine.py:207-217).
THEOREM RanksFollowTiers == Spec => []RankingRespectsTiers
BY TriageInvariance, RankingRespected, PTL

\* A mission raises a score by the weight of the criticality at most, and only
\* where one of its roles touches the threat (mission.py:153-174).
THEOREM MissionsOnlyRaise == Spec => []MissionOnlyRaises
BY TriageInvariance, MissionRaised, PTL

\* The marking of a sensitive source reaches every rendering of the report
\* (enricher.py:158-176, bluf_generator.py:457-472).
THEOREM MarkingsReachReaders == Spec => []ReportKeepsMarking
BY TriageInvariance, MarkingsKept, PTL

\* Every threat of a batch is scored once and reported once, however the clock
\* and the commander interleave with the loop that scores them.
THEOREM PartsInvariance == Spec => [](TriageInv /\ PartsInv)
<1>1. Init => TriageInv /\ PartsInv
    BY TriageInit, PartsInit
<1>2. PartsInv /\ TriageInv /\ TriageInv' /\ [Next]_vars => PartsInv'
  <2> SUFFICES ASSUME PartsInv, TriageInv, [Next]_vars PROVE PartsInv'
      OBVIOUS
  <2>1. ASSUME NEW raw \in RawAlerts, Take(raw) PROVE PartsInv'
      BY <2>1 DEF Take, PartsInv
  <2>2. CASE Correlate
      BY <2>2, CorrelateParts
  <2>3. ASSUME NEW t \in waiting, Weigh(t) PROVE PartsInv'
      BY <2>3 DEF Weigh, PartsInv
  <2>4. CASE Judge
      BY <2>4, JudgeParts
  <2>5. CASE Rank
      BY <2>5, RankParts
  <2>6. CASE Standby
      BY <2>6 DEF Standby, PartsInv, TriageInv
  <2>7. ASSUME NEW context \in Contexts, Reload(context) PROVE PartsInv'
      BY <2>7 DEF Reload, PartsInv
  <2>8. CASE Tick
      BY <2>8 DEF Tick, PartsInv
  <2>9. CASE UNCHANGED vars
      BY <2>9 DEF vars, PartsInv
  <2> QED  BY <2>1, <2>2, <2>3, <2>4, <2>5, <2>6, <2>7, <2>8, <2>9 DEF Next
<1> QED  BY <1>1, <1>2, TriageInvariance, PTL DEF Spec

\* A finished run reports every alert of its batch in one threat: those a
\* significant link joins together, none that no chain of such links joins
\* (correlation/engine.py:259-275, pipeline.py:249-311).
THEOREM BatchIsPartitioned == Spec => []ReportsPartitionBatch
BY PartsInvariance, PartsReported, PTL

\* The heuristic false-positive probability is between 0 and 0.95, and one more
\* alert, that is reliable enough and touches no whitelisted asset, never makes a
\* group look more like a false positive, if the correlation is not less confident:
\* whatever the group, of whatever severity and sources
\* (FalsePositiveFilter.compute_fp_probability, fp_filter.py:50-125).
THEOREM EvidenceNeverRaisesFp ==
  ASSUME NEW group, IsFiniteSet(group), group # {}, NEW a, a \notin group,
         \A b \in group \cup {a} : ValidAlert(b),
         a.reliability >= LowReliability, WhitelistScore(a) = 0,
         NEW c \in Int, NEW d \in Int, c <= d
  PROVE  /\ FpProbability(group, c) \in 0 .. MaxFp
         /\ FpProbability(group \cup {a}, d) \in 0 .. MaxFp
         /\ FpProbability(group \cup {a}, d) <= FpProbability(group, c)
<1> DEFINE F == group \cup {a}
           types(G) == Cardinality({b.sourceType : b \in G}) >= MinSources
           grave(G) == MaxSeverity(G) \in {"CRITICAL", "HIGH"}
           corroborated(G, x) == IF types(G) THEN Atleast0(Suspicion(G, x) - 200)
                                             ELSE Suspicion(G, x)
           severe(G, x) == IF grave(G) THEN Atleast0(corroborated(G, x) - 100)
                                       ELSE corroborated(G, x)
<1>1. IsFiniteSet(F) /\ a \in F /\ F # {a} /\ F \ {a} = group /\ group \subseteq F
    BY FS_AddElement
<1>2. \A b \in F : b.severity \in ToSet(SeverityOrder) /\ b.reliability \in Int
    BY DEF ValidAlert
<1>3. FpProbability(F, d) = Min({severe(F, d), MaxFp})
    BY Zenon DEF FpProbability, Suspicion
<1>4. FpProbability(group, c) = Min({severe(group, c), MaxFp})
    BY Zenon DEF FpProbability, Suspicion
<1>5. grave(group) => grave(F)
  <2> HIDE DEF F
  <2> QED  BY <1>1, <1>2, SeverityGrows
<1>6. /\ Suspicion(F, d) \in Nat /\ Suspicion(group, c) \in Nat
      /\ Suspicion(F, d) <= Suspicion(group, c) /\ (types(group) => types(F))
  <2> HIDE DEF F
  <2>1. /\ Suspicion(F, d) \in Nat /\ Suspicion(F \ {a}, c) \in Nat
        /\ Suspicion(F, d) <= Suspicion(F \ {a}, c)
        /\ Cardinality({b.sourceType : b \in F \ {a}}) >= MinSources
             => Cardinality({b.sourceType : b \in F}) >= MinSources
      BY <1>1, <1>2, EvidenceGrows
  <2> QED  BY <1>1, <2>1
<1> HIDE DEF types, grave, F
<1>7. /\ severe(F, d) \in Nat /\ severe(group, c) \in Nat
      /\ severe(F, d) <= severe(group, c)
    BY <1>5, <1>6 DEF Atleast0
<1> HIDE DEF severe
<1>8. MaxFp \in Nat
    BY DEF MaxFp
<1>9. \A x \in Nat : Min({x, MaxFp}) = (IF x <= MaxFp THEN x ELSE MaxFp)
    BY <1>8, OfTwo
<1> QED  BY <1>3, <1>4, <1>7, <1>8, <1>9 DEF F
===============================================================================
