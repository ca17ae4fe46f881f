-------------------------- MODULE Correlation_proofs --------------------------
(***************************************************************************)
(* Proofs about Correlation: union-find keeps a forest with one root for   *)
(* each component of the pairs united so far, correlate therefore          *)
(* implements Clustering, and the forest is shallow: what find's recursion *)
(* rests on.                                                               *)
(***************************************************************************)
EXTENDS Correlation, FiniteSetTheorems, WellFoundedInduction, TLAPS

Conn(E, a, b) == Promise!Connected(E, a, b)

-----------------------------------------------------------------------------
\* Chains of edges.

\* An alert is connected to itself.
LEMMA ConnRefl ==
  ASSUME NEW E, NEW a \in Alert
  PROVE  Conn(E, a, a)
BY DEF Conn, Promise!Connected

\* A chain from a to b and one from b to c make one from a to c.
LEMMA ConnTrans ==
  ASSUME NEW E, NEW a \in Alert, NEW b \in Alert, NEW c \in Alert,
         Conn(E, a, b), Conn(E, b, c)
  PROVE  Conn(E, a, c)
BY DEF Conn, Promise!Connected

\* Edges are followed in both directions: the complement of a closed set is
\* closed.
LEMMA ConnSym ==
  ASSUME NEW E, E \subseteq Alert \X Alert,
         NEW a \in Alert, NEW b \in Alert, Conn(E, a, b)
  PROVE  Conn(E, b, a)
<1> SUFFICES ASSUME NEW S \in SUBSET Alert, b \in S, Promise!Closed(E, S), a \notin S
             PROVE  FALSE
    BY DEF Conn, Promise!Connected
<1> DEFINE T == Alert \ S
<1>1. Promise!Closed(E, T)
    BY DEF Promise!Closed
<1>2. b \in T
    BY <1>1 DEF Conn, Promise!Connected
<1> QED  BY <1>2

\* An edge is a chain.
LEMMA ConnEdge ==
  ASSUME NEW E, NEW a \in Alert, NEW b \in Alert, <<a, b>> \in E
  PROVE  Conn(E, a, b)
BY DEF Conn, Promise!Connected, Promise!Closed

\* More edges connect more.
LEMMA ConnMono ==
  ASSUME NEW E, NEW F, E \subseteq F, NEW a \in Alert, NEW b \in Alert, Conn(E, a, b)
  PROVE  Conn(F, a, b)
BY DEF Conn, Promise!Connected, Promise!Closed

\* Without edges nothing is connected to anything else.
LEMMA ConnEmpty ==
  ASSUME NEW a \in Alert, NEW b \in Alert, Conn({}, a, b)
  PROVE  a = b
<1>1. Promise!Closed({}, {a})
    BY DEF Promise!Closed
<1> QED  BY <1>1 DEF Conn, Promise!Connected

\* A chain that needs the new edge (a, b) crosses it once.
LEMMA ConnAdd ==
  ASSUME NEW E, E \subseteq Alert \X Alert,
         NEW a \in Alert, NEW b \in Alert, NEW u \in Alert, NEW v \in Alert,
         Conn(E \cup {<<a, b>>}, u, v)
  PROVE  \/ Conn(E, u, v)
         \/ Conn(E, u, a) /\ Conn(E, b, v)
         \/ Conn(E, u, b) /\ Conn(E, a, v)
<1> DEFINE Reached(w) == \/ Conn(E, u, w)
                         \/ Conn(E, u, a) /\ Conn(E, b, w)
                         \/ Conn(E, u, b) /\ Conn(E, a, w)
           S == {w \in Alert : Reached(w)}
<1>1. u \in S
    BY ConnRefl
<1>2. ASSUME NEW e \in E, NEW w \in Alert
      PROVE  /\ e \in Alert \X Alert
             /\ e = <<e[1], e[2]>>
             /\ Conn(E, w, e[1]) <=> Conn(E, w, e[2])
  <2>1. e \in Alert \X Alert /\ e = <<e[1], e[2]>>
      OBVIOUS
  <2>2. Conn(E, e[1], e[2]) /\ Conn(E, e[2], e[1])
      BY <2>1, ConnEdge, ConnSym
  <2> QED  BY <2>1, <2>2, ConnTrans
<1>3. ASSUME NEW e \in E
      PROVE  e[1] \in S <=> e[2] \in S
  <2>1. e \in Alert \X Alert
      OBVIOUS
  <2>2. Conn(E, u, e[1]) <=> Conn(E, u, e[2])
      BY <1>2
  <2>3. Conn(E, a, e[1]) <=> Conn(E, a, e[2])
      BY <1>2
  <2>4. Conn(E, b, e[1]) <=> Conn(E, b, e[2])
      BY <1>2
  <2> QED  BY <2>1, <2>2, <2>3, <2>4
<1>4. a \in S <=> b \in S
  <2>1. Conn(E, a, a) /\ Conn(E, b, b)
      BY ConnRefl
  <2>2. ASSUME a \in S PROVE b \in S
    <3>1. CASE Conn(E, u, a)
        BY <3>1, <2>1
    <3>2. CASE Conn(E, u, a) /\ Conn(E, b, a)
        BY <3>2, <2>1
    <3>3. CASE Conn(E, u, b) /\ Conn(E, a, a)
        BY <3>3
    <3> QED  BY <2>2, <3>1, <3>2, <3>3
  <2>3. ASSUME b \in S PROVE a \in S
    <3>1. CASE Conn(E, u, b)
        BY <3>1, <2>1
    <3>2. CASE Conn(E, u, a) /\ Conn(E, b, b)
        BY <3>2
    <3>3. CASE Conn(E, u, b) /\ Conn(E, a, b)
        BY <3>3, <2>1
    <3> QED  BY <2>3, <3>1, <3>2, <3>3
  <2> QED  BY <2>2, <2>3
<1>5. Promise!Closed(E \cup {<<a, b>>}, S)
  <2> SUFFICES ASSUME NEW e \in E \cup {<<a, b>>}
               PROVE  e[1] \in S <=> e[2] \in S
      BY DEF Promise!Closed
  <2>1. CASE e \in E
      BY <2>1, <1>3
  <2>2. CASE e = <<a, b>>
      BY <2>2, <1>4
  <2> QED  BY <2>1, <2>2
<1>6. v \in S
  <2> HIDE DEF S
  <2>1. S \in SUBSET Alert
      BY DEF S
  <2> QED  BY <1>1, <1>5, <2>1 DEF Conn, Promise!Connected
<1> QED  BY <1>6

\* Only an alert with an edge is connected to another one.
LEMMA ConnHasEdge ==
  ASSUME NEW E, E \subseteq Alert \X Alert,
         NEW a \in Alert, NEW b \in Alert, Conn(E, a, b), a # b
  PROVE  \E e \in E : Conn(E, e[1], a)
<1> SUFFICES ASSUME \A e \in E : ~Conn(E, e[1], a)
             PROVE  FALSE
    OBVIOUS
<1>1. ASSUME NEW e \in E PROVE e[1] # a /\ e[2] # a
  <2>1. e[1] \in Alert /\ e[2] \in Alert /\ e = <<e[1], e[2]>>
      OBVIOUS
  <2>2. Conn(E, e[1], e[2])
      BY <2>1, ConnEdge
  <2> QED  BY <2>1, <2>2, ConnRefl
<1>2. Promise!Closed(E, {a})
    BY <1>1 DEF Promise!Closed
<1> QED  BY <1>2 DEF Conn, Promise!Connected

-----------------------------------------------------------------------------
\* The confidence of a pair.

\* A nonempty set of confidences has a maximum.
LEMMA MaxConfidence ==
  ASSUME NEW S \in SUBSET Confidence, S # {}
  PROVE  Max(S) \in S
<1> DEFINE T == {n \in Nat : 100 - n \in S}
<1>1. PICK c \in S : TRUE
    OBVIOUS
<1>2. 100 - c \in T
    BY <1>1 DEF Confidence
<1>3. PICK n \in T : \A m \in T : ~(<<m, n>> \in OpToRel(<, Nat))
    BY <1>2, NatLessThanWellFounded, WFMin
<1>4. \A m \in T : n <= m
  <2> SUFFICES ASSUME NEW m \in T, m < n PROVE FALSE
      OBVIOUS
  <2>1. <<m, n>> \in OpToRel(<, Nat)
      BY DEF OpToRel
  <2> QED  BY <1>3, <2>1
<1>5. \A y \in S : 100 - n >= y
  <2> SUFFICES ASSUME NEW y \in S PROVE 100 - n >= y
      OBVIOUS
  <2>1. y \in 0 .. 100
      BY DEF Confidence
  <2>2. 100 - (100 - y) = y /\ 100 - y \in Nat
      BY <2>1
  <2>3. 100 - y \in T
      BY <2>2
  <2>4. n \in Nat /\ n <= 100 - y
      BY <1>4, <2>3
  <2> QED  BY <2>1, <2>4
<1> QED  BY <1>5 DEF Max

\* Boosts never push a confidence below the threshold it has reached.
LEMMA CappedSum ==
  ASSUME NEW c \in 0 .. 100, NEW x \in Nat, NEW y \in Nat, NEW m \in Nat, m <= c
  PROVE  Atmost(100, c + x + y) \in 0 .. 100 /\ Atmost(100, c + x + y) >= m
BY DEF Atmost

\* The pair's links are significant ones, so its confidence reaches the
\* threshold whatever the boosts.
LEMMA FinalConfidenceType ==
  ASSUME links \subseteq Candidate, \A l \in links : Significant(l),
         NEW p \in Linked(links), NEW boost \in Centrality
  PROVE  /\ FinalConfidence(p, boost) \in Confidence
         /\ FinalConfidence(p, boost) >= MinGroupConfidence
<1> USE CorrelationAssumption
<1> DEFINE C == {l.confidence : l \in Of(p)}
           M == {l.method : l \in Of(p)}
<1>1. Of(p) # {} /\ Of(p) \subseteq Candidate
    BY DEF Of, Linked
<1>2. C \in SUBSET Confidence /\ C # {}
    BY <1>1
<1>3. Max(C) \in C
    BY <1>2, MaxConfidence
<1>4. Max(C) \in Confidence /\ Max(C) >= MinGroupConfidence
    BY <1>2, <1>3 DEF Of, Significant
<1>5. IsFiniteSet(Of(p))
    BY <1>1, FS_Subset
<1>6. IsFiniteSet(M)
  <2> DEFINE f == [l \in Of(p) |-> l.method]
  <2>1. f \in Surjection(Of(p), M)
      BY DEF Surjection
  <2> HIDE DEF f
  <2> QED  BY <1>5, <2>1, FS_Surjection
<1>7. Cardinality(M) \in Nat /\ Cardinality(M) # 0
  <2>1. M # {}
      BY <1>1
  <2> QED  BY <1>6, <2>1, FS_CardinalityType, FS_EmptySet
<1> DEFINE k == Cardinality(M)
           m == (k - 1) * MultiSignalBoost
<1>8. m \in Nat
  <2>1. k - 1 \in Nat /\ MultiSignalBoost \in Nat
      BY <1>7 DEF Confidence
  <2> HIDE DEF k
  <2> QED  BY <2>1
<1>9. Atmost(MaxMultiSignalBoost, m) \in Nat
    BY <1>8 DEF Atmost, Confidence
<1>10. boost \in Nat /\ MinGroupConfidence \in Nat /\ MinGroupConfidence <= 100
    BY DEF Confidence
<1>11. FinalConfidence(p, boost) = Atmost(100, Max(C) + Atmost(MaxMultiSignalBoost, m) + boost)
    BY DEF FinalConfidence
<1> HIDE DEF C, m
<1> DEFINE extra == Atmost(MaxMultiSignalBoost, m)
<1>12. Max(C) \in 0 .. 100 /\ Max(C) >= MinGroupConfidence /\ extra \in Nat
    BY <1>4, <1>9 DEF Confidence
<1>13. FinalConfidence(p, boost) = Atmost(100, Max(C) + extra + boost)
    BY <1>11
<1> HIDE DEF extra
<1> HIDE CorrelationAssumption
<1> DEFINE c == Max(C)
<1>14. c \in 0 .. 100 /\ c >= MinGroupConfidence
    BY <1>12
<1>15. FinalConfidence(p, boost) = Atmost(100, c + extra + boost)
    BY <1>13
<1> HIDE DEF c
<1>16. MinGroupConfidence <= c
    BY <1>10, <1>14
<1>17. /\ Atmost(100, c + extra + boost) \in 0 .. 100
       /\ Atmost(100, c + extra + boost) >= MinGroupConfidence
    BY <1>10, <1>12, <1>14, <1>16, CappedSum
<1> QED  BY <1>15, <1>17 DEF Confidence

-----------------------------------------------------------------------------
\* The inductive invariant.

\* The links, and the pairs that are united, being united or still to do.
LinksInv ==
  /\ \A l \in links : Significant(l)
  /\ phase = "gather" => links = {} /\ todo = {} /\ united = {} /\ side = "none"
  /\ phase \in {"group", "done"} => todo = {}
  /\ side \in {"x", "y"} => phase = "link" /\ current \in Union
  /\ side \in {"none", "member"} => current = NoPair
  /\ side = "member" => phase = "group"
  /\ Linked(links) = UnitedPairs \cup todo
       \cup (IF side \in {"x", "y"} THEN {<<current.a, current.b>>} ELSE {})

\* The walk of find: everything it met is connected to where it began, and
\* what it passed is below the roots.
WalkInv ==
  /\ side # "none" =>
       /\ start \in Alert /\ cursor \in Alert
       /\ Conn(UnitedPairs, start, cursor)
       /\ \A x \in path : Conn(UnitedPairs, start, x) /\ ~IsRoot(x)
  /\ side = "x" => start = current.a
  /\ side = "y" =>
       /\ start = current.b
       /\ rx \in Alert /\ IsRoot(rx) /\ Conn(UnitedPairs, current.a, rx)

\* What groups() has filed so far, and the threats made of it.
GroupsInv ==
  /\ phase \in {"gather", "link"} => \A x \in Alert : cluster[x] = NoAlert
  /\ \A x \in Alert : cluster[x] # NoAlert =>
       IsRoot(cluster[x]) /\ Conn(UnitedPairs, x, cluster[x])
  /\ phase # "done" => threats = {}

\* A pair united below x has the confidence that x has.
Backed(x) == \E u \in united : Conn(UnitedPairs, u.a, x) /\ u.confidence = confidence[x]

\* Where the confidence of a root comes from.
ConfidenceInv ==
  /\ \A u \in united : u.confidence >= MinGroupConfidence
  /\ current \in Union => current.confidence >= MinGroupConfidence
  /\ \A x \in Alert : confidence[x] # 0 => Backed(x)
  /\ \A u \in united, x \in Alert :
       IsRoot(x) /\ Conn(UnitedPairs, u.a, x) =>
         confidence[x] >= MinGroupConfidence /\ Backed(x)

IInv ==
  /\ TypeOK
  /\ LinksInv
  /\ ForestIsPartition
  /\ WalkInv
  /\ GroupsInv
  /\ ConfidenceInv
  /\ ConfidenceIsEarned

\* The initial state.
LEMMA InitIInv ==
  Init => IInv
<1> SUFFICES ASSUME Init PROVE IInv
    OBVIOUS
<1> USE CorrelationAssumption
<1>1. TypeOK
    BY DEF Init, TypeOK, Confidence, NoPair
<1>2. UnitedPairs = {} /\ Linked(links) = {}
    BY DEF Init, UnitedPairs, Linked
<1>3. ForestIsPartition
    BY <1>2, ConnRefl, ConnEmpty DEF Init, ForestIsPartition, IsRoot, Conn
<1>4. LinksInv /\ WalkInv /\ GroupsInv
    BY <1>2 DEF Init, LinksInv, WalkInv, GroupsInv
<1>5. ConfidenceInv /\ ConfidenceIsEarned
    BY DEF Init, ConfidenceInv, ConfidenceIsEarned, NoPair, Union
<1> QED  BY <1>1, <1>3, <1>4, <1>5 DEF IInv

\* A stuttering step changes nothing.
LEMMA StutterInv ==
  ASSUME IInv, UNCHANGED vars
  PROVE  IInv'
BY DEF IInv, vars, findVars, forestVars, TypeOK, LinksInv, ForestIsPartition, WalkInv,
       GroupsInv, ConfidenceInv, ConfidenceIsEarned, Backed, IsRoot, UnitedPairs

\* What the lemmas below need to know of types.
LEMMA PairTypes ==
  ASSUME TypeOK
  PROVE  /\ UnitedPairs \subseteq Alert \X Alert
         /\ Pair \subseteq Alert \X Alert
         /\ NoPair \notin Union
         /\ Linked(links) \subseteq Pair
BY CorrelationAssumption DEF TypeOK, UnitedPairs, Union, Pair, NoPair, Linked

\* Two roots connected by united pairs are the same, and parents are connected.
LEMMA ForestFacts ==
  ASSUME ForestIsPartition, NEW x \in Alert
  PROVE  /\ Conn(UnitedPairs, x, parent[x])
         /\ \A y \in Alert : IsRoot(x) /\ IsRoot(y) /\ Conn(UnitedPairs, x, y) => x = y
BY DEF ForestIsPartition, Conn

\* The correlators' links.
LEMMA GatherInv ==
  ASSUME IInv, Gather
  PROVE  IInv'
<1> USE DEF IInv, Gather, findVars, forestVars
<1>1. TypeOK'
  <2>1. links' \subseteq Candidate /\ todo' \subseteq Pair
      BY DEF Linked, Pair
  <2> QED  BY <2>1 DEF TypeOK
<1>2. UnitedPairs' = UnitedPairs /\ UnitedPairs = {}
    BY DEF LinksInv, UnitedPairs
<1>3. LinksInv'
    BY <1>2 DEF LinksInv
<1>4. ForestIsPartition' /\ ConfidenceInv' /\ ConfidenceIsEarned'
    BY <1>2 DEF ForestIsPartition, ConfidenceInv, ConfidenceIsEarned, Backed, IsRoot
<1>5. WalkInv' /\ GroupsInv'
    BY <1>2 DEF WalkInv, GroupsInv, LinksInv, IsRoot
<1> QED  BY <1>1, <1>3, <1>4, <1>5

\* The next pair: its confidence reaches the threshold.
LEMMA TakePairInv ==
  ASSUME IInv, TakePair
  PROVE  IInv'
<1> USE DEF IInv, findVars, forestVars
<1>1. PICK p \in todo, boost \in Centrality :
        /\ todo' = todo \ {p}
        /\ current' = [a |-> p[1], b |-> p[2], confidence |-> FinalConfidence(p, boost)]
        /\ Find("x", p[1])
    BY DEF TakePair
<1>2. p \in Linked(links) /\ p = <<p[1], p[2]>> /\ p[1] \in Alert /\ p[2] \in Alert
    BY PairTypes DEF LinksInv, TypeOK
<1>3. /\ FinalConfidence(p, boost) \in Confidence
      /\ FinalConfidence(p, boost) >= MinGroupConfidence
    BY <1>2, FinalConfidenceType DEF LinksInv, TypeOK
<1>4. current' \in Union /\ current'.confidence >= MinGroupConfidence
    BY <1>1, <1>2, <1>3 DEF Union
<1>5. UnitedPairs' = UnitedPairs /\ UNCHANGED <<phase, links, rx, parent, rank, confidence,
        cluster, threats, united>>
    BY DEF TakePair, UnitedPairs
<1>6. /\ side' = "x" /\ start' = p[1] /\ cursor' = p[1] /\ path' = {}
      /\ phase = "link" /\ side = "none"
    BY <1>1 DEF Find, TakePair
<1>7. TypeOK'
    BY <1>1, <1>2, <1>4, <1>5, <1>6 DEF TypeOK
<1>8. LinksInv'
  <2>1. Linked(links) = UnitedPairs \cup todo
      BY <1>6 DEF LinksInv
  <2>2. <<current'.a, current'.b>> = p
      BY <1>1, <1>2
  <2>3. Linked(links)' = UnitedPairs' \cup todo' \cup {<<current'.a, current'.b>>}
      BY <2>1, <2>2, <1>1, <1>5 DEF Linked
  <2> QED  BY <2>3, <1>4, <1>5, <1>6 DEF LinksInv
<1>9. WalkInv'
  <2>1. Conn(UnitedPairs, p[1], p[1])
      BY <1>2, ConnRefl
  <2> QED  BY <2>1, <1>1, <1>2, <1>5, <1>6 DEF WalkInv
<1>10. ForestIsPartition' /\ GroupsInv' /\ ConfidenceIsEarned'
    BY <1>5 DEF ForestIsPartition, GroupsInv, ConfidenceIsEarned, IsRoot
<1>11. ConfidenceInv'
    BY <1>4, <1>5 DEF ConfidenceInv, Backed, IsRoot
<1> QED  BY <1>7, <1>8, <1>9, <1>10, <1>11

\* One step up the tree stays in the component.
LEMMA ClimbInv ==
  ASSUME IInv, Climb
  PROVE  IInv'
<1> USE DEF IInv, forestVars
<1>1. /\ UnitedPairs' = UnitedPairs
      /\ UNCHANGED <<phase, links, todo, current, side, start, rx, parent, rank, confidence,
                     cluster, threats, united>>
    BY DEF Climb, UnitedPairs
<1>2. /\ side # "none" /\ ~IsRoot(cursor) /\ cursor \in Alert /\ start \in Alert
      /\ cursor' = parent[cursor] /\ path' = path \cup {cursor}
      /\ Conn(UnitedPairs, start, cursor)
      /\ \A x \in path : Conn(UnitedPairs, start, x) /\ ~IsRoot(x)
    BY DEF Climb, WalkInv
<1>3. parent[cursor] \in Alert
    BY <1>2 DEF TypeOK
<1>4. TypeOK'
    BY <1>1, <1>2, <1>3 DEF TypeOK
<1>5. Conn(UnitedPairs, start, parent[cursor])
    BY <1>2, <1>3, ForestFacts, ConnTrans
<1>6. WalkInv'
    BY <1>1, <1>2, <1>3, <1>5 DEF WalkInv, IsRoot
<1>7. LinksInv' /\ ForestIsPartition' /\ GroupsInv' /\ ConfidenceIsEarned' /\ ConfidenceInv'
    BY <1>1 DEF LinksInv, ForestIsPartition, GroupsInv, ConfidenceIsEarned, ConfidenceInv,
                Backed, IsRoot, Linked
<1> QED  BY <1>4, <1>6, <1>7

\* Path compression moves no alert to another component and makes no root.
LEMMA CompressedFacts ==
  ASSUME IInv, side # "none", IsRoot(cursor)
  PROVE  /\ Compressed \in [Alert -> Alert]
         /\ \A x \in Alert : Compressed[x] = x <=> IsRoot(x)
         /\ \A x \in Alert : Conn(UnitedPairs, x, Compressed[x])
<1> USE DEF IInv
<1>1. /\ cursor \in Alert /\ start \in Alert
      /\ Conn(UnitedPairs, start, cursor)
      /\ \A x \in path : Conn(UnitedPairs, start, x) /\ ~IsRoot(x)
    BY DEF WalkInv
<1>2. Compressed \in [Alert -> Alert]
    BY <1>1 DEF Compressed, TypeOK
<1>3. ASSUME NEW x \in Alert
      PROVE  Compressed[x] = x <=> IsRoot(x)
    BY <1>1 DEF Compressed, IsRoot
<1>4. ASSUME NEW x \in Alert
      PROVE  Conn(UnitedPairs, x, Compressed[x])
  <2>1. CASE x \in path
    <3>1. Conn(UnitedPairs, x, start)
        BY <2>1, <1>1, PairTypes, ConnSym
    <3>2. Conn(UnitedPairs, x, cursor)
        BY <3>1, <1>1, ConnTrans
    <3> QED  BY <3>2, <2>1 DEF Compressed
  <2>2. CASE x \notin path
      BY <2>2, ForestFacts DEF Compressed
  <2> QED  BY <2>1, <2>2
<1> QED  BY <1>2, <1>3, <1>4

\* find(x) returns the root of x's component.
LEMMA FoundXInv ==
  ASSUME IInv, FoundX
  PROVE  IInv'
<1> USE DEF IInv
<1>1. /\ UnitedPairs' = UnitedPairs
      /\ UNCHANGED <<phase, links, todo, current, rank, confidence, cluster, threats, united>>
      /\ side = "x" /\ IsRoot(cursor) /\ parent' = Compressed /\ rx' = cursor
      /\ side' = "y" /\ start' = current.b /\ cursor' = current.b /\ path' = {}
    BY DEF FoundX, Find, UnitedPairs
<1>2. /\ phase = "link" /\ current \in Union /\ current.a \in Alert /\ current.b \in Alert
      /\ cursor \in Alert /\ Conn(UnitedPairs, current.a, cursor)
    BY <1>1 DEF LinksInv, WalkInv, Union
<1>3. /\ parent' \in [Alert -> Alert]
      /\ \A x \in Alert : IsRoot(x)' <=> IsRoot(x)
      /\ \A x \in Alert : Conn(UnitedPairs, x, parent'[x])
    BY <1>1, CompressedFacts DEF IsRoot
<1>4. TypeOK'
    BY <1>1, <1>2, <1>3 DEF TypeOK
<1>5. LinksInv'
    BY <1>1, <1>2 DEF LinksInv, Linked
<1>6. ForestIsPartition'
    BY <1>1, <1>3, ForestFacts DEF ForestIsPartition, Conn
<1>7. WalkInv'
  <2>1. Conn(UnitedPairs, current.b, current.b)
      BY <1>2, ConnRefl
  <2> QED  BY <2>1, <1>1, <1>2, <1>3 DEF WalkInv
<1>8. GroupsInv' /\ ConfidenceIsEarned'
    BY <1>1, <1>2 DEF GroupsInv, ConfidenceIsEarned
<1>9. ConfidenceInv'
  <2>1. \A x \in Alert : Backed(x)' <=> Backed(x)
      BY <1>1 DEF Backed
  <2> QED  BY <2>1, <1>1, <1>3 DEF ConfidenceInv
<1> QED  BY <1>4, <1>5, <1>6, <1>7, <1>8, <1>9

\* union: the two components become one, with one root, and nothing else
\* changes.
LEMMA FoundYInv ==
  ASSUME IInv, FoundY
  PROVE  IInv'
<1> USE DEF IInv
<1> DEFINE U == UnitedPairs
           a == current.a
           b == current.b
           V == U \cup {<<a, b>>}
           upper == Upper(rx, cursor)
           lower == Lower(rx, cursor)
<1>1. /\ side = "y" /\ IsRoot(cursor) /\ united' = united \cup {current}
      /\ UNCHANGED <<phase, links, todo, cluster, threats>>
      /\ confidence' = [confidence EXCEPT ![upper] = Atleast(@, current.confidence)]
      /\ current' = NoPair /\ side' = "none" /\ start' = NoAlert
      /\ cursor' = NoAlert /\ path' = {} /\ rx' = NoAlert
    BY DEF FoundY
<1>2. /\ rx = cursor => parent' = Compressed /\ UNCHANGED rank
      /\ rx # cursor =>
           /\ parent' = [Compressed EXCEPT ![lower] = upper]
           /\ rank' = [rank EXCEPT ![upper] = IF @ = rank[lower] THEN @ + 1 ELSE @]
    BY DEF FoundY
<1>3. /\ phase = "link" /\ current \in Union /\ a \in Alert /\ b \in Alert
      /\ current.confidence \in Confidence
      /\ current.confidence >= MinGroupConfidence
      /\ cursor \in Alert /\ rx \in Alert /\ IsRoot(rx)
      /\ Conn(U, a, rx) /\ Conn(U, b, cursor)
    BY <1>1 DEF LinksInv, WalkInv, Union, ConfidenceInv
<1>4. /\ upper \in Alert /\ lower \in Alert
      /\ {upper, lower} = {rx, cursor}
    BY <1>3 DEF Upper, Lower
<1>5. /\ Compressed \in [Alert -> Alert]
      /\ \A x \in Alert : Compressed[x] = x <=> IsRoot(x)
      /\ \A x \in Alert : Conn(U, x, Compressed[x])
    BY <1>1, CompressedFacts
<1>6. U \subseteq Alert \X Alert /\ V \subseteq Alert \X Alert /\ U \subseteq V
    BY <1>3, PairTypes
<1>7. UnitedPairs' = V
    BY <1>1, <1>3 DEF UnitedPairs
<1> HIDE DEF U, V, upper, lower, a, b
<1>8. Conn(V, rx, cursor) /\ Conn(V, cursor, rx)
  <2>1. Conn(V, a, rx) /\ Conn(V, b, cursor)
      BY <1>3, <1>6, ConnMono
  <2>2. Conn(V, a, b)
      BY <1>3, ConnEdge DEF V
  <2>3. Conn(V, rx, a)
      BY <2>1, <1>3, <1>6, ConnSym
  <2>4. Conn(V, rx, b)
      BY <2>2, <2>3, <1>3, ConnTrans
  <2>5. Conn(V, rx, cursor)
      BY <2>4, <2>1, <1>3, ConnTrans
  <2> QED  BY <2>5, <1>3, <1>6, ConnSym
<1>9. Conn(V, a, rx) /\ Conn(V, a, cursor)
  <2>1. Conn(V, a, rx)
      BY <1>3, <1>6, ConnMono
  <2> QED  BY <2>1, <1>3, <1>8, ConnTrans
<1>10. Conn(V, lower, upper) /\ Conn(V, a, upper)
  <2>1. Conn(V, rx, rx) /\ Conn(V, cursor, cursor)
      BY <1>3, ConnRefl
  <2> QED  BY <2>1, <1>4, <1>8, <1>9
<1>11. parent' \in [Alert -> Alert]
  <2>1. CASE rx = cursor
      BY <2>1, <1>2, <1>5
  <2>2. CASE rx # cursor
      BY <2>2, <1>2, <1>4, <1>5
  <2> QED  BY <2>1, <2>2
<1>12. ASSUME NEW x \in Alert
       PROVE  IsRoot(x)' <=> IsRoot(x) /\ (rx # cursor => x # lower)
  <2>1. CASE rx = cursor
      BY <2>1, <1>2, <1>5 DEF IsRoot
  <2>2. CASE rx # cursor
    <3>1. upper # lower
        BY <2>2, <1>4
    <3>2. parent'[x] = IF x = lower THEN upper ELSE Compressed[x]
        BY <2>2, <1>2, <1>5
    <3> QED  BY <2>2, <3>1, <3>2, <1>5 DEF IsRoot
  <2> QED  BY <2>1, <2>2
<1>13. ASSUME NEW x \in Alert
       PROVE  Conn(V, x, parent'[x])
  <2>1. Conn(V, x, Compressed[x])
      BY <1>5, <1>6, ConnMono
  <2>2. CASE rx = cursor
      BY <2>1, <2>2, <1>2
  <2>3. CASE rx # cursor
    <3>1. parent'[x] = IF x = lower THEN upper ELSE Compressed[x]
        BY <2>3, <1>2, <1>5
    <3> QED  BY <2>1, <3>1, <1>10
  <2> QED  BY <2>2, <2>3
\* A root that x's component had before, apart from the two united ones.
<1>14. ASSUME NEW x \in Alert, NEW w \in Alert, IsRoot(x)', x # upper, Conn(V, w, x)
       PROVE  Conn(U, w, x) /\ x # rx /\ x # cursor
  <2>1. IsRoot(x) /\ x # rx /\ x # cursor
      BY <1>4, <1>12, <1>14
  <2>2. ~Conn(U, a, x)
    <3> SUFFICES ASSUME Conn(U, a, x) PROVE FALSE
        OBVIOUS
    <3>1. Conn(U, rx, a)
        BY <1>3, <1>6, ConnSym
    <3>2. Conn(U, rx, x)
        BY <3>1, <1>3, ConnTrans
    <3> QED  BY <3>2, <2>1, <1>3, ForestFacts DEF U
  <2>3. ~Conn(U, b, x)
    <3> SUFFICES ASSUME Conn(U, b, x) PROVE FALSE
        OBVIOUS
    <3>1. Conn(U, cursor, b)
        BY <1>3, <1>6, ConnSym
    <3>2. Conn(U, cursor, x)
        BY <3>1, <1>3, ConnTrans
    <3> QED  BY <3>2, <2>1, <1>1, <1>3, ForestFacts DEF U
  <2>4. \/ Conn(U, w, x)
        \/ Conn(U, w, a) /\ Conn(U, b, x)
        \/ Conn(U, w, b) /\ Conn(U, a, x)
      BY <1>3, <1>6, <1>14, ConnAdd DEF V
  <2> QED  BY <2>1, <2>2, <2>3, <2>4
<1>15. ForestIsPartition'
  <2>1. ASSUME NEW x \in Alert, NEW y \in Alert, IsRoot(x)', IsRoot(y)', Conn(V, x, y)
        PROVE  x = y
    <3>1. CASE y # upper
      <4>1. Conn(U, x, y) /\ IsRoot(x) /\ IsRoot(y)
          BY <2>1, <3>1, <1>12, <1>14
      <4> QED  BY <4>1, ForestFacts DEF U
    <3>2. CASE y = upper
      <4>1. Conn(V, y, x)
          BY <2>1, <1>6, ConnSym
      <4>2. SUFFICES ASSUME x # upper PROVE FALSE
          BY <3>2
      <4>3. Conn(U, y, x) /\ x # y
          BY <2>1, <3>2, <4>1, <4>2, <1>14
      <4>4. IsRoot(x) /\ IsRoot(y)
          BY <2>1, <1>12
      <4> QED  BY <4>3, <4>4, ForestFacts DEF U
    <3> QED  BY <3>1, <3>2
  <2> QED  BY <2>1, <1>7, <1>13 DEF ForestIsPartition, Conn
<1>16. confidence' \in [Alert -> Confidence] /\ confidence \in [Alert -> Confidence]
    BY <1>1, <1>3, <1>4 DEF TypeOK, Atleast
<1>17. TypeOK'
  <2>1. rank' \in [Alert -> Nat]
    <3>1. CASE rx = cursor
        BY <3>1, <1>2 DEF TypeOK
    <3>2. CASE rx # cursor
        BY <3>2, <1>2, <1>4 DEF TypeOK
    <3> QED  BY <3>1, <3>2
  <2> QED  BY <2>1, <1>1, <1>3, <1>11, <1>16 DEF TypeOK
<1>18. LinksInv'
  <2>1. Linked(links)' = Linked(links)
      BY <1>1 DEF Linked
  <2>2. Linked(links) = V \cup todo
      BY <1>1 DEF LinksInv, V, U, a, b
  <2> QED  BY <2>1, <2>2, <1>1, <1>3, <1>7 DEF LinksInv
<1>19. WalkInv'
    BY <1>1 DEF WalkInv
<1>20. GroupsInv' /\ ConfidenceIsEarned'
    BY <1>1, <1>3 DEF GroupsInv, ConfidenceIsEarned
<1>21. ASSUME NEW x \in Alert, x # upper
       PROVE  confidence'[x] = confidence[x] /\ (Backed(x) => Backed(x)')
  <2>1. confidence'[x] = confidence[x]
      BY <1>1, <1>16, <1>21
  <2>2. ASSUME Backed(x) PROVE Backed(x)'
    <3>1. PICK u \in united : Conn(U, u.a, x) /\ u.confidence = confidence[x]
        BY <2>2 DEF Backed, U
    <3>2. u.a \in Alert /\ u \in united'
        BY <1>1 DEF TypeOK, Union
    <3>3. Conn(V, u.a, x)
        BY <3>1, <3>2, <1>6, ConnMono
    <3> QED  BY <3>1, <3>2, <3>3, <2>1, <1>7 DEF Backed
  <2> QED  BY <2>1, <2>2
<1>22. ASSUME NEW x \in Alert, x = upper
       PROVE  confidence'[x] >= MinGroupConfidence /\ Backed(x)'
  <2>1. /\ confidence[x] \in 0 .. 100 /\ current.confidence \in 0 .. 100
        /\ MinGroupConfidence \in 0 .. 100
      BY <1>3, <1>16, CorrelationAssumption DEF Confidence
  <2>2. confidence'[x] = IF confidence[x] > current.confidence
                               THEN confidence[x] ELSE current.confidence
      BY <1>1, <1>16, <1>22 DEF Atleast
  <2>3. confidence'[x] >= MinGroupConfidence
      BY <2>1, <2>2, <1>3
  <2>4. CASE confidence[x] > current.confidence
    <3>1. confidence[x] # 0 /\ confidence'[x] = confidence[x]
        BY <2>1, <2>2, <2>4
    <3>2. PICK u \in united : Conn(U, u.a, x) /\ u.confidence = confidence[x]
        BY <3>1 DEF ConfidenceInv, Backed, U
    <3>3. u.a \in Alert /\ u \in united'
        BY <1>1 DEF TypeOK, Union
    <3>4. Conn(V, u.a, x)
        BY <3>2, <3>3, <1>6, ConnMono
    <3> QED  BY <2>3, <3>1, <3>2, <3>3, <3>4, <1>7 DEF Backed
  <2>5. CASE ~(confidence[x] > current.confidence)
    <3>1. confidence'[x] = current.confidence /\ current \in united'
        BY <2>2, <2>5, <1>1
    <3> QED  BY <2>3, <3>1, <1>7, <1>10, <1>22 DEF Backed, a
  <2> QED  BY <2>4, <2>5
<1>23. ConfidenceInv'
  <2>1. \A u \in united' : u.confidence >= MinGroupConfidence
      BY <1>1, <1>3 DEF ConfidenceInv
  <2>2. current' \notin Union
      BY <1>1, PairTypes
  <2>3. ASSUME NEW x \in Alert, confidence'[x] # 0 PROVE Backed(x)'
    <3>1. CASE x = upper
        BY <3>1, <1>22
    <3>2. CASE x # upper
      <4>1. confidence[x] # 0
          BY <2>3, <3>2, <1>21
      <4>2. Backed(x)
          BY <4>1 DEF ConfidenceInv
      <4> QED  BY <4>2, <3>2, <1>21
    <3> QED  BY <3>1, <3>2
  <2>4. ASSUME NEW u \in united', NEW x \in Alert, IsRoot(x)', Conn(V, u.a, x)
        PROVE  confidence'[x] >= MinGroupConfidence /\ Backed(x)'
    <3>1. CASE x = upper
        BY <3>1, <1>22
    <3>2. CASE x # upper
      <4>1. u \in Union
          BY <1>1, <1>3 DEF TypeOK
      <4>2. u.a \in Alert /\ IsRoot(x)
          BY <4>1, <2>4, <1>12 DEF Union
      <4>3. Conn(U, u.a, x) /\ x # rx
          BY <2>4, <3>2, <4>2, <1>14
      <4>4. u # current
        <5> SUFFICES ASSUME u = current PROVE FALSE
            OBVIOUS
        <5>1. Conn(U, a, x)
            BY <4>3 DEF a
        <5>2. Conn(U, rx, x)
            BY <5>1, <1>3, <1>6, ConnSym, ConnTrans
        <5> QED  BY <5>2, <4>2, <4>3, <1>3, ForestFacts DEF U
      <4>5. confidence[x] >= MinGroupConfidence /\ Backed(x)
          BY <4>2, <4>3, <4>4, <1>1 DEF ConfidenceInv, U
      <4> QED  BY <4>5, <3>2, <1>21
    <3> QED  BY <3>1, <3>2
  <2> QED  BY <2>1, <2>2, <2>3, <2>4, <1>7 DEF ConfidenceInv
<1> QED  BY <1>15, <1>17, <1>18, <1>19, <1>20, <1>23

\* All pairs are united.
LEMMA StartGroupsInv ==
  ASSUME IInv, StartGroups
  PROVE  IInv'
BY DEF IInv, StartGroups, findVars, forestVars, TypeOK, LinksInv, Linked, ForestIsPartition,
       WalkInv, GroupsInv, ConfidenceInv, ConfidenceIsEarned, Backed, IsRoot, UnitedPairs

\* groups() calls find.
LEMMA TakeMemberInv ==
  ASSUME IInv, TakeMember
  PROVE  IInv'
<1> USE DEF IInv, forestVars
<1>1. PICK x \in Alert : cluster[x] = NoAlert /\ Find("member", x)
    BY DEF TakeMember
<1>2. /\ phase = "group" /\ side = "none" /\ UnitedPairs' = UnitedPairs
      /\ UNCHANGED <<phase, links, todo, current, rx, parent, rank, confidence, cluster,
                     threats, united>>
      /\ side' = "member" /\ start' = x /\ cursor' = x /\ path' = {}
    BY <1>1 DEF TakeMember, Find, UnitedPairs
<1>3. TypeOK' /\ LinksInv'
    BY <1>2 DEF TypeOK, LinksInv, Linked
<1>4. WalkInv'
    BY <1>2, ConnRefl DEF WalkInv
<1>5. ForestIsPartition' /\ GroupsInv' /\ ConfidenceInv' /\ ConfidenceIsEarned'
    BY <1>2 DEF ForestIsPartition, GroupsInv, ConfidenceInv, ConfidenceIsEarned, Backed, IsRoot
<1> QED  BY <1>3, <1>4, <1>5

\* groups() files an alert under the root of its component.
LEMMA FoundMemberInv ==
  ASSUME IInv, FoundMember
  PROVE  IInv'
<1> USE DEF IInv
<1>1. /\ side = "member" /\ IsRoot(cursor) /\ UnitedPairs' = UnitedPairs
      /\ UNCHANGED <<phase, links, todo, current, rx, rank, confidence, threats, united>>
      /\ parent' = Compressed
      /\ cluster' = [cluster EXCEPT ![start] = cursor]
      /\ side' = "none" /\ start' = NoAlert /\ cursor' = NoAlert /\ path' = {}
    BY DEF FoundMember, UnitedPairs
<1>2. /\ phase = "group" /\ start \in Alert /\ cursor \in Alert
      /\ Conn(UnitedPairs, start, cursor)
    BY <1>1 DEF LinksInv, WalkInv
<1>3. /\ parent' \in [Alert -> Alert]
      /\ \A x \in Alert : IsRoot(x)' <=> IsRoot(x)
      /\ \A x \in Alert : Conn(UnitedPairs, x, parent'[x])
    BY <1>1, CompressedFacts DEF IsRoot
<1>4. TypeOK'
    BY <1>1, <1>2, <1>3 DEF TypeOK
<1>5. LinksInv' /\ WalkInv'
    BY <1>1, <1>2 DEF LinksInv, WalkInv, Linked
<1>6. ForestIsPartition'
    BY <1>1, <1>3, ForestFacts DEF ForestIsPartition, Conn
<1>7. GroupsInv'
  <2>1. ASSUME NEW x \in Alert, NEW y \in Alert, cluster'[x] = y
        PROVE  parent'[y] = y /\ Conn(UnitedPairs, x, y)
    <3>1. CASE x = start
      <4>1. y = cursor
          BY <2>1, <3>1, <1>1, <1>2 DEF TypeOK
      <4> QED  BY <3>1, <4>1, <1>1, <1>2, <1>3 DEF IsRoot
    <3>2. CASE x # start
      <4>1. cluster[x] = y
          BY <2>1, <3>2, <1>1 DEF TypeOK
      <4>2. y # NoAlert
          BY CorrelationAssumption
      <4>3. IsRoot(y) /\ Conn(UnitedPairs, x, y)
          BY <4>1, <4>2 DEF GroupsInv
      <4> QED  BY <4>3, <1>3 DEF IsRoot
    <3> QED  BY <3>1, <3>2
  <2>2. cluster' \in [Alert -> Alert \cup {NoAlert}]
      BY <1>4 DEF TypeOK
  <2>3. ASSUME NEW x \in Alert, cluster'[x] # NoAlert
        PROVE  parent'[cluster'[x]] = cluster'[x] /\ Conn(UnitedPairs, x, cluster'[x])
      BY <2>1, <2>2, <2>3
  <2> QED  BY <2>3, <1>1, <1>2 DEF GroupsInv, IsRoot
<1>8. ConfidenceIsEarned'
    BY <1>1 DEF ConfidenceIsEarned
<1>9. ConfidenceInv'
  <2>1. \A x \in Alert : Backed(x)' <=> Backed(x)
      BY <1>1 DEF Backed
  <2> QED  BY <2>1, <1>1, <1>3 DEF ConfidenceInv
<1> QED  BY <1>4, <1>5, <1>6, <1>7, <1>8, <1>9

\* Once every alert is filed, the members of a root are its component.
LEMMA MembersAreComponent ==
  ASSUME IInv, \A x \in Alert : cluster[x] # NoAlert, NEW r \in Alert, IsRoot(r)
  PROVE  /\ Members(r) = Promise!Component(UnitedPairs, r)
         /\ r \in Members(r)
<1> USE DEF IInv
<1>1. ASSUME NEW x \in Alert
      PROVE  cluster[x] \in Alert /\ IsRoot(cluster[x]) /\ Conn(UnitedPairs, x, cluster[x])
    BY DEF GroupsInv, TypeOK
<1>2. ASSUME NEW x \in Alert
      PROVE  cluster[x] = r <=> Conn(UnitedPairs, r, x)
  <2>1. ASSUME cluster[x] = r PROVE Conn(UnitedPairs, r, x)
      BY <2>1, <1>1, PairTypes, ConnSym
  <2>2. ASSUME Conn(UnitedPairs, r, x) PROVE cluster[x] = r
    <3>1. Conn(UnitedPairs, r, cluster[x])
        BY <2>2, <1>1, ConnTrans
    <3> QED  BY <3>1, <1>1, ForestFacts
  <2> QED  BY <2>1, <2>2
<1>3. Conn(UnitedPairs, r, r)
    BY ConnRefl
<1> QED  BY <1>2, <1>3 DEF Members, Promise!Component, Conn

\* The threats: a group of several alerts has a united pair, and its root the
\* confidence of one.
LEMMA BuildThreatsInv ==
  ASSUME IInv, BuildThreats
  PROVE  IInv'
<1> USE DEF IInv
<1> DEFINE Roots == {cluster[x] : x \in Alert}
<1>1. /\ phase = "group" /\ side = "none" /\ phase' = "done"
      /\ \A x \in Alert : cluster[x] # NoAlert
      /\ threats' = {[members |-> Members(r), confidence |-> ClusterConfidence(r)] : r \in Roots}
      /\ UnitedPairs' = UnitedPairs
      /\ UNCHANGED <<links, todo, current, side, start, cursor, path, rx, parent, rank,
                     confidence, cluster, united>>
    BY DEF BuildThreats, findVars, forestVars, UnitedPairs
<1>2. ASSUME NEW r \in Roots
      PROVE  r \in Alert /\ IsRoot(r) /\ Members(r) \in SUBSET Alert
             /\ ClusterConfidence(r) \in Confidence
  <2>1. r \in Alert /\ IsRoot(r)
      BY <1>1 DEF GroupsInv, TypeOK
  <2> QED  BY <2>1, CorrelationAssumption DEF Members, ClusterConfidence, TypeOK
<1>3. TypeOK'
  <2>1. threats' \subseteq [members : SUBSET Alert, confidence : Confidence]
      BY <1>1, <1>2
  <2> QED  BY <2>1, <1>1 DEF TypeOK
<1>4. LinksInv' /\ WalkInv' /\ ForestIsPartition' /\ GroupsInv' /\ ConfidenceInv'
    BY <1>1 DEF LinksInv, Linked, WalkInv, ForestIsPartition, GroupsInv, ConfidenceInv, Backed,
                IsRoot
<1>5. ASSUME NEW r \in Roots, Cardinality(Members(r)) # 1
      PROVE  /\ confidence[r] >= MinGroupConfidence
             /\ \E u \in united : u.a \in Members(r) /\ u.confidence = confidence[r]
  <2>1. r \in Alert /\ IsRoot(r) /\ r \in Members(r) /\ Members(r) \subseteq Alert
        /\ Members(r) = Promise!Component(UnitedPairs, r)
      BY <1>1, <1>2, MembersAreComponent
  <2>2. Members(r) # {r}
      BY <1>5, FS_Singleton
  <2>3. PICK x \in Alert : x # r /\ Conn(UnitedPairs, r, x)
      BY <2>1, <2>2 DEF Promise!Component, Conn
  <2>4. PICK e \in UnitedPairs : Conn(UnitedPairs, e[1], r)
      BY <2>1, <2>3, PairTypes, ConnHasEdge
  <2>5. PICK v \in united : Conn(UnitedPairs, v.a, r)
      BY <2>4 DEF UnitedPairs
  <2>6. confidence[r] >= MinGroupConfidence /\ Backed(r)
      BY <2>1, <2>5 DEF ConfidenceInv
  <2>7. PICK u \in united : Conn(UnitedPairs, u.a, r) /\ u.confidence = confidence[r]
      BY <2>6 DEF Backed
  <2>8. u.a \in Alert
      BY DEF TypeOK, Union
  <2>9. Conn(UnitedPairs, r, u.a)
      BY <2>1, <2>7, <2>8, PairTypes, ConnSym
  <2> QED  BY <2>1, <2>6, <2>7, <2>8, <2>9 DEF Promise!Component, Conn
<1>6. ConfidenceIsEarned'
  <2> SUFFICES ASSUME NEW r \in Roots
               PROVE  IF Cardinality(Members(r)) = 1
                        THEN ClusterConfidence(r) = SingletonConfidence
                        ELSE /\ ClusterConfidence(r) >= MinGroupConfidence
                             /\ \E u \in united : /\ u.a \in Members(r)
                                                  /\ u.confidence = ClusterConfidence(r)
      BY <1>1 DEF ConfidenceIsEarned
  <2> QED  BY <1>5 DEF ClusterConfidence
<1> QED  BY <1>3, <1>4, <1>6

\* Every step preserves the invariant.
LEMMA NextIInv ==
  IInv /\ [Next]_vars => IInv'
<1> SUFFICES ASSUME IInv, [Next]_vars PROVE IInv'
    OBVIOUS
<1> QED
  BY GatherInv, TakePairInv, ClimbInv, FoundXInv, FoundYInv, StartGroupsInv, TakeMemberInv,
     FoundMemberInv, BuildThreatsInv, StutterInv DEF Next, Step, Returned

-----------------------------------------------------------------------------
\* The theorems.

\* The inductive invariant holds in every reachable state.
THEOREM CorrelationInvariance == Spec => []IInv
<1> QED  BY InitIInv, NextIInv, PTL DEF Spec

\* The variables of correlate and its union-find have their types; confidences
\* stay between 0 and 1.
THEOREM CorrelationTypes == Spec => []TypeOK
<1>1. IInv => TypeOK
    BY DEF IInv
<1> QED  BY <1>1, CorrelationInvariance, PTL

\* The union-find of every batch has one root for each component of the pairs
\* united so far, whatever their order.
THEOREM UnionFindIsPartition == Spec => []ForestIsPartition
<1>1. IInv => ForestIsPartition
    BY DEF IInv
<1> QED  BY <1>1, CorrelationInvariance, PTL

\* A group's confidence is that of one of its pairs and reaches the threshold.
THEOREM ConfidenceComesFromAPair == Spec => []ConfidenceIsEarned
<1>1. IInv => ConfidenceIsEarned
    BY DEF IInv
<1> QED  BY <1>1, CorrelationInvariance, PTL

\* The members of the threats are the components of the significant links.
LEMMA ThreatsAreComponents ==
  ASSUME IInv, BuildThreats
  PROVE  {t.members : t \in threats'} = Promise!Components(Linked(links))
<1> USE DEF IInv
<1>1. /\ \A x \in Alert : cluster[x] # NoAlert
      /\ threats' = {[members |-> Members(r), confidence |-> ClusterConfidence(r)] :
                       r \in {cluster[x] : x \in Alert}}
      /\ Linked(links) = UnitedPairs
    BY DEF BuildThreats, LinksInv
<1>2. {t.members : t \in threats'} = {Members(cluster[x]) : x \in Alert}
  <2>1. ASSUME NEW t \in threats' PROVE \E x \in Alert : t.members = Members(cluster[x])
      BY <1>1
  <2>2. ASSUME NEW x \in Alert PROVE \E t \in threats' : t.members = Members(cluster[x])
    <3> DEFINE r == cluster[x]
               t == [members |-> Members(r), confidence |-> ClusterConfidence(r)]
    <3>1. t \in threats'
        BY <1>1
    <3>2. t.members = Members(cluster[x])
        OBVIOUS
    <3> QED  BY <3>1, <3>2
  <2> QED  BY <2>1, <2>2
<1>3. ASSUME NEW x \in Alert
      PROVE  Members(cluster[x]) = Promise!Component(UnitedPairs, x)
  <2>1. cluster[x] \in Alert /\ IsRoot(cluster[x]) /\ Conn(UnitedPairs, x, cluster[x])
      BY <1>1 DEF GroupsInv, TypeOK
  <2>2. Conn(UnitedPairs, cluster[x], x)
      BY <2>1, PairTypes, ConnSym
  <2>3. \A y \in Alert : Conn(UnitedPairs, x, y) <=> Conn(UnitedPairs, cluster[x], y)
      BY <2>1, <2>2, ConnTrans
  <2>4. Members(cluster[x]) = Promise!Component(UnitedPairs, cluster[x])
      BY <2>1, <1>1, MembersAreComponent
  <2> QED  BY <2>3, <2>4 DEF Promise!Component, Conn
<1> QED  BY <1>1, <1>2, <1>3 DEF Promise!Components

\* Every step of correlate is one of Clustering or changes nothing it shows.
LEMMA NextReports ==
  IInv /\ [Next]_vars => [Promise!Next]_<<Linked(links), {t.members : t \in threats}>>
<1> SUFFICES ASSUME IInv, [Next]_vars
             PROVE  \/ Promise!Next
                    \/ UNCHANGED <<Linked(links), {t.members : t \in threats}>>
    OBVIOUS
<1>1. CASE Gather
  <2>1. threats = {} /\ threats' = {} /\ Linked(links)' \in SUBSET Pair
      BY <1>1 DEF Gather, IInv, GroupsInv, Linked, Pair
  <2> QED  BY <2>1 DEF Promise!Next, Promise!Gather
<1>2. CASE BuildThreats
  <2>1. Linked(links)' = Linked(links)
      BY <1>2 DEF BuildThreats, Linked
  <2>2. {t.members : t \in threats}' = Promise!Components(Linked(links))
      BY <1>2, ThreatsAreComponents
  <2> QED  BY <2>1, <2>2 DEF Promise!Next, Promise!Report
<1>3. CASE ~Gather /\ ~BuildThreats
    BY <1>3 DEF Next, Step, Returned, vars, findVars, forestVars, TakePair, Climb, FoundX, FoundY,
         StartGroups, TakeMember, FoundMember, Linked
<1> QED  BY <1>1, <1>2, <1>3

\* correlate implements Clustering: one threat for every connected component
\* of the links that reach min_group_confidence.
THEOREM CorrelateImplementsClustering == Spec => ImplementsClustering
<1>1. Init => Promise!Init
    BY DEF Init, Promise!Init, Linked
<1> QED  BY <1>1, NextReports, CorrelationInvariance, PTL
         DEF Spec, ImplementsClustering, Promise!Spec

-----------------------------------------------------------------------------
\* Powers of two.

\* A set of natural numbers that has 0, and with a number the next, has them all.
LEMMA InductiveSet ==
  ASSUME NEW S \in SUBSET Nat, 0 \in S, \A n \in S : n + 1 \in S
  PROVE  S = Nat
<1> SUFFICES ASSUME Nat \ S # {} PROVE FALSE
    OBVIOUS
<1> DEFINE T == Nat \ S
<1>1. PICK n \in T : \A m \in T : ~(<<m, n>> \in OpToRel(<, Nat))
    BY NatLessThanWellFounded, WFMin
<1>2. n \in Nat /\ n # 0
    OBVIOUS
<1>3. n - 1 \in Nat /\ n - 1 < n /\ (n - 1) + 1 = n
    BY <1>2
<1>4. n - 1 \notin T
    BY <1>1, <1>3 DEF OpToRel
<1> QED  BY <1>3, <1>4

\* The first powers of two, up to the nth.
Doubling(n, f) ==
  /\ f \in [0 .. n -> Nat]
  /\ f[0] = 1
  /\ \A k \in 1 .. n : f[k] = 2 * f[k - 1]

\* However far one goes, there are such powers,
LEMMA DoublingExists == \A n \in Nat : \E f : Doubling(n, f)
<1> DEFINE S == {n \in Nat : \E f : Doubling(n, f)}
<1>1. 0 \in S
  <2>1. Doubling(0, [k \in 0 .. 0 |-> 1])
      BY DEF Doubling
  <2> QED  BY <2>1
<1>2. ASSUME NEW n \in S PROVE n + 1 \in S
  <2>1. n \in Nat
      OBVIOUS
  <2>2. PICK f : Doubling(n, f)
      OBVIOUS
  <2> DEFINE g == [k \in 0 .. n + 1 |-> IF k = n + 1 THEN 2 * f[n] ELSE f[k]]
  <2>3. g \in [0 .. n + 1 -> Nat] /\ g[0] = 1
      BY <2>1, <2>2 DEF Doubling
  <2>4. ASSUME NEW k \in 1 .. n + 1 PROVE g[k] = 2 * g[k - 1]
    <3>1. k \in 0 .. n + 1 /\ k - 1 \in 0 .. n + 1 /\ k - 1 # n + 1
        BY <2>1
    <3>2. g[k - 1] = f[k - 1]
        BY <3>1
    <3>3. CASE k = n + 1
      <4>1. k - 1 = n
          BY <2>1, <3>3
      <4> QED  BY <4>1, <3>1, <3>2, <3>3
    <3>4. CASE k # n + 1
      <4>1. k \in 1 .. n
          BY <2>1, <3>4
      <4> QED  BY <4>1, <2>2, <3>1, <3>2, <3>4 DEF Doubling
    <3> QED  BY <3>3, <3>4
  <2>5. Doubling(n + 1, g)
      BY <2>3, <2>4 DEF Doubling
  <2> QED  BY <2>1, <2>5
<1> HIDE DEF S
<1>3. S \in SUBSET Nat
    BY DEF S
<1>4. S = Nat
    BY <1>1, <1>2, <1>3, InductiveSet
<1> QED  BY <1>4 DEF S

\* and they are the same wherever one stops.
LEMMA DoublingUnique ==
  ASSUME NEW n \in Nat, NEW m \in Nat, NEW f, NEW g, Doubling(n, f), Doubling(m, g),
         NEW k \in Nat, k <= n, k <= m
  PROVE  f[k] = g[k]
<1> DEFINE S == {i \in Nat : i <= n /\ i <= m => f[i] = g[i]}
<1>1. 0 \in S
    BY DEF Doubling
<1>2. ASSUME NEW i \in S PROVE i + 1 \in S
  <2>1. i \in Nat
      OBVIOUS
  <2>2. CASE i + 1 <= n /\ i + 1 <= m
    <3>1. i + 1 \in 1 .. n /\ i + 1 \in 1 .. m /\ (i + 1) - 1 = i
        BY <2>1, <2>2
    <3>2. f[i] = g[i]
        BY <2>1, <2>2
    <3>3. f[i + 1] = 2 * f[i] /\ g[i + 1] = 2 * g[i]
        BY <3>1 DEF Doubling
    <3> QED  BY <2>1, <3>2, <3>3
  <2> QED  BY <2>1, <2>2
<1> HIDE DEF S
<1>3. S \in SUBSET Nat
    BY DEF S
<1>4. S = Nat
    BY <1>1, <1>2, <1>3, InductiveSet
<1> QED  BY <1>4 DEF S

\* So TwoTo is what its definition says.
LEMMA TwoToIsDoubling ==
  /\ TwoTo \in [Nat -> Nat]
  /\ TwoTo[0] = 1
  /\ \A n \in Nat : TwoTo[n + 1] = 2 * TwoTo[n]
<1> DEFINE upTo(n) == CHOOSE f : Doubling(n, f)
           h == [n \in Nat |-> upTo(n)[n]]
<1>1. \A n \in Nat : Doubling(n, upTo(n))
    BY DoublingExists
<1> HIDE DEF upTo
<1>2. ASSUME NEW n \in Nat PROVE h[n] \in Nat
  <2>1. Doubling(n, upTo(n)) /\ n \in 0 .. n
      BY <1>1
  <2> QED  BY <2>1 DEF Doubling
<1>3. ASSUME NEW n \in Nat \ {0} PROVE n - 1 \in Nat /\ h[n] = 2 * h[n - 1]
  <2>1. n - 1 \in Nat /\ n \in 1 .. n /\ n - 1 <= n /\ n - 1 <= n - 1
      OBVIOUS
  <2>2. Doubling(n, upTo(n)) /\ Doubling(n - 1, upTo(n - 1))
      BY <1>1, <2>1
  <2>3. upTo(n)[n - 1] = upTo(n - 1)[n - 1]
      BY <2>1, <2>2, DoublingUnique
  <2>4. upTo(n)[n] = 2 * upTo(n)[n - 1]
      BY <2>1, <2>2 DEF Doubling
  <2> QED  BY <2>1, <2>3, <2>4
<1>4. h[0] = 1
    BY <1>1 DEF Doubling
<1>5. h = [n \in Nat |-> IF n = 0 THEN 1 ELSE 2 * h[n - 1]]
    BY <1>3, <1>4
<1> HIDE DEF h
<1>6. TwoTo = [n \in Nat |-> IF n = 0 THEN 1 ELSE 2 * TwoTo[n - 1]]
    BY <1>5 DEF TwoTo
<1>7. TwoTo[0] = 1
    BY <1>6
<1>8. ASSUME NEW n \in Nat PROVE TwoTo[n + 1] = 2 * TwoTo[n]
  <2>1. n + 1 \in Nat /\ n + 1 # 0 /\ (n + 1) - 1 = n
      OBVIOUS
  <2> QED  BY <1>6, <2>1
<1>9. TwoTo \in [Nat -> Nat]
  <2> DEFINE S == {n \in Nat : TwoTo[n] \in Nat}
  <2>1. 0 \in S
      BY <1>7
  <2>2. ASSUME NEW n \in S PROVE n + 1 \in S
      BY <1>8
  <2> HIDE DEF S
  <2>3. S \in SUBSET Nat
      BY DEF S
  <2>4. S = Nat
      BY <2>1, <2>2, <2>3, InductiveSet
  <2> QED  BY <2>4, <1>6 DEF S
<1> QED  BY <1>7, <1>8, <1>9

-----------------------------------------------------------------------------
\* The depth of the trees.

Component(E, x) == Promise!Component(E, x)

\* Ranks grow on the way up, a walk has passed no more alerts than the rank it
\* has reached, and a root of rank n has 2^n alerts in its component.
ShallowInv ==
  /\ \A x \in Alert : ~IsRoot(x) => rank[x] < rank[parent[x]]
  /\ \A x \in Alert : IsRoot(x) => TwoTo[rank[x]] <= Cardinality(Component(UnitedPairs, x))
  /\ side # "none" => /\ Cardinality(path) <= rank[cursor]
                      /\ \A x \in path : rank[x] < rank[cursor]

\* Components are finite, and every alert is in its own.
LEMMA ComponentFacts ==
  ASSUME NEW E, NEW x \in Alert
  PROVE  /\ IsFiniteSet(Component(E, x)) /\ Cardinality(Component(E, x)) \in Nat
         /\ x \in Component(E, x)
<1>1. Component(E, x) \subseteq Alert
    BY DEF Component, Promise!Component
<1>2. IsFiniteSet(Component(E, x))
    BY <1>1, CorrelationAssumption, FS_Subset
<1> QED  BY <1>2, ConnRefl, FS_CardinalityType DEF Component, Promise!Component, Conn

\* At the start every alert is a root of rank 0, on its own.
LEMMA InitShallow ==
  Init => ShallowInv
<1> SUFFICES ASSUME Init PROVE ShallowInv
    OBVIOUS
<1>1. \A x \in Alert : IsRoot(x) /\ rank[x] = 0
    BY DEF Init, IsRoot
<1>2. ASSUME NEW x \in Alert
      PROVE  1 <= Cardinality(Component(UnitedPairs, x))
    BY ComponentFacts, FS_EmptySet
<1> QED  BY <1>1, <1>2, TwoToIsDoubling DEF ShallowInv, Init

\* Steps that leave the trees alone and begin no walk or a new one.
LEMMA CalmShallow ==
  ASSUME ShallowInv, IInv', UNCHANGED <<parent, rank, united>>,
         \/ UNCHANGED <<side, cursor, path>>
         \/ path' = {}
  PROVE  ShallowInv'
<1>1. /\ \A x \in Alert : IsRoot(x)' <=> IsRoot(x)
      /\ UnitedPairs' = UnitedPairs
    BY DEF IsRoot, UnitedPairs
<1>2. side' # "none" => /\ Cardinality(path') <= rank'[cursor']
                        /\ \A x \in path' : rank'[x] < rank'[cursor']
  <2>1. CASE UNCHANGED <<side, cursor, path>>
      BY <2>1 DEF ShallowInv
  <2>2. CASE path' = {}
    <3>1. side' # "none" => rank'[cursor'] \in Nat
        BY DEF IInv, TypeOK, WalkInv
    <3> QED  BY <2>2, <3>1, FS_EmptySet
  <2> QED  BY <2>1, <2>2
<1> QED  BY <1>1, <1>2 DEF ShallowInv, IsRoot, Component

\* One step up, one rank more.
LEMMA ClimbShallow ==
  ASSUME IInv, ShallowInv, Climb
  PROVE  ShallowInv'
<1>1. /\ side # "none" /\ ~IsRoot(cursor) /\ cursor \in Alert /\ parent[cursor] \in Alert
      /\ rank[cursor] \in Nat /\ rank[parent[cursor]] \in Nat
      /\ path \subseteq Alert /\ \A x \in path : rank[x] \in Nat
    BY DEF Climb, IInv, TypeOK, WalkInv
<1>2. /\ cursor' = parent[cursor] /\ path' = path \cup {cursor}
      /\ UNCHANGED <<side, parent, rank, united>>
    BY DEF Climb, forestVars
<1>3. rank[cursor] < rank[parent[cursor]]
    BY <1>1 DEF ShallowInv
<1>4. IsFiniteSet(path) /\ Cardinality(path) \in Nat
    BY <1>1, CorrelationAssumption, FS_Subset, FS_CardinalityType
<1>5. Cardinality(path') <= Cardinality(path) + 1
    BY <1>2, <1>4, FS_AddElement
<1>6. Cardinality(path') \in Nat
    BY <1>2, <1>4, FS_AddElement, FS_CardinalityType
<1>7. Cardinality(path) <= rank[cursor] /\ \A x \in path : rank[x] < rank[cursor]
    BY <1>1 DEF ShallowInv
<1>8. Cardinality(path') <= rank'[cursor']
    BY <1>1, <1>2, <1>3, <1>4, <1>5, <1>6, <1>7
<1>9. \A x \in path' : rank'[x] < rank'[cursor']
  <2>1. ASSUME NEW x \in path PROVE rank[x] < rank[parent[cursor]]
      BY <1>1, <1>3, <1>7
  <2> QED  BY <1>2, <1>3, <2>1
<1> QED  BY <1>2, <1>8, <1>9 DEF ShallowInv, IsRoot, UnitedPairs, Component

\* Compression hangs alerts below one of a higher rank than theirs.
LEMMA CompressedRises ==
  ASSUME IInv, ShallowInv, side # "none", IsRoot(cursor)
  PROVE  \A x \in Alert : ~IsRoot(x) => rank[x] < rank[Compressed[x]]
BY DEF ShallowInv, Compressed

\* find returns: the path it went is shorter than before.
LEMMA FoundShallow ==
  ASSUME IInv, IInv', ShallowInv, FoundX \/ FoundMember
  PROVE  ShallowInv'
<1>1. /\ side # "none" /\ IsRoot(cursor) /\ parent' = Compressed /\ path' = {}
      /\ UNCHANGED <<rank, united>>
    BY DEF FoundX, FoundMember, Find
<1>2. \A x \in Alert : IsRoot(x)' <=> IsRoot(x)
    BY <1>1, CompressedFacts DEF IsRoot
<1>3. \A x \in Alert : ~IsRoot(x) => rank[x] < rank[parent'[x]]
    BY <1>1, CompressedRises
<1>4. side' # "none" => rank'[cursor'] \in Nat
    BY DEF IInv, TypeOK, WalkInv
<1>5. side' # "none" => /\ Cardinality(path') <= rank'[cursor']
                        /\ \A x \in path' : rank'[x] < rank'[cursor']
    BY <1>1, <1>4, FS_EmptySet
<1> QED  BY <1>1, <1>2, <1>3, <1>5 DEF ShallowInv, IsRoot, UnitedPairs, Component

\* Two finite sets that share nothing have as many members together.
LEMMA DisjointCardinality ==
  ASSUME NEW S, NEW T, NEW W, IsFiniteSet(S), IsFiniteSet(T), S \cap T = {},
         IsFiniteSet(W), S \cup T \subseteq W
  PROVE  Cardinality(S) + Cardinality(T) <= Cardinality(W)
<1>1. Cardinality(S \cup T) = Cardinality(S) + Cardinality(T) - Cardinality(S \cap T)
    BY FS_Union
<1>2. Cardinality(S \cap T) = 0
    BY FS_EmptySet
<1>3. Cardinality(S \cup T) <= Cardinality(W)
    BY FS_Subset
<1>4. Cardinality(S) \in Nat /\ Cardinality(T) \in Nat
    BY FS_CardinalityType
<1> QED  BY <1>1, <1>2, <1>3, <1>4

\* union: of two trees of one rank comes one of the next, with twice the alerts.
LEMMA FoundYShallow ==
  ASSUME IInv, IInv', ShallowInv, FoundY
  PROVE  ShallowInv'
<1> DEFINE U == UnitedPairs
           V == UnitedPairs'
           upper == Upper(rx, cursor)
           lower == Lower(rx, cursor)
<1>1. /\ side = "y" /\ IsRoot(cursor) /\ rx \in Alert /\ cursor \in Alert /\ IsRoot(rx)
      /\ Conn(U, current.a, rx) /\ Conn(U, current.b, cursor)
      /\ current \in Union /\ current.a \in Alert /\ current.b \in Alert
    BY DEF FoundY, IInv, WalkInv, LinksInv, Union
<1>2. side' = "none"
    BY DEF FoundY
<1>3. /\ Compressed \in [Alert -> Alert]
      /\ \A x \in Alert : Compressed[x] = x <=> IsRoot(x)
      /\ \A x \in Alert : ~IsRoot(x) => rank[x] < rank[Compressed[x]]
    BY <1>1, CompressedFacts, CompressedRises
<1>4. /\ U \subseteq V /\ U \subseteq Alert \X Alert /\ V \subseteq Alert \X Alert
      /\ <<current.a, current.b>> \in V
  <2>1. united' = united \cup {current}
      BY DEF FoundY
  <2>2. U \subseteq Alert \X Alert
      BY PairTypes DEF IInv
  <2> QED  BY <1>1, <2>1, <2>2 DEF UnitedPairs
<1>5. rank \in [Alert -> Nat] /\ rank' \in [Alert -> Nat]
    BY DEF IInv, TypeOK
<1>6. \A x \in Alert : Component(U, x) \subseteq Component(V, x)
    BY <1>4, ConnMono DEF Component, Promise!Component, Conn
<1>7. \A x \in Alert : Cardinality(Component(U, x)) <= Cardinality(Component(V, x))
    BY <1>6, ComponentFacts, FS_Subset
<1>8. \A x \in Alert : IsRoot(x) => TwoTo[rank[x]] <= Cardinality(Component(U, x))
    BY DEF ShallowInv
<1>9. \A n \in Nat : TwoTo[n] \in Nat /\ TwoTo[n + 1] = 2 * TwoTo[n]
    BY TwoToIsDoubling
<1> HIDE DEF U, V
<1>10. CASE rx = cursor
  <2>1. parent' = Compressed /\ rank' = rank
      BY <1>10 DEF FoundY
  <2>2. \A x \in Alert : IsRoot(x)' <=> IsRoot(x)
      BY <2>1, <1>3 DEF IsRoot
  <2>3. ASSUME NEW x \in Alert, IsRoot(x)
        PROVE  TwoTo[rank'[x]] <= Cardinality(Component(V, x))
    <3>1. /\ TwoTo[rank[x]] \in Nat /\ Cardinality(Component(U, x)) \in Nat
          /\ Cardinality(Component(V, x)) \in Nat
        BY <1>5, <1>9, ComponentFacts
    <3> QED  BY <2>1, <2>3, <3>1, <1>7, <1>8
  <2>4. \A x \in Alert : ~IsRoot(x)' => rank'[x] < rank'[parent'[x]]
      BY <2>1, <2>2, <1>3
  <2> QED  BY <2>2, <2>3, <2>4, <1>2 DEF ShallowInv, V, Component
<1>11. CASE rx # cursor
  <2>1. /\ parent' = [Compressed EXCEPT ![lower] = upper]
        /\ rank' = [rank EXCEPT ![upper] = IF @ = rank[lower] THEN @ + 1 ELSE @]
      BY <1>11 DEF FoundY
  <2>2. /\ upper \in Alert /\ lower \in Alert /\ upper # lower
        /\ IsRoot(upper) /\ IsRoot(lower) /\ {upper, lower} = {rx, cursor}
      BY <1>1, <1>11 DEF Upper, Lower
  <2>3. rank[lower] <= rank[upper]
      BY <1>1, <1>5 DEF Upper, Lower, Swaps
  <2> HIDE DEF upper, lower
  <2>4. \A x \in Alert : parent'[x] = IF x = lower THEN upper ELSE Compressed[x]
      BY <2>1, <2>2, <1>3
  <2>5. /\ \A x \in Alert \ {upper} : rank'[x] = rank[x]
        /\ rank'[upper] = IF rank[upper] = rank[lower] THEN rank[upper] + 1 ELSE rank[upper]
      BY <2>1, <2>2, <1>5
  <2>6. \A x \in Alert : rank'[x] >= rank[x]
      BY <2>5, <2>2, <1>5
  <2>7. ASSUME NEW x \in Alert, ~IsRoot(x)'
        PROVE  rank'[x] < rank'[parent'[x]]
    <3>1. CASE x = lower
      <4>1. parent'[x] = upper /\ rank'[x] = rank[lower]
          BY <3>1, <2>2, <2>4, <2>5
      <4>2. rank[lower] \in Nat /\ rank[upper] \in Nat
          BY <2>2, <1>5
      <4> QED  BY <4>1, <4>2, <2>3, <2>5
    <3>2. CASE x # lower
      <4>1. parent'[x] = Compressed[x] /\ Compressed[x] # x
          BY <2>4, <2>7, <3>2 DEF IsRoot
      <4>2. ~IsRoot(x) /\ x # upper
          BY <4>1, <1>3, <2>2
      <4>3. rank[x] < rank[Compressed[x]] /\ rank'[x] = rank[x]
          BY <4>2, <1>3, <2>5
      <4>4. /\ Compressed[x] \in Alert
            /\ rank[x] \in Nat /\ rank[Compressed[x]] \in Nat /\ rank'[Compressed[x]] \in Nat
          BY <1>3, <1>5
      <4>5. rank'[Compressed[x]] >= rank[Compressed[x]]
          BY <4>4, <2>6
      <4> QED  BY <4>1, <4>3, <4>4, <4>5
    <3> QED  BY <3>1, <3>2
  <2>8. Component(U, upper) \cap Component(U, lower) = {}
    <3> SUFFICES ASSUME NEW y \in Alert, Conn(U, upper, y), Conn(U, lower, y) PROVE FALSE
        BY DEF Component, Promise!Component, Conn
    <3>1. Conn(U, y, lower)
        BY <2>2, <1>4, ConnSym
    <3>2. Conn(U, upper, lower)
        BY <3>1, <2>2, ConnTrans
    <3> QED  BY <3>2, <2>2, ForestFacts DEF IInv, U
  <2>9. Conn(V, upper, lower)
    <3>1. Conn(V, current.a, rx) /\ Conn(V, current.b, cursor)
        BY <1>1, <1>4, ConnMono
    <3>2. Conn(V, current.a, current.b)
        BY <1>1, <1>4, ConnEdge
    <3>3. Conn(V, rx, current.a)
        BY <3>1, <1>1, <1>4, ConnSym
    <3>4. Conn(V, rx, cursor)
        BY <3>1, <3>2, <3>3, <1>1, ConnTrans
    <3>5. Conn(V, cursor, rx)
        BY <3>4, <1>1, <1>4, ConnSym
    <3> QED  BY <3>4, <3>5, <2>2
  <2>10. Component(U, upper) \cup Component(U, lower) \subseteq Component(V, upper)
    <3> SUFFICES ASSUME NEW y \in Alert, Conn(U, upper, y) \/ Conn(U, lower, y)
                 PROVE  Conn(V, upper, y)
        BY DEF Component, Promise!Component, Conn
    <3>1. Conn(V, upper, y) \/ Conn(V, lower, y)
        BY <2>2, <1>4, ConnMono
    <3> QED  BY <3>1, <2>2, <2>9, ConnTrans
  <2>11. Cardinality(Component(U, upper)) + Cardinality(Component(U, lower))
           <= Cardinality(Component(V, upper))
      BY <2>2, <2>8, <2>10, ComponentFacts, DisjointCardinality
  <2>12. TwoTo[rank'[upper]] <= Cardinality(Component(V, upper))
    <3> DEFINE m == Cardinality(Component(U, upper))
               n == Cardinality(Component(U, lower))
               k == Cardinality(Component(V, upper))
    <3>1. m \in Nat /\ n \in Nat /\ k \in Nat /\ m + n <= k
        BY <2>2, <2>11, ComponentFacts
    <3>2. TwoTo[rank[upper]] <= m /\ TwoTo[rank[lower]] <= n
        BY <2>2, <1>8
    <3> HIDE DEF m, n
    <3>3. rank[upper] \in Nat /\ rank[lower] \in Nat
        BY <2>2, <1>5
    <3>4. CASE rank[upper] = rank[lower]
      <4>1. TwoTo[rank'[upper]] = 2 * TwoTo[rank[upper]] /\ TwoTo[rank[upper]] \in Nat
          BY <3>3, <3>4, <2>5, <1>9
      <4>2. TwoTo[rank[upper]] <= n
          BY <3>2, <3>4
      <4> HIDE DEF k
      <4>3. TwoTo[rank'[upper]] <= k
          BY <3>1, <3>2, <4>1, <4>2
      <4> QED  BY <4>3 DEF k
    <3>5. CASE rank[upper] # rank[lower]
      <4>1. rank'[upper] = rank[upper] /\ TwoTo[rank[upper]] \in Nat
          BY <3>3, <3>5, <2>5, <1>9
      <4> HIDE DEF k
      <4>2. TwoTo[rank[upper]] <= k
          BY <3>1, <3>2, <4>1
      <4> QED  BY <4>1, <4>2 DEF k
    <3> QED  BY <3>4, <3>5
  <2>13. ASSUME NEW x \in Alert, IsRoot(x)', x # upper
         PROVE  TwoTo[rank'[x]] <= Cardinality(Component(V, x))
    <3>1. IsRoot(x)
        BY <2>2, <2>4, <2>13, <1>3 DEF IsRoot
    <3>2. /\ TwoTo[rank[x]] \in Nat /\ Cardinality(Component(U, x)) \in Nat
          /\ Cardinality(Component(V, x)) \in Nat
        BY <1>5, <1>9, ComponentFacts
    <3> QED  BY <2>5, <2>13, <3>1, <3>2, <1>7, <1>8
  <2> QED  BY <2>7, <2>12, <2>13, <1>2 DEF ShallowInv, V, Component
<1> QED  BY <1>10, <1>11

\* Every step keeps the trees shallow.
LEMMA NextShallow ==
  IInv /\ IInv' /\ ShallowInv /\ [Next]_vars => ShallowInv'
<1> SUFFICES ASSUME IInv, IInv', ShallowInv, [Next]_vars PROVE ShallowInv'
    OBVIOUS
<1>1. CASE Gather \/ TakePair \/ StartGroups \/ TakeMember \/ BuildThreats \/ UNCHANGED vars
  <2>1. UNCHANGED <<parent, rank, united>>
      BY <1>1 DEF Gather, TakePair, StartGroups, TakeMember, BuildThreats, vars, forestVars
  <2>2. UNCHANGED <<side, cursor, path>> \/ path' = {}
      BY <1>1 DEF Gather, TakePair, StartGroups, TakeMember, BuildThreats, vars, findVars, Find
  <2> QED  BY <2>1, <2>2, CalmShallow
<1>2. CASE Climb
    BY <1>2, ClimbShallow
<1>3. CASE FoundX \/ FoundMember
    BY <1>3, FoundShallow
<1>4. CASE FoundY
    BY <1>4, FoundYShallow
<1> QED  BY <1>1, <1>2, <1>3, <1>4 DEF Next, Step, Returned

\* find ends after a logarithmic number of steps: for every batch and every
\* order of the pairs, ranks grow towards the root, and a root of rank n has at
\* least 2^n alerts in its component.
THEOREM FindStaysShallow == Spec => []FindIsShallow
<1>1. ShallowInv => FindIsShallow
    BY DEF ShallowInv, FindIsShallow, Component
<1> QED  BY <1>1, InitShallow, NextShallow, CorrelationInvariance, PTL DEF Spec

=============================================================================
