------------------------------ MODULE Correlation ------------------------------
(***************************************************************************)
(* CorrelationEngine.correlate of threaticap/correlation/engine.py and the *)
(* _UnionFind it clusters alerts with.  One behaviour is one call on one   *)
(* batch.  find's recursion is a walk of `cursor` up the tree, and what it *)
(* assigns on its way back is the compression of `path`.                   *)
(*                                                                         *)
(* The four correlators are represented by the links they may return, any  *)
(* subset of Candidate; the centrality boost of a pair, which networkx     *)
(* computes, by any member of Centrality.  Confidences are in hundredths.  *)
(***************************************************************************)
EXTENDS Integers, FiniteSets, FiniteSetsExt

CONSTANTS
  Alert,                \* the alert_ids of the batch
  NoAlert,              \* no alert
  Candidate,            \* links the correlators may return
  Centrality,           \* values of centrality_boost
  MinGroupConfidence,   \* min_group_confidence
  SingletonConfidence,  \* singleton_confidence
  MultiSignalBoost,     \* multi_signal_boost
  MaxMultiSignalBoost   \* max_multi_signal_boost

Confidence == 0 .. 100
Pair == {<<l.a, l.b>> : l \in Candidate}

ASSUME CorrelationAssumption ==
  /\ NoAlert \notin Alert
  /\ \A l \in Candidate : l.a \in Alert /\ l.b \in Alert /\ l.confidence \in Confidence
  /\ IsFiniteSet(Alert) /\ IsFiniteSet(Candidate)
  /\ Centrality \subseteq Confidence
  /\ MinGroupConfidence \in Confidence
  /\ SingletonConfidence \in Confidence
  /\ MultiSignalBoost \in Confidence
  /\ MaxMultiSignalBoost \in Confidence

VARIABLES
  phase,       \* "gather", "link", "group" or "done"
  links,       \* significant_links
  todo,        \* pairs of pair_best not yet united
  current,     \* the pair union() is called with, and its confidence
  side,        \* what find() is called for: "x", "y", "member" or "none"
  start,       \* the alert find() was called with
  cursor,      \* the alert find() has climbed to
  path,        \* the alerts it has passed
  rx,          \* what find(x) returned to union()
  parent,      \* _parent
  rank,        \* _rank
  confidence,  \* _confidence
  cluster,     \* the root groups() found for each alert, or NoAlert
  threats,     \* the threats: their alerts and correlation_confidence
  united       \* history: pairs united so far, with their confidence

findVars == <<side, start, cursor, path, rx>>
forestVars == <<parent, rank, confidence>>
vars == <<phase, links, todo, current, findVars, forestVars, cluster, threats, united>>

NoPair == [a |-> NoAlert, b |-> NoAlert, confidence |-> 0]
Union == [a : Alert, b : Alert, confidence : Confidence]

TypeOK ==
  /\ phase \in {"gather", "link", "group", "done"}
  /\ links \subseteq Candidate
  /\ todo \subseteq Pair
  /\ current \in Union \cup {NoPair}
  /\ side \in {"x", "y", "member", "none"}
  /\ start \in Alert \cup {NoAlert}
  /\ cursor \in Alert \cup {NoAlert}
  /\ path \subseteq Alert
  /\ rx \in Alert \cup {NoAlert}
  /\ parent \in [Alert -> Alert]
  /\ rank \in [Alert -> Nat]
  /\ confidence \in [Alert -> Confidence]
  /\ cluster \in [Alert -> Alert \cup {NoAlert}]
  /\ threats \subseteq [members : SUBSET Alert, confidence : Confidence]
  /\ united \subseteq Union

\* The empty union-find after add() of every alert of the batch.
Init ==
  /\ phase = "gather"
  /\ links = {}
  /\ todo = {}
  /\ current = NoPair
  /\ side = "none" /\ start = NoAlert /\ cursor = NoAlert /\ path = {} /\ rx = NoAlert
  /\ parent = [x \in Alert |-> x]
  /\ rank = [x \in Alert |-> 0]
  /\ confidence = [x \in Alert |-> 0]
  /\ cluster = [x \in Alert |-> NoAlert]
  /\ threats = {}
  /\ united = {}

-----------------------------------------------------------------------------
\* The links.

Linked(L) == {<<l.a, l.b>> : l \in L}
Of(p) == {l \in links : <<l.a, l.b>> = p}

Atmost(a, b) == IF a < b THEN a ELSE b
Atleast(a, b) == IF a > b THEN a ELSE b

Significant(l) == l.confidence >= MinGroupConfidence

\* Mutant: the confidence is not capped.
FinalConfidenceUncapped(p, centrality) ==
  LET methods == Cardinality({l.method : l \in Of(p)})
  IN Max({l.confidence : l \in Of(p)})
       + Atmost(MaxMultiSignalBoost, (methods - 1) * MultiSignalBoost) + centrality

\* The confidence of pair p: its best link, the boost for every further
\* method that links it, and the boost for central alerts.
FinalConfidence(p, centrality) ==
  LET base == Max({l.confidence : l \in Of(p)})
      methods == Cardinality({l.method : l \in Of(p)})
      multi == Atmost(MaxMultiSignalBoost, (methods - 1) * MultiSignalBoost)
  IN Atmost(100, base + multi + centrality)

\* The correlators run; links below the threshold are left out.
Gather ==
  /\ phase = "gather"
  /\ \E L \in SUBSET Candidate : links' = {l \in L : Significant(l)}
  /\ todo' = Linked(links')
  /\ phase' = "link"
  /\ UNCHANGED <<current, findVars, forestVars, cluster, threats, united>>

-----------------------------------------------------------------------------
\* find.

Find(s, x) ==
  /\ side' = s
  /\ start' = x
  /\ cursor' = x
  /\ path' = {}

IsRoot(x) == parent[x] = x

\* The walk has not reached the root.
Climb ==
  /\ side # "none"
  /\ ~IsRoot(cursor)
  /\ cursor' = parent[cursor]
  /\ path' = path \cup {cursor}
  /\ UNCHANGED <<phase, links, todo, current, side, start, rx, forestVars, cluster, threats, united>>

\* _parent once the recursion has come back from the root under the cursor.
Compressed == [x \in Alert |-> IF x \in path THEN cursor ELSE parent[x]]

-----------------------------------------------------------------------------
\* union.

\* The loop over pair_best calls union for the next pair, which calls find(x).
TakePair ==
  /\ phase = "link" /\ side = "none"
  /\ \E p \in todo, boost \in Centrality :
       /\ todo' = todo \ {p}
       /\ current' = [a |-> p[1], b |-> p[2], confidence |-> FinalConfidence(p, boost)]
       /\ Find("x", p[1])
  /\ UNCHANGED <<phase, links, rx, forestVars, cluster, threats, united>>

\* find(x) returns; find(y) is called.
FoundX ==
  /\ side = "x"
  /\ IsRoot(cursor)
  /\ parent' = Compressed
  /\ rx' = cursor
  /\ Find("y", current.b)
  /\ UNCHANGED <<phase, links, todo, current, rank, confidence, cluster, threats, united>>

\* Mutant: the deeper tree is hung below the other.
SwapsDeeper(r, s) == rank[r] > rank[s]

\* Does union swap the roots r and s?
Swaps(r, s) == rank[r] < rank[s]

\* The root that stays and the root that goes.
Upper(r, s) == IF Swaps(r, s) THEN s ELSE r

\* Mutant: the alert is hung below the other root instead of its own root.
LowerIsAlert(r, s) == current.b

Lower(r, s) == IF Swaps(r, s) THEN r ELSE s

\* Mutant: the alerts are compared instead of their roots, and the root of the
\* one is hung below the other alert.
UniteAlerts ==
  /\ side = "y"
  /\ IsRoot(cursor)
  /\ parent' = IF current.a = current.b THEN Compressed
                                       ELSE [Compressed EXCEPT ![cursor] = current.a]
  /\ united' = united \cup {current}
  /\ current' = NoPair
  /\ side' = "none" /\ start' = NoAlert /\ cursor' = NoAlert /\ path' = {} /\ rx' = NoAlert
  /\ UNCHANGED <<phase, links, todo, cluster, threats, rank, confidence>>

\* find(y) returns; the two trees become one.
FoundY ==
  LET upper == Upper(rx, cursor)
      lower == Lower(rx, cursor)
  IN
  /\ side = "y"
  /\ IsRoot(cursor)
  /\ confidence' = [confidence EXCEPT ![upper] = Atleast(@, current.confidence)]
  /\ IF rx = cursor
       THEN parent' = Compressed /\ UNCHANGED rank
       ELSE /\ parent' = [Compressed EXCEPT ![lower] = upper]
            /\ rank' = [rank EXCEPT ![upper] = IF @ = rank[lower] THEN @ + 1 ELSE @]
  /\ united' = united \cup {current}
  /\ current' = NoPair
  /\ side' = "none" /\ start' = NoAlert /\ cursor' = NoAlert /\ path' = {} /\ rx' = NoAlert
  /\ UNCHANGED <<phase, links, todo, cluster, threats>>

-----------------------------------------------------------------------------
\* groups, and the threats.

StartGroups ==
  /\ phase = "link" /\ side = "none" /\ todo = {}
  /\ phase' = "group"
  /\ UNCHANGED <<links, todo, current, findVars, forestVars, cluster, threats, united>>

\* groups() calls find for the next alert ...
TakeMember ==
  /\ phase = "group" /\ side = "none"
  /\ \E x \in Alert : cluster[x] = NoAlert /\ Find("member", x)
  /\ UNCHANGED <<phase, links, todo, current, rx, forestVars, cluster, threats, united>>

\* Mutant: groups() files the alert under its parent.
FileUnderParent ==
  /\ side = "member"
  /\ parent' = parent
  /\ cluster' = [cluster EXCEPT ![start] = parent[start]]
  /\ side' = "none" /\ start' = NoAlert /\ cursor' = NoAlert /\ path' = {}
  /\ UNCHANGED <<phase, links, todo, current, rx, rank, confidence, threats, united>>

\* ... and files it under the root.
FoundMember ==
  /\ side = "member"
  /\ IsRoot(cursor)
  /\ parent' = Compressed
  /\ cluster' = [cluster EXCEPT ![start] = cursor]
  /\ side' = "none" /\ start' = NoAlert /\ cursor' = NoAlert /\ path' = {}
  /\ UNCHANGED <<phase, links, todo, current, rx, rank, confidence, threats, united>>

Members(r) == {x \in Alert : cluster[x] = r}

\* Mutant: a single alert, too, gets the confidence of its links.
ClusterConfidenceOfRoot(r) == confidence[r]

ClusterConfidence(r) ==
  IF Cardinality(Members(r)) = 1 THEN SingletonConfidence ELSE confidence[r]

\* One threat per cluster.
BuildThreats ==
  /\ phase = "group" /\ side = "none"
  /\ \A x \in Alert : cluster[x] # NoAlert
  /\ threats' = {[members |-> Members(r), confidence |-> ClusterConfidence(r)] :
                   r \in {cluster[x] : x \in Alert}}
  /\ phase' = "done"
  /\ UNCHANGED <<links, todo, current, findVars, forestVars, cluster, united>>

Step ==
  \/ Gather \/ TakePair \/ Climb \/ FoundX \/ FoundY
  \/ StartGroups \/ TakeMember \/ FoundMember \/ BuildThreats

\* correlate has returned.
Returned == phase = "done" /\ UNCHANGED vars

Next == Step \/ Returned

Spec == Init /\ [][Next]_vars

\* One thread runs correlate to its end.
FairSpec == Spec /\ WF_vars(Step)

-----------------------------------------------------------------------------
\* Properties.

Promise == INSTANCE Clustering WITH
  linked <- Linked(links),
  groups <- {t.members : t \in threats}

\* The threats are the connected components of the links above the threshold,
\* whatever the order of pair_best and the shape of the trees.
ImplementsClustering == Promise!Spec

UnitedPairs == {<<u.a, u.b>> : u \in united}

\* Between two unions, two roots never stand for connected alerts, and no
\* alert's parent is one it is not connected to: find answers the same root
\* for two alerts exactly if a chain of united pairs leads from one to the other.
ForestIsPartition ==
  \A x, y \in Alert :
    /\ Promise!Connected(UnitedPairs, x, parent[x])
    /\ IsRoot(x) /\ IsRoot(y) /\ Promise!Connected(UnitedPairs, x, y) => x = y

\* The powers of two.
TwoTo[n \in Nat] == IF n = 0 THEN 1 ELSE 2 * TwoTo[n - 1]

\* find ends and recurses no deeper than the logarithm of the group: ranks
\* grow towards the root, and a root of rank n has 2^n alerts below it.
FindIsShallow ==
  /\ \A x \in Alert : ~IsRoot(x) => rank[x] < rank[parent[x]]
  /\ \A x \in Alert : IsRoot(x) =>
       TwoTo[rank[x]] <= Cardinality(Promise!Component(UnitedPairs, x))
  /\ side # "none" => Cardinality(path) <= rank[cursor]

\* The confidence of a group is that of a pair united in it and so reaches
\* the threshold; an alert on its own gets the base confidence, even if the
\* asset correlator linked it with itself.
ConfidenceIsEarned ==
  \A t \in threats :
    IF Cardinality(t.members) = 1
      THEN t.confidence = SingletonConfidence
      ELSE /\ t.confidence >= MinGroupConfidence
           /\ \E u \in united : u.a \in t.members /\ u.confidence = t.confidence

\* What the comment on _confidence says, "max confidence seen per root": a
\* threat's confidence is the highest of the pairs united in it.
ConfidenceIsMax ==
  \A t \in threats : Cardinality(t.members) > 1 =>
    \A u \in united : u.a \in t.members => u.confidence <= t.confidence

\* correlate returns for every batch.
Terminates == <>(phase = "done")

=============================================================================
