--------------------------------- MODULE Threats ---------------------------------
(***************************************************************************)
(* The threats of a batch: the clusters of CorrelationEngine.correlate,    *)
(* whose forming module Correlation models step by step, and what          *)
(* _build_correlated_threat says of each.  Confidences are in thousandths. *)
(***************************************************************************)
EXTENDS Correlators, FpFilter

CONSTANT CentralityBoosts  \* values of centrality_boost, which networkx computes

MinGroupConfidence == 300
SingletonConfidence == 200

Significant(batch) == {l \in Links(batch) : l.confidence >= MinGroupConfidence}

Within(group, links) == {l \in links : l.pair \subseteq group}

\* No link leads out of the group.
Closed(group, links) == \A l \in links : l.pair \subseteq group \/ l.pair \cap group = {}

\* The smallest closed groups: the components that Clustering defines.
Groups(batch) ==
  LET closed == {g \in SUBSET batch : g # {} /\ Closed(g, Significant(batch))}
  IN {g \in closed : \A h \in closed : h \subseteq g => h = g}

\* The confidence of a pair: its best link, more for every further method.
PairConfidence(links, centrality) ==
  Min({1000, Max({l.confidence : l \in links})
             + Min({250, 80 * (Cardinality({l.method : l \in links}) - 1)}) + centrality})

\* A group has the confidence of one of its pairs: see Correlation.
GroupConfidences(group, links) ==
  IF Cardinality(group) = 1 THEN {SingletonConfidence}
  ELSE {PairConfidence({l \in links : l.pair = p}, c) :
          p \in {l.pair : l \in Within(group, links)}, c \in CentralityBoosts}

SharedObservables(group) ==
  {o \in UNION {a.observables : a \in group} :
     Cardinality({a \in group : o \in a.observables}) > 1}

Methods(group, links) ==
  LET names == {l.method : l \in Within(group, links)}
  IN IF Cardinality(names) > 1 THEN names \cup {"COMPOSITE"} ELSE names

\* relevance: twice the share of an alert's observables that others have.
Relevance(a, group) ==
  IF Cardinality(group) = 1 THEN 1000
  ELSE Min({1000, (2000 * Cardinality(a.observables \cap SharedObservables(group)))
                  \div Max({1, Cardinality(a.observables)})})

\* The code takes some actor and some campaign of the group, and for the title
\* the alert that is last, not first, in SEVERITY_ORDER.
BuildThreat(group, links, confidence) ==
  [alerts      |-> group,
   primary     |-> CHOOSE a \in group :
                     \A b \in group : IndexIn(SeverityOrder, a.severity)
                                        >= IndexIn(SeverityOrder, b.severity),
   evidence    |-> {[alert |-> a.id, source |-> a.source,
                     relevance |-> Relevance(a, group)] : a \in group},
   sourceTypes |-> {a.sourceType : a \in group},
   methods     |-> Methods(group, links),
   confidence  |-> confidence,
   fp          |-> FpProbability(group, confidence),
   shared      |-> SharedObservables(group),
   assets      |-> (({a.asset : a \in group} \cup {a.hostname : a \in group}) \ {None})
                     \cup UNION {ToSet(a.ips) : a \in group},
   segments    |-> {a.segment : a \in group} \ {None},
   techniques  |-> UNION {a.techniques : a \in group},
   actors      |-> {a.actor : a \in group} \ {None},
   severity    |-> MaxSeverity(group),
   first       |-> Min({a.time : a \in group}),
   last        |-> Max({a.time : a \in group})]
=============================================================================
