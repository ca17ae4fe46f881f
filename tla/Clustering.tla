------------------------------ MODULE Clustering ------------------------------
(***************************************************************************)
(* What CorrelationEngine.correlate promises: a batch of alerts becomes    *)
(* one threat per connected component of the links that are strong enough, *)
(* so that every alert is in exactly one threat and two alerts share a     *)
(* threat only for a chain of evidence between them.                       *)
(***************************************************************************)
CONSTANTS
  Alert,   \* the alerts of the batch
  Pair     \* the pairs of alerts the correlators may link

VARIABLES
  linked,  \* pairs with a link that is strong enough
  groups   \* the alerts of each threat reported; {} before the report

\* S is closed under the edges E, followed in both directions.
Closed(E, S) == \A e \in E : e[1] \in S <=> e[2] \in S

\* A chain of edges leads from a to b.
Connected(E, a, b) == \A S \in SUBSET Alert : a \in S /\ Closed(E, S) => b \in S

Component(E, a) == {b \in Alert : Connected(E, a, b)}
Components(E) == {Component(E, a) : a \in Alert}

Init == linked = {} /\ groups = {}

\* The correlators have run.
Gather ==
  /\ groups = {}
  /\ linked' \in SUBSET Pair
  /\ UNCHANGED groups

\* correlate returns.
Report ==
  /\ groups' = Components(linked)
  /\ UNCHANGED linked

Next == Gather \/ Report

Spec == Init /\ [][Next]_<<linked, groups>>

=============================================================================
