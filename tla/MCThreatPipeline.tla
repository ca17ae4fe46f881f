-------------------------- MODULE MCThreatPipeline --------------------------
(***************************************************************************)
(* TLC instance of ThreatPipeline: two server processes and two runners of *)
(* the migrations.  One alert belongs to a group that cannot be scored,    *)
(* one is submitted again in a later version, and one is invalid.          *)
(***************************************************************************)
EXTENDS ThreatPipeline

CONSTANTS w1, w2, r1, r2

MCConfigs ==
  {[exists |-> FALSE, weightsSumTo1 |-> TRUE, backend |-> "memory", dsn |-> FALSE],
   [exists |-> TRUE, weightsSumTo1 |-> TRUE, backend |-> "postgresql", dsn |-> TRUE],
   [exists |-> TRUE, weightsSumTo1 |-> TRUE, backend |-> "postgresql", dsn |-> FALSE],
   [exists |-> TRUE, weightsSumTo1 |-> FALSE, backend |-> "postgresql", dsn |-> TRUE]}

Sent(id, version, valid) == [id |-> id, version |-> version, valid |-> valid]
MCSubmissions ==
  {<<Sent("a1", 1, TRUE), Sent("a2", 1, TRUE)>>,
   <<Sent("a1", 2, TRUE), Sent("a3", 1, TRUE), Sent("a3", 1, FALSE)>>}
MCGroup == [a1 |-> "g1", a2 |-> "g2", a3 |-> "g3"]
MCGroupTier == [g1 |-> "LOW", g2 |-> "HIGH", g3 |-> "HIGH"]
MCUnscorable == {"g3"}
MCFiles == <<"001", "002">>

MCSymmetry == Permutations({r1, r2})
=============================================================================
