---------------------------- MODULE MCCorrelation ----------------------------
(***************************************************************************)
(* TLC instance of Correlation: four alerts, so that trees of depth two    *)
(* exist and are compressed, a pair with two methods, a link below the     *)
(* threshold and the asset correlator's link of an alert with itself.      *)
(***************************************************************************)
EXTENDS Correlation

CONSTANTS a1, a2, a3, a4

Link(a, b, method, c) == [a |-> a, b |-> b, method |-> method, confidence |-> c]

MCCandidate == {
  Link(a1, a2, "IOC_MATCH", 90), Link(a1, a2, "TEMPORAL", 40),
  Link(a3, a4, "ASSET_OVERLAP", 70), Link(a2, a3, "TEMPORAL", 35),
  Link(a1, a4, "BEHAVIOUR", 50), Link(a2, a4, "TEMPORAL", 25),
  Link(a1, a1, "ASSET_OVERLAP", 60)}

=============================================================================
