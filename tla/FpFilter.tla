-------------------------------- MODULE FpFilter --------------------------------
(***************************************************************************)
(* correlation/fp_filter.py: the false-positive probability of a group of  *)
(* alerts, in thousandths; correlation confidences are in thousandths too. *)
(***************************************************************************)
EXTENDS Alerts

CONSTANTS
  WhitelistIps, WhitelistHostnames  \* of the configuration

LowReliability == 30
MinSources == 2
MaxFp == 950

Atleast0(x) == IF x < 0 THEN 0 ELSE x

\* Whitelisted assets: at most one address of an alert counts, and its host.
WhitelistScore(a) ==
  (IF ToSet(a.ips) \cap WhitelistIps # {} THEN 300 ELSE 0)
  + (IF a.hostname \in WhitelistHostnames THEN 300 ELSE 0)

\* FalsePositiveFilter.compute_fp_probability.
FpProbability(group, confidence) ==
  LET sourceTypes == {a.sourceType : a \in group}
      worst == MaxSeverity(group)
      suspicion ==
        (IF Cardinality(sourceTypes) = 1 THEN 200 ELSE 0)
        + (IF MapThenSumSet(LAMBDA a : a.reliability, group) < LowReliability * Cardinality(group)
           THEN 250 ELSE 0)
        + (IF worst \in {"INFO", "LOW"} THEN 250 ELSE 0)
        + MapThenSumSet(WhitelistScore, group)
        + (IF confidence < 400 THEN 150 ELSE 0)
      corroborated == IF Cardinality(sourceTypes) >= MinSources
                      THEN Atleast0(suspicion - 200) ELSE suspicion
      severe == IF worst \in {"CRITICAL", "HIGH"} THEN Atleast0(corroborated - 100)
                                                  ELSE corroborated
  IN Min({severe, MaxFp})
=============================================================================
