----------------------------- MODULE MCEnrichment -----------------------------
(***************************************************************************)
(* TLC instance of Enrichment: two threads look up three observables of    *)
(* the one enabled enricher, whose cache holds one entry.                  *)
(***************************************************************************)
EXTENDS Enrichment

CONSTANTS c1, c2

MCObservables ==
  {[type |-> "ipv4-addr", value |-> "ip1"], [type |-> "domain-name", value |-> "d1"],
   [type |-> "url", value |-> "u1"],
   [type |-> "vulnerability", value |-> "cve1"], [type |-> "email-addr", value |-> "m1"]}
=============================================================================
