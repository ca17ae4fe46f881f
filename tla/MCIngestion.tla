----------------------------- MODULE MCIngestion -----------------------------
(***************************************************************************)
(* TLC instance of Ingestion: two TAXII connectors, whose alerts all have  *)
(* the source id "taxii21" (national_tip_connector.py:199), poll the same  *)
(* indicator; with a SIEM connector they share two pool threads and a      *)
(* cache smaller than what they feed.                                      *)
(***************************************************************************)
EXTENDS Ingestion

CONSTANTS tip1, tip2, siem, taxii21, e1, bad, broken, beat

MCConnectors == <<tip1, tip2, siem>>
MCSourceId == (tip1 :> taxii21) @@ (tip2 :> taxii21) @@ (siem :> siem)
MCFeed == (tip1 :> <<e1, e1>>) @@ (tip2 :> <<e1, bad>>) @@ (siem :> <<beat, broken>>)

=============================================================================
