------------------------------- MODULE MCTriage -------------------------------
(***************************************************************************)
(* Five alerts: a compromised host seen by two sensors, a HUMINT report on *)
(* the same file, a feed's indicator on a whitelisted address, and one     *)
(* that carries a marking the reports do not know.                         *)
(***************************************************************************)
EXTENDS Triage

Hash == [type |-> "file:hashes", value |-> "hash"]
Inside == [type |-> "ipv4-addr", value |-> "10.0.0.1"]
Outside == [type |-> "ipv4-addr", value |-> "8.8.8.8"]
Gateway == [type |-> "ipv4-addr", value |-> "9.9.9.9"]

MCRawAlerts ==
  {[DefaultAlert EXCEPT !.id = "edr", !.sourceType = "EDR", !.severity = "CRITICAL",
                        !.reliability = 90, !.observables = {Hash}, !.techniques = {"T1003"},
                        !.ips = <<"10.0.0.1">>],
   [DefaultAlert EXCEPT !.id = "siem", !.mentions = {Hash, Inside}, !.severity = "HIGH",
                        !.hostname = "gateway", !.techniques = {"T1071.001", "T1041"},
                        !.time = 60],
   [DefaultAlert EXCEPT !.id = "humint", !.sourceType = "HUMINT", !.reliability = 20,
                        !.severity = "LOW", !.observables = {Hash}, !.actor = "actor",
                        !.time = 4000],
   [DefaultAlert EXCEPT !.id = "feed", !.sourceType = "STIX_TAXII", !.criticality = 20,
                        !.observables = {Outside}, !.ips = <<"10.0.0.9">>, !.tlp = "TLP:RED",
                        !.time = 2100],
   [DefaultAlert EXCEPT !.id = "manual", !.sourceType = "MANUAL", !.observables = {Gateway},
                        !.techniques = {"T1021"}, !.tlp = "TLP:AMBER+STRICT", !.time = 300]}

MCAssetRegistry ==
  [i \in {"10.0.0.1", "9.9.9.9"} |->
     IF i = "10.0.0.1" THEN [asset |-> "srv-1", criticality |-> 60, tags |-> {"C2-node"}]
     ELSE [asset |-> "gate", criticality |-> 10, tags |-> {"C2"}]]

Strike == [name |-> "strike", readiness |-> "ACTIVE", rank |-> 1, start |-> 0, end |-> 2000,
           roles |-> {[asset |-> "srv", weight |-> 150, threshold |-> 50]}]
Drill == [name |-> "drill", readiness |-> "PREPARING", rank |-> 10, start |-> NoTime,
          end |-> NoTime,
          roles |-> {[asset |-> "srv-1", weight |-> 50, threshold |-> 50],
                     [asset |-> "C2", weight |-> 100, threshold |-> 20]}]
MCContexts == {{Strike}, {Drill}}
MCStartsWith == {<<"srv-1", "srv">>, <<"C2-node", "C2">>}

MCTechniqueNumber == [t \in {"T1003", "T1071.001", "T1041", "T1021"} |->
  CASE t = "T1003" -> 1003 [] t = "T1071.001" -> 1071 [] t = "T1041" -> 1041 [] OTHER -> 1021]
MCParent == [t \in {"T1071.001"} |-> "T1071"]
MCOverlay == [t \in {"T1003"} |-> {"Credential Access"}]
MCBundle ==
  {[id |-> "T1071", tactics |-> {"Command and Control"}, retired |-> FALSE],
   [id |-> "T1041", tactics |-> {"Exfiltration"}, retired |-> FALSE],
   [id |-> "T1021", tactics |-> {"Lateral Movement"}, retired |-> TRUE]}
=============================================================================
