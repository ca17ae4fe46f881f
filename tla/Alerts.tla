--------------------------------- MODULE Alerts ---------------------------------
(***************************************************************************)
(* The alert of threaticap/models/alert.py, as far as the components that  *)
(* work on it look at it.  Weights, reliabilities and criticalities are in *)
(* hundredths, times in minutes; texts are names, and a description is the *)
(* set of observables it mentions.                                         *)
(***************************************************************************)
EXTENDS Integers, Sequences, FiniteSets, SequencesExt, FiniteSetsExt

\* AlertSeverity, the most severe first.
SeverityOrder == <<"CRITICAL", "HIGH", "MEDIUM", "LOW", "INFO">>

SourceType ==
  {"SIEM", "EDR", "NETWORK_SENSOR", "SIGINT", "HUMINT", "OSINT", "STIX_TAXII",
   "COMMERCIAL_FEED", "SATELLITE_ISR", "MANUAL"}

ObservableType ==
  {"ipv4-addr", "ipv6-addr", "domain-name", "url", "file:hashes", "email-addr",
   "user-account", "process", "windows-registry-key", "network-traffic", "asset-id",
   "vulnerability", "tool", "x-custom"}

\* Where x comes in a sequence without duplicates.
IndexIn(s, x) == CHOOSE i \in DOMAIN s : s[i] = x

\* The most severe of a group of alerts.
MaxSeverity(group) ==
  SeverityOrder[Min({IndexIn(SeverityOrder, a.severity) : a \in group})]

None == "none"

\* What an event leaves to the defaults of Alert and AssetContext.
DefaultAlert ==
  [id |-> None, sourceType |-> "SIEM", source |-> None, reliability |-> 80, time |-> 0,
   severity |-> "MEDIUM", rule |-> None, observables |-> {}, techniques |-> {},
   mentions |-> {},
   asset |-> None, ips |-> <<>>, hostname |-> None, segment |-> None, criticality |-> 50,
   tags |-> {}, actor |-> None, campaign |-> None, tlp |-> "TLP:GREEN", geo |-> FALSE]

\* The validators: an alert that fails one is rejected.
ValidAlert(a) ==
  /\ a.sourceType \in SourceType
  /\ a.severity \in ToSet(SeverityOrder)
  /\ a.reliability \in 0 .. 100 /\ a.criticality \in 0 .. 100
  /\ \A o \in a.observables : o.type \in ObservableType /\ o.value # None
=============================================================================
