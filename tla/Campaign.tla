-------------------------------- MODULE Campaign --------------------------------
(***************************************************************************)
(* mapping/mitre_mapper.py and analysis/campaign_reconstructor.py: from    *)
(* the techniques of a threat to its tactics, its phases of the kill chain *)
(* and what the adversary is after.                                        *)
(***************************************************************************)
EXTENDS Alerts

CONSTANTS
  Overlay,  \* the YAML knowledge base: the tactics of the techniques it lists
  Bundle,   \* the STIX bundle: its attack patterns
  Parent    \* the technique of a sub-technique

\* load_knowledge_base: what it lists replaces what was loaded before.
LoadKnowledgeBase(kb) == Overlay @@ kb

\* load_stix_bundle: attack patterns that are deprecated or revoked are left out.
LoadStixBundle(kb) ==
  LET loaded == {p \in Bundle : ~p.retired}
  IN [id \in {p.id : p \in loaded} |-> (CHOOSE p \in loaded : p.id = id).tactics] @@ kb

\* from_config gives the mapper its knowledge base and then loads the bundle.
KnowledgeBase == LoadStixBundle(LoadKnowledgeBase(<<>>))

ParentOf(t) == IF t \in DOMAIN Parent THEN Parent[t] ELSE t

\* A technique the base does not know has the tactics of its parent, or none.
Tactics(t) ==
  IF t \in DOMAIN KnowledgeBase THEN KnowledgeBase[t]
  ELSE IF ParentOf(t) \in DOMAIN KnowledgeBase THEN KnowledgeBase[ParentOf(t)] ELSE {}

KillChainStageOrder ==
  <<"Impact", "Exfiltration", "Command and Control", "Collection", "Lateral Movement",
    "Discovery", "Credential Access", "Defense Evasion", "Privilege Escalation",
    "Persistence", "Execution", "Initial Access", "Resource Development", "Reconnaissance">>

\* map_techniques, with the stage of _highest_kill_chain_stage.
MapTechniques(techniques) ==
  LET tactics == UNION {Tactics(t) : t \in techniques}
  IN [techniques |-> techniques, tactics |-> tactics,
      stage |-> IF tactics = {} THEN None
                ELSE KillChainStageOrder[Min({IndexIn(KillChainStageOrder, x) : x \in tactics})]]

\* KillChainPhase, in the order of _PHASE_ORDER; no tactic leads to DELIVERY.
PhaseOrder ==
  <<"RECONNAISSANCE", "WEAPONISATION", "DELIVERY", "EXPLOITATION", "INSTALLATION",
    "PRIVILEGE_ESC", "DEFENSE_EVASION", "CREDENTIAL_ACCESS", "DISCOVERY",
    "LATERAL_MOVEMENT", "COLLECTION", "C2", "EXFILTRATION", "IMPACT">>

TacticPhase(tactic) ==
  CASE tactic = "Reconnaissance" -> "RECONNAISSANCE"
    [] tactic = "Resource Development" -> "WEAPONISATION"
    [] tactic = "Initial Access" -> "EXPLOITATION"
    [] tactic \in {"Execution", "Persistence"} -> "INSTALLATION"
    [] tactic = "Privilege Escalation" -> "PRIVILEGE_ESC"
    [] tactic = "Defense Evasion" -> "DEFENSE_EVASION"
    [] tactic = "Credential Access" -> "CREDENTIAL_ACCESS"
    [] tactic = "Discovery" -> "DISCOVERY"
    [] tactic = "Lateral Movement" -> "LATERAL_MOVEMENT"
    [] tactic = "Collection" -> "COLLECTION"
    [] tactic = "Command and Control" -> "C2"
    [] tactic = "Exfiltration" -> "EXFILTRATION"
    [] tactic = "Impact" -> "IMPACT"
    [] OTHER -> "UNKNOWN"

\* _TECHNIQUE_PHASE_HINTS, by the technique of a sub-technique.
PhaseHint(t) ==
  LET base == ParentOf(t)
  IN CASE base \in {"T1595", "T1592", "T1589"} -> "RECONNAISSANCE"
       [] base \in {"T1566", "T1190"} -> "EXPLOITATION"
       [] base \in {"T1059", "T1053", "T1547"} -> "INSTALLATION"
       [] base = "T1548" -> "PRIVILEGE_ESC"
       [] base \in {"T1078", "T1003", "T1110"} -> "CREDENTIAL_ACCESS"
       [] base \in {"T1083", "T1087", "T1018"} -> "DISCOVERY"
       [] base \in {"T1021", "T1570"} -> "LATERAL_MOVEMENT"
       [] base \in {"T1039", "T1005"} -> "COLLECTION"
       [] base \in {"T1071", "T1095"} -> "C2"
       [] base \in {"T1041", "T1048"} -> "EXFILTRATION"
       [] base \in {"T1485", "T1486", "T1489", "T1491"} -> "IMPACT"
       [] OTHER -> "UNKNOWN"

\* A phase is seen by a tactic or by a technique; only techniques date it.
ObservedPhases(mapping) ==
  ({TacticPhase(x) : x \in mapping.tactics} \cup {PhaseHint(t) : t \in mapping.techniques})
    \ {"UNKNOWN"}

Dated(threat, phase) ==
  {a.time : a \in {b \in threat.alerts : \E t \in b.techniques : PhaseHint(t) = phase}}

\* _assess_objective.
Objective(phases) ==
  IF "IMPACT" \in phases THEN "Disruption"
  ELSE IF "EXFILTRATION" \in phases THEN "Data Theft"
  ELSE IF {"C2", "LATERAL_MOVEMENT"} \subseteq phases THEN "Espionage"
  ELSE IF "CREDENTIAL_ACCESS" \in phases THEN "Credential Harvesting"
  ELSE IF "DISCOVERY" \in phases THEN "Mapping"
  ELSE IF phases \cap {"EXPLOITATION", "INSTALLATION"} # {} THEN "Foothold"
  ELSE IF "RECONNAISSANCE" \in phases THEN "Reconnaissance" ELSE "Unknown"

\* reconstruct: how far the chain has come, what was not seen on the way.
Reconstruct(threat, mapping) ==
  LET phases == ObservedPhases(mapping)
      at == {IndexIn(PhaseOrder, p) : p \in phases}
      times == UNION {Dated(threat, p) : p \in phases}
  IN [phases |-> phases,
      completion |-> IF at = {} THEN 0 ELSE Max(at),
      gaps |-> IF at = {} THEN {}
               ELSE {p \in ToSet(PhaseOrder) \ phases :
                       IndexIn(PhaseOrder, p) \in Min(at) .. Max(at)},
      objective |-> Objective(phases),
      apt |-> Cardinality(phases) >= 4 /\ 2 * Max(at) >= Len(PhaseOrder),
      span |-> IF times = {} THEN 0 ELSE Max(times) - Min(times)]
=============================================================================
