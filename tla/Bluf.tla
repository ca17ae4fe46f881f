---------------------------------- MODULE Bluf ----------------------------------
(***************************************************************************)
(* reporting/bluf_generator.py and reporting/commander_bluf.py: the report *)
(* on a threat, and what each reader is shown of it.  An action is         *)
(* [priority, name, by]; of texts only what decides about them is kept.    *)
(***************************************************************************)
EXTENDS Scoring, Campaign

\* _confidence_from_score.
ConfidenceLevel(t) ==
  IF t.confidence >= 750 /\ t.fp <= 150 /\ Cardinality(t.sourceTypes) >= 2 THEN "HIGH"
  ELSE IF t.confidence >= 450 /\ t.fp <= 400 THEN "MODERATE" ELSE "LOW"

\* The most restrictive marking of the alerts; one it does not list is passed over.
TlpOrder == <<"TLP:RED", "TLP:AMBER", "TLP:GREEN", "TLP:WHITE">>
DetermineTlp(t) ==
  LET listed == {a.tlp : a \in t.alerts} \cap ToSet(TlpOrder)
  IN IF listed = {} THEN "TLP:GREEN"
     ELSE TlpOrder[Min({IndexIn(TlpOrder, x) : x \in listed})]

\* The shared observables, and an item for each alert; with more than seven
\* alerts the code shows the first.
KeyEvidence(t) ==
  (IF t.shared = {} THEN {}
   ELSE {[alerts |-> {a.id : a \in t.alerts}, sources |-> t.sourceTypes,
          observables |-> t.shared]})
  \cup {[alerts |-> {a.id}, sources |-> {a.sourceType}, observables |-> a.observables] :
           a \in t.alerts}

Item(priority, name, by) == [priority |-> priority, name |-> name, by |-> by]
Also(actions, condition, item) == IF condition THEN Append(actions, item) ELSE actions

\* A stable sort by priority.
ByPriority(actions) ==
  LET before(i, j) ==
        \/ actions[i].priority < actions[j].priority
        \/ actions[i].priority = actions[j].priority /\ i < j
  IN [n \in DOMAIN actions |->
        actions[CHOOSE i \in DOMAIN actions :
                  Cardinality({j \in DOMAIN actions : before(j, i)}) = n - 1]]

\* What the tactics call for; by is in minutes.
TacticalActions(tier, tactics) ==
  LET respond == Also(<<>>, tier = "CRITICAL", Item(1, "activate response team", 0))
      block == Also(respond, tactics \cap {"Command and Control", "Exfiltration"} # {},
                    Item(IF tier = "CRITICAL" THEN 3 ELSE 2, "block", 15))
      isolate == Also(block, "Lateral Movement" \in tactics, Item(2, "isolate", 30))
      revoke == Also(isolate, "Credential Access" \in tactics, Item(3, "reset passwords", 60))
  IN Also(revoke, "Exfiltration" \in tactics, Item(2, "engage legal", 120))

ImmediateActions(tier, tactics) ==
  LET tactical == TacticalActions(tier, tactics)
      preserve == Also(tactical, tactical = <<>> \/ tier \in {"HIGH", "CRITICAL"},
                       Item(Len(tactical) + 1, "preserve artefacts", 60))
  IN ByPriority(Append(preserve,
       Item(Len(preserve) + 1, "brief command", IF tier = "CRITICAL" THEN 0 ELSE 120)))

\* A technique, or the technique it is a part of, that the base describes.
Described(t) == t \in DOMAIN KnowledgeBase \/ ParentOf(t) \in DOMAIN KnowledgeBase

\* The first three techniques; which these are does not matter here.
FirstTechniques(techniques) ==
  CHOOSE some \in SUBSET techniques : Cardinality(some) = Min({3, Cardinality(techniques)})

InvestigationSteps(t, mapping) ==
  LET review == <<Item(1, "review alerts", 240)>>
      search == Also(review, t.shared # {}, Item(2, "search shared IOCs", 240))
      described == {x \in FirstTechniques(mapping.techniques) : Described(x)}
      hunt == search \o [i \in 1 .. Cardinality(described) |-> Item(3, "execute detection", 480)]
      attribute == Also(hunt, t.actors # {}, Item(4, "cross-reference actor", 1440))
  IN Append(attribute, Item(Len(attribute) + 1, "submit IOCs", 1440))

\* BlufGenerator.generate.
Generate(t, score) ==
  LET mapping == MapTechniques(t.techniques)
      campaign == Reconstruct(t, mapping)
  IN [tier |-> score.tier, shown |-> score.shown, confidence |-> ConfidenceLevel(t),
      tlp |-> DetermineTlp(t), evidence |-> KeyEvidence(t), sources |-> t.sourceTypes,
      assets |-> t.assets, techniques |-> t.techniques, tactics |-> mapping.tactics,
      stage |-> mapping.stage, actions |-> ImmediateActions(score.tier, mapping.tactics),
      steps |-> InvestigationSteps(t, mapping), multiplier |-> score.multiplier,
      degraded |-> score.degraded, campaign |-> campaign,
      doubtful |-> t.fp > 300, window |-> t.last - t.first]

OutputRole == {"COMMANDER", "SOC_ANALYST", "INTEL_OFFICER", "WATCH_OFFICER", "COALITION"}

\* _build_command_decisions: at most four.
CommandDecisions(report) ==
  LET assess == IF report.degraded = {} THEN <<>> ELSE <<"assess missions">>
      escalate == CASE report.tier = "CRITICAL" -> <<"national response", "authorise containment">>
                    [] report.tier = "HIGH" -> <<"elevate to CISO">>
                    [] OTHER -> <<"assign owner">>
      notify == IF report.tactics \cap {"Exfiltration", "Collection"} = {} THEN <<>>
                ELSE <<"consider disclosure">>
      all == assess \o escalate \o notify
  IN SubSeq(all, 1, Min({4, Len(all)}))

Indicators(report) == UNION {e.observables : e \in report.evidence}

\* CommanderBlufRenderer.render: the marking is always shown, the rest as the
\* reader needs it.
Render(report, role) ==
  LET common == [role |-> role, tlp |-> report.tlp, tier |-> report.tier,
                 confidence |-> report.confidence, missions |-> {}, decisions |-> <<>>,
                 campaign |-> None, indicators |-> {}, techniques |-> {}, sources |-> {}]
  IN CASE role = "COMMANDER" ->
            [common EXCEPT !.missions = report.degraded, !.decisions = CommandDecisions(report),
                           !.campaign = report.campaign.objective]
       [] role = "SOC_ANALYST" ->
            [common EXCEPT !.missions = report.degraded, !.indicators = Indicators(report),
                           !.techniques = report.techniques, !.sources = report.sources,
                           !.campaign = report.campaign.objective]
       [] role = "INTEL_OFFICER" ->
            [common EXCEPT !.missions = report.degraded, !.techniques = report.techniques,
                           !.sources = report.sources, !.campaign = report.campaign.objective]
       [] role = "WATCH_OFFICER" ->
            [common EXCEPT !.missions = report.degraded,
                           !.decisions = <<Head(report.actions).name>>]
       [] role = "COALITION" ->
            [common EXCEPT !.indicators = Indicators(report), !.techniques = report.techniques]
=============================================================================
