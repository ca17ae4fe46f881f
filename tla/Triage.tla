--------------------------------- MODULE Triage ---------------------------------
(***************************************************************************)
(* From alerts to reports: a batch is taken in, correlated, scored threat  *)
(* by threat, reported and ranked, while the clock runs and a commander    *)
(* replaces the missions.  The repositories and the failures of the run    *)
(* are in ThreatPipeline; here is what the run decides.                    *)
(*                                                                         *)
(* The code behind each action:                                            *)
(*   Take       AlertNormaliser.normalise, AlertEnricher.enrich            *)
(*   Correlate  CorrelationEngine.correlate                                *)
(*   Weigh      PrioritisationEngine._compute_mission_impact, up to the    *)
(*              multiplier                                                 *)
(*   Judge      the rest of score, and BlufGenerator.generate              *)
(*   Rank       the sort at the end of ThreatPipeline.run                  *)
(*   Reload     update_mission_context, from another thread                *)
(***************************************************************************)
EXTENDS Intake, Bluf

CONSTANTS
  RawAlerts,  \* what the connectors may fetch
  Contexts,   \* the mission contexts a commander may load
  MaxBatch,   \* bound: alerts of a batch
  Step,       \* minutes the clock advances at a time
  MaxNow      \* bound: the last time of the clock

\* What the models and the registry's AssetContext validate: the fields of an
\* alert and their ranges, lists that end, ranks and weights of missions.
ASSUME TriageAssumption ==
  /\ \A raw \in RawAlerts :
       /\ DOMAIN raw = DOMAIN DefaultAlert
       /\ raw.time \in Int /\ raw.ips \in Seq(STRING)
       /\ IsFiniteSet(raw.observables) /\ IsFiniteSet(raw.mentions)
       /\ IsFiniteSet(raw.techniques)
  /\ \A ip \in DOMAIN AssetRegistry :
       LET entry == AssetRegistry[ip]
       IN /\ DOMAIN entry \subseteq {"asset", "hostname", "segment", "criticality", "tags"}
          /\ "criticality" \in DOMAIN entry => entry.criticality \in 0 .. 100
  /\ \A context \in Contexts :
       /\ IsFiniteSet(context)
       /\ \A m \in context : /\ m.rank \in 1 .. 10 /\ IsFiniteSet(m.roles)
                             /\ \A r \in m.roles : r.weight \in 0 .. 300
  /\ Window \in Nat \ {0} /\ CentralityBoosts \subseteq Nat
  /\ {MaxBatch, Step, MaxNow} \subseteq Nat

VARIABLES
  now,       \* the clock, in minutes
  missions,  \* PrioritisationEngine._mission_context
  stage,     \* where the run is: "intake", "scoring" or "done"
  batch,     \* the alerts taken in
  waiting,   \* the threats not scored yet
  half,      \* the threat whose multiplier is read and whose names are not, if any
  results    \* the scored threats with their reports, in order

vars == <<now, missions, stage, batch, waiting, half, results>>

Init ==
  /\ now = 0
  /\ missions \in Contexts
  /\ stage = "intake"
  /\ batch = {} /\ waiting = {} /\ half = {} /\ results = <<>>

Take(raw) ==
  /\ stage = "intake"
  /\ Cardinality(batch) < MaxBatch
  /\ raw.time <= now + Step  \* a bound: how far a sensor's clock is ahead
  /\ \A a \in batch : a.id # raw.id
  /\ ValidAlert(raw)
  /\ batch' = batch \cup {Enrich(Normalise(raw))}
  /\ UNCHANGED <<now, missions, stage, waiting, half, results>>

\* The confidence each group may get.
Confidences(groups, links) ==
  {f \in [groups -> UNION {GroupConfidences(g, links) : g \in groups}] :
     \A g \in groups : f[g] \in GroupConfidences(g, links)}

Correlate ==
  /\ stage = "intake" /\ batch # {}
  /\ stage' = "scoring"
  /\ LET groups == Groups(batch)
         links == Significant(batch)
     IN \E f \in Confidences(groups, links) :
          waiting' = {BuildThreat(g, links, f[g]) : g \in groups}
  /\ UNCHANGED <<now, missions, batch, half, results>>

Weigh(t) ==
  /\ stage = "scoring" /\ half = {} /\ t \in waiting
  /\ half' = {[threat |-> t, multiplier |-> MissionImpact(missions, now, t.alerts)]}
  /\ UNCHANGED <<now, missions, stage, batch, waiting, results>>

Judge ==
  /\ \E h \in half :
       LET t == h.threat
           score == Score(t, now, h.multiplier, DegradedMissions(missions, now, t.alerts))
       IN /\ results' = Append(results,
                               [threat |-> t, score |-> score, report |-> Generate(t, score)])
          /\ waiting' = waiting \ {t}
  /\ half' = {}
  /\ UNCHANGED <<now, missions, stage, batch>>

Rank ==
  /\ stage = "scoring" /\ half = {} /\ waiting = {}
  /\ stage' = "done"
  /\ results' = Ranked(results)
  /\ UNCHANGED <<now, missions, batch, waiting, half>>

\* The service stands by for the next batch.
Standby ==
  /\ stage = "done"
  /\ stage' = "intake"
  /\ batch' = {} /\ results' = <<>>
  /\ UNCHANGED <<now, missions, waiting, half>>

Reload(context) ==
  /\ context # missions
  /\ missions' = context
  /\ UNCHANGED <<now, stage, batch, waiting, half, results>>

Tick ==
  /\ now + Step <= MaxNow
  /\ now' = now + Step
  /\ UNCHANGED <<missions, stage, batch, waiting, half, results>>

Next ==
  \/ \E raw \in RawAlerts : Take(raw)
  \/ Correlate
  \/ \E t \in waiting : Weigh(t)
  \/ Judge
  \/ Rank
  \/ Standby
  \/ \E context \in Contexts : Reload(context)
  \/ Tick

Spec == Init /\ [][Next]_vars

-----------------------------------------------------------------------------
TierRank(tier) == IndexIn(Tiers, tier)

(* A finished run lists its threats by the score it shows, and no threat     *)
(* stands in a better tier than one shown with a higher score, although the  *)
(* tier comes from the score before rounding, the false-positive reduction   *)
(* from a filter of its own, and the clock ran between the threats.  Two     *)
(* tiers meet at one shown score only on the threshold (prioritisation_      *)
(* engine.py:207-217, pipeline.py:304-311).                                  *)
RankingRespectsTiers ==
  \A i, j \in DOMAIN results :
    LET a == results[i].score
        b == results[j].score
    IN /\ stage = "done" /\ i < j => a.shown >= b.shown
       /\ a.shown > b.shown => TierRank(a.tier) <= TierRank(b.tier)
       /\ a.shown = b.shown /\ a.tier # b.tier => a.shown \in {8000, 6000, 3500}

(* Missions only raise a score, by no more than the weight of the            *)
(* criticality, whatever context is loaded and whenever it is replaced, and  *)
(* leave a threat alone that touches no role of any context                  *)
(* (get_mission_impact, mission.py:153-174).                                 *)
MissionOnlyRaises ==
  \A i \in DOMAIN results :
    LET t == results[i].threat
        score == results[i].score
        plain == Score(t, score.at, 1000, {})
    IN /\ score.shown >= plain.shown
       /\ score.shown <= plain.shown + 100 * ComponentWeights.criticality
       /\ (\A m \in UNION Contexts : \A r \in m.roles : ~Touches(r, t.alerts))
            => score.shown = plain.shown

(* What comes of a sensitive source is marked TLP:RED to the end: in the     *)
(* report of its threat, whatever alerts of other markings it was clustered  *)
(* with, and in each rendering of it; and no report is marked more openly    *)
(* than an alert whose marking the order lists (enricher.py:158-176,         *)
(* bluf_generator.py:457-472, commander_bluf.py).                            *)
ReportKeepsMarking ==
  \A i \in DOMAIN results :
    \A a \in results[i].threat.alerts, role \in OutputRole :
      LET shown == Render(results[i].report, role).tlp
      IN /\ a.sourceType \in SensitiveSources => shown = "TLP:RED"
         /\ a.tlp \in ToSet(TlpOrder) => IndexIn(TlpOrder, shown) <= IndexIn(TlpOrder, a.tlp)
=============================================================================
