-------------------------------- MODULE Scoring --------------------------------
(***************************************************************************)
(* scoring/prioritisation_engine.py: the priority of a threat.             *)
(* Components are in units of 1/100000, points of the score in 1/100000    *)
(* too, so that no product is rounded; the score shown is in hundredths of *)
(* a point.                                                                *)
(***************************************************************************)
EXTENDS Threats, Missions

One == 100000
MaxAge == 72 * 60

\* ScoringWeights, in hundredths.
ComponentWeights ==
  [severity |-> 30, confidence |-> 25, reliability |-> 15, criticality |-> 20, urgency |-> 10]

\* The severity of the worst alert, with a bonus for their number.
SeverityComponent(t) ==
  LET base == CASE t.severity = "CRITICAL" -> 100000 [] t.severity = "HIGH" -> 75000
                [] t.severity = "MEDIUM" -> 50000 [] t.severity = "LOW" -> 25000
                [] OTHER -> 10000
  IN Min({One, base + Min({10000, 1500 * (Cardinality(t.alerts) - 1)})})

ConfidenceComponent(t) ==
  Min({One, Max({0, 100 * t.confidence
                      + Min({20000, 8000 * (Cardinality(t.sourceTypes) - 1)}) - 30 * t.fp})})

ReliabilityComponent(t) ==
  (1000 * MapThenSumSet(LAMBDA a : a.reliability, t.alerts)) \div Cardinality(t.alerts)

CriticalityComponent(t, multiplier) ==
  Min({One, Max({a.criticality : a \in t.alerts}) * multiplier})

\* Rounded to thousandths; a time in the future counts for more than now.
UrgencyComponent(t, now) ==
  100 * Max({0, (1000 * (MaxAge - (now - t.last)) + MaxAge \div 2) \div MaxAge})

Points(t, now, multiplier) ==
  LET values == [severity |-> SeverityComponent(t), confidence |-> ConfidenceComponent(t),
                 reliability |-> ReliabilityComponent(t),
                 criticality |-> CriticalityComponent(t, multiplier),
                 urgency |-> UrgencyComponent(t, now)]
  IN Min({100 * One, MapThenSumSet(LAMBDA c : values[c] * ComponentWeights[c], DOMAIN values)})

\* A likely false positive loses up to twenty points, and is never dropped.
FpAdjustment(t) == 2000 * t.fp
AdjustedPoints(t, now, multiplier) == Max({0, Points(t, now, multiplier) - FpAdjustment(t)})

Tiers == <<"CRITICAL", "HIGH", "MEDIUM", "LOW">>
AssignTier(points) ==
  IF points >= 80 * One THEN "CRITICAL"
  ELSE IF points >= 60 * One THEN "HIGH"
  ELSE IF points >= 35 * One THEN "MEDIUM" ELSE "LOW"

Rounded(points) == (points + 500) \div 1000

\* Mutant: the tier is that of the score before the adjustment.
ScoreTierFirst(t, now, multiplier, degraded) ==
  [shown |-> Rounded(AdjustedPoints(t, now, multiplier)),
   tier |-> AssignTier(Points(t, now, multiplier)), fpAdjustment |-> FpAdjustment(t),
   multiplier |-> multiplier, degraded |-> degraded, at |-> now]

\* PrioritisationEngine.score; the tier is that of the score not yet rounded.
Score(t, now, multiplier, degraded) ==
  [shown |-> Rounded(AdjustedPoints(t, now, multiplier)),
   tier |-> AssignTier(AdjustedPoints(t, now, multiplier)), fpAdjustment |-> FpAdjustment(t),
   multiplier |-> multiplier, degraded |-> degraded, at |-> now]

\* The order of PipelineResult, and of score_batch: by the score shown; equal
\* scores keep their order.
Ranked(results) ==
  LET before(i, j) ==
        \/ results[i].score.shown > results[j].score.shown
        \/ results[i].score.shown = results[j].score.shown /\ i < j
  IN [n \in DOMAIN results |->
        results[CHOOSE i \in DOMAIN results :
                  Cardinality({j \in DOMAIN results : before(j, i)}) = n - 1]]
=============================================================================
