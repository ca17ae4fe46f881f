-------------------------------- MODULE Missions --------------------------------
(***************************************************************************)
(* models/mission.py: the missions a commander declares and what a threat  *)
(* to their assets means.  Multipliers are in thousandths; weights and     *)
(* thresholds in hundredths; times in minutes.                             *)
(***************************************************************************)
EXTENDS Alerts

CONSTANT StartsWith  \* pairs <<name, pattern>>: the name is longer than its prefix

NoTime == -1

IsActive(m, now) ==
  /\ m.readiness \in {"ACTIVE", "PREPARING"}
  /\ m.start # NoTime => now >= m.start
  /\ m.end # NoTime => now <= m.end

ActiveMissions(missions, now) == {m \in missions : IsActive(m, now)}

\* 1 + (10 - rank) / 9, rounded; the first of ten ranks doubles.
UrgencyMultiplier(m) == 1000 + (2000 * (10 - m.rank) + 9) \div 18

Matches(name, pattern) == name = pattern \/ <<name, pattern>> \in StartsWith

\* What the alerts say of the assets they are about.
AssetNames(group) ==
  ({a.asset : a \in group} \cup {a.hostname : a \in group}
     \cup UNION {ToSet(a.ips) : a \in group}) \ {None}
AssetTags(group) == UNION {a.tags : a \in group}

\* Identifiers match a role by prefix, tags only as a whole.
Touches(r, group) ==
  \/ r.asset \in AssetTags(group)
  \/ \E name \in AssetNames(group) : Matches(name, r.asset)

Weights(missions, now, group) ==
  UNION {{(r.weight * UrgencyMultiplier(m) + 50) \div 100 :
            r \in {x \in m.roles : Touches(x, group)}} : m \in ActiveMissions(missions, now)}

\* Mutant: a weight below one dampens, as the field's description has it.
MissionImpactDamped(missions, now, group) ==
  LET weights == Weights(missions, now, group)
  IN IF weights = {} THEN 1000 ELSE Min({3000, Max(weights)})

\* get_mission_impact.
MissionImpact(missions, now, group) ==
  Min({3000, Max({1000} \cup Weights(missions, now, group))})

\* get_degraded_mission_names: here a tag matches by prefix too.
DegradedMissions(missions, now, group) ==
  LET worst == Max({a.criticality : a \in group})
  IN {m.name : m \in {n \in ActiveMissions(missions, now) :
        \E r \in n.roles, name \in AssetNames(group) \cup AssetTags(group) :
          Matches(name, r.asset) /\ worst * r.weight >= 100 * r.threshold}}
=============================================================================
