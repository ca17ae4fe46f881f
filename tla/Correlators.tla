------------------------------ MODULE Correlators ------------------------------
(***************************************************************************)
(* The four correlators: the links they find between the alerts of a       *)
(* batch.  A link is [pair, method, confidence]; pairs are unordered, as   *)
(* the code makes them by min and max.  Confidences are in thousandths.    *)
(***************************************************************************)
EXTENDS Alerts

CONSTANTS
  Window,          \* temporal_window_seconds, in minutes
  TechniqueNumber  \* the number in a technique's name

Pairs(batch) == {p \in SUBSET batch : Cardinality(p) = 2}
Both(p, Condition(_, _)) == \E a, b \in p : a # b /\ Condition(a, b)

\* IOC_SPECIFICITY; a type it does not list has a half, addresses of IPv6 too.
Specificity(o) ==
  CASE o.type = "file:hashes" -> 1000
    [] o.type = "vulnerability" -> 900
    [] o.type = "url" -> 850
    [] o.type \in {"email-addr", "asset-id"} -> 800
    [] o.type = "user-account" -> 750
    [] o.type \in {"windows-registry-key", "tool"} -> 700
    [] o.type = "process" -> 650
    [] o.type = "domain-name" -> 600
    [] o.type = "network-traffic" -> 550
    [] o.type = "ipv4-addr" -> 400
    [] OTHER -> 500

WeakIocTypes == {"ipv4-addr", "domain-name"}

Shared(p) == {o \in UNION {a.observables : a \in p} : \A a \in p : o \in a.observables}

\* IOCCorrelator: addresses and domains alone are no link.
IocLinks(batch) ==
  {[pair |-> p, method |-> "IOC_MATCH",
    confidence |-> Min({1000, Max({Specificity(o) : o \in Shared(p)})
                              + Min({150, 50 * (Cardinality(Shared(p)) - 1)})})] :
     p \in {q \in Pairs(batch) : \E o \in Shared(q) : o.type \notin WeakIocTypes}}

Distance(p) == Max({a.time : a \in p}) - Min({a.time : a \in p})
SameSource(p) == \A a, b \in p : a.sourceType = b.sourceType /\ a.source = b.source

\* TemporalCorrelator: the closer, the stronger.
TemporalLinks(batch) ==
  {[pair |-> p, method |-> "TEMPORAL",
    confidence |-> (IF SameSource(p) THEN 150 ELSE 350)
                   + (100 * (Window - Distance(p))) \div Window] :
     p \in {q \in Pairs(batch) : Distance(q) <= Window}}

Agree(p, Field(_)) == \E v \in {Field(a) : a \in p} : v # None /\ \A a \in p : Field(a) = v
ShareIp(p) == \E ip \in UNION {ToSet(a.ips) : a \in p} : \A a \in p : ip \in ToSet(a.ips)

\* AssetCorrelator: the best dimension the two assets share.
AssetConfidences(p) ==
  (IF Agree(p, LAMBDA a : a.asset) THEN {750} ELSE {})
  \cup (IF Agree(p, LAMBDA a : a.hostname) THEN {700} ELSE {})
  \cup (IF ShareIp(p) THEN {550} ELSE {})
  \cup (IF Agree(p, LAMBDA a : a.segment) THEN {350} ELSE {})

AssetLinks(batch) ==
  {[pair |-> p, method |-> "ASSET_OVERLAP",
    confidence |-> Min({1000, Max(AssetConfidences(p))
                              + (150 * Max({a.criticality : a \in p})) \div 100})] :
     p \in {q \in Pairs(batch) : AssetConfidences(q) # {}}}

SharedTechniques(p) ==
  {t \in UNION {a.techniques : a \in p} : \A a \in p : t \in a.techniques}

\* estimate_phase: the first of the ranges a number is in, counted from 0, or
\* -1; they overlap.
PhaseRanges ==
  <<1580 .. 1600, 1583 .. 1588, 1189 .. 1200, 1059 .. 1106, 1053 .. 1078, 1134 .. 1574,
    1006 .. 1140, 1003 .. 1558, 1007 .. 1120, 1021 .. 1080, 1005 .. 1602, 1071 .. 1572,
    1020 .. 1567, 1485 .. 1570>>
EstimatePhase(t) ==
  LET in == {i \in DOMAIN PhaseRanges : TechniqueNumber[t] \in PhaseRanges[i]}
  IN IF in = {} THEN -1 ELSE Min(in) - 1

Phases(a) == {EstimatePhase(t) : t \in a.techniques} \ {-1}

\* _check_kill_chain_progression.
Adjacent(a, b) == \E pa \in Phases(a), pb \in Phases(b) : pa - pb \in {-1, 1}

\* BehaviourCorrelator._compare: the best of the campaign or the actor, the
\* techniques, and, with none in common, phases next to each other.
BehaviourConfidences(p) ==
  (IF Agree(p, LAMBDA a : a.campaign) THEN {900}
   ELSE IF Agree(p, LAMBDA a : a.actor) THEN {850} ELSE {})
  \cup (IF SharedTechniques(p) # {}
        THEN {Min({1000, 700 + Min({150, 70 * (Cardinality(SharedTechniques(p)) - 1)})})}
        ELSE IF Both(p, Adjacent) THEN {500} ELSE {})

BehaviourLinks(batch) ==
  {[pair |-> p, method |-> "BEHAVIOUR", confidence |-> Max(BehaviourConfidences(p))] :
     p \in {q \in Pairs(batch) : BehaviourConfidences(q) # {}}}

Links(batch) ==
  IocLinks(batch) \cup TemporalLinks(batch) \cup AssetLinks(batch) \cup BehaviourLinks(batch)
=============================================================================
