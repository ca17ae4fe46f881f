--------------------------------- MODULE Intake ---------------------------------
(***************************************************************************)
(* What happens to an alert between its connector and the repositories:    *)
(* AlertNormaliser.normalise and AlertEnricher.enrich.                     *)
(***************************************************************************)
EXTENDS Alerts

CONSTANTS
  PrivateIps,    \* the addresses of private networks
  AssetRegistry  \* what the registry knows of an address

\* The observables a description mentions, unless the alert has the value.
Normalise(a) ==
  LET known == {o.value : o \in a.observables}
      found == {o \in a.mentions :
                  /\ o.value \notin known
                  /\ ~(o.type = "ipv4-addr" /\ o.value \in PrivateIps)}
  IN [a EXCEPT !.observables = @ \cup found]

\* The registry is asked for the addresses of the asset in their order; what
\* it does not say is kept.
RegisteredIps(a) == {i \in DOMAIN a.ips : a.ips[i] \in DOMAIN AssetRegistry}
ObservedIps(a) ==
  {o.value : o \in {p \in a.observables : p.type = "ipv4-addr"}} \cap DOMAIN AssetRegistry

OfRegistry(a, entry) ==
  [f \in DOMAIN a |-> IF f \in DOMAIN entry THEN entry[f] ELSE a[f]]

\* An address that is only observed replaces the whole context.
EnrichAsset(a) ==
  IF RegisteredIps(a) # {} THEN OfRegistry(a, AssetRegistry[a.ips[Min(RegisteredIps(a))]])
  ELSE IF ObservedIps(a) # {}
  THEN LET ip == CHOOSE i \in ObservedIps(a) : TRUE
           blank == [a EXCEPT !.asset = None, !.hostname = None, !.ips = <<ip>>,
                              !.segment = None, !.criticality = 50, !.tags = {}]
       IN OfRegistry(blank, AssetRegistry[ip])
  ELSE a

\* A stub: any public address is located.
ResolveGeo(a) ==
  [a EXCEPT !.geo = @ \/ \E o \in a.observables : o.type = "ipv4-addr" /\ o.value \notin PrivateIps]

SensitiveSources == {"HUMINT", "SIGINT", "SATELLITE_ISR"}
FeedSources == {"STIX_TAXII", "COMMERCIAL_FEED"}

\* Mutant: a marking the source gave is kept, the sensitive sources' too.
AssignTlpKeeping(a) ==
  [a EXCEPT !.tlp = IF a.sourceType \in FeedSources THEN "TLP:AMBER" ELSE @]

AssignTlp(a) ==
  [a EXCEPT !.tlp = IF a.sourceType \in SensitiveSources THEN "TLP:RED"
                    ELSE IF a.sourceType \in FeedSources THEN "TLP:AMBER" ELSE @]

Enrich(a) == AssignTlp(ResolveGeo(EnrichAsset(a)))
=============================================================================
