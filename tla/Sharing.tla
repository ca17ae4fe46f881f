-------------------------------- MODULE Sharing --------------------------------
(***************************************************************************)
(* classification/handler.py: what of an alert or a threat may be shared   *)
(* with a partner, and in what form.                                       *)
(***************************************************************************)
EXTENDS Bluf

CONSTANTS
  ProtectSources,   \* SharingPolicy.sources_methods_protection
  BlockedSources,   \* SharingPolicy.blocked_source_types
  RedactAddresses,  \* SharingPolicy.redact_ip_addresses
  RedactHostnames   \* SharingPolicy.redact_hostnames

\* ClassificationLevel, in ascending order, and TLP 2.0.
Levels == <<"UNCLASSIFIED", "OFFICIAL", "OFFICIAL-SENSITIVE", "SECRET", "TOP SECRET",
            "TOP SECRET//SCI">>
TlpLevels == <<"TLP:CLEAR", "TLP:GREEN", "TLP:AMBER", "TLP:AMBER+STRICT", "TLP:RED">>

\* is_shareable_with: the partner must be allowed the very marking.
IsShareable(label, partner) ==
  /\ label.tlp \in partner.tlp
  /\ IndexIn(Levels, label.level) <= IndexIn(Levels, partner.level)
  /\ "NOFORN" \notin label.caveats
  /\ ("REL TO" \in label.caveats /\ label.releasable # {})
       => partner.nations \cap label.releasable # {}

\* _tlp_permitted: for an alert, below the highest; an unknown marking is GREEN.
TlpPermitted(tlp, partner) ==
  LET place(x) == IF x \in ToSet(TlpLevels) THEN IndexIn(TlpLevels, x) ELSE 2
      highest == IF partner.tlp = {} THEN 2 ELSE Max({place(x) : x \in partner.tlp})
  IN place(tlp) <= highest

ProtectedSources == {"HUMINT", "SIGINT"}
Redacted == "REDACTED"
Anonymous == "ANON"

\* Only of the protected sources does the policy block any.
Blocked(a) ==
  a.sourceType \in ProtectedSources /\ (ProtectSources \/ a.sourceType \in BlockedSources)

\* sanitise_alert: nothing of a blocked source or above the partner's
\* marking; sources are made anonymous, addresses redacted.
SanitiseAlert(a, partner) ==
  IF Blocked(a) \/ ~TlpPermitted(a.tlp, partner) THEN {}
  ELSE {[a EXCEPT !.source = IF ProtectSources THEN Anonymous ELSE @,
                  !.ips = IF RedactAddresses \/ partner.sanitise
                          THEN [i \in DOMAIN @ |-> Redacted] ELSE @,
                  !.hostname = IF RedactHostnames /\ @ # None THEN Redacted ELSE @]}

\* sanitise_threat: the audit trail goes, the evidence becomes anonymous.
SanitiseThreat(t) ==
  [t EXCEPT !.evidence = {[e EXCEPT !.source = IF ProtectSources THEN Anonymous ELSE @] : e \in @}]

PatternTypes ==
  {"ipv4-addr", "ipv6-addr", "domain-name", "url", "file:hashes", "email-addr"}

\* The first n of a list whose order does not matter here: any n of its set.
FirstOf(n, S) == kSubset(Min({n, Cardinality(S)}), S)

\* export_threat from sanitise_threat on: at most 10 techniques, and at most 20
\* of the observables, which the caller names; of those the ones without a value,
\* or with a redacted one, are passed over.
Bundles(t, observables, partner, label) ==
  LET safe == SanitiseThreat(t)
      shown(some) == {o \in some : o.type \in PatternTypes /\ o.value \notin {None, Redacted}}
  IN {[partner |-> partner.name, tlp |-> label.tlp, patterns |-> techniques,
       indicators |-> shown(some), actors |-> IF ProtectSources THEN {} ELSE safe.actors] :
        techniques \in FirstOf(10, safe.techniques), some \in FirstOf(20, observables)}

\* export_threat: the STIX bundle for a partner, if the label permits one.  The
\* source types of the threat, which BlockedSources is about, are not asked for.
ExportThreat(t, observables, partner, label) ==
  IF IsShareable(label, partner) THEN Bundles(t, observables, partner, label) ELSE {}
=============================================================================
