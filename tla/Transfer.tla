-------------------------------- MODULE Transfer --------------------------------
(***************************************************************************)
(* What leaves the system: threats exported to partners, over a link that  *)
(* comes and goes (DisconnectedModeManager), and alerts carried to another *)
(* security domain on a medium that may alter them (CrossDomainGuard,      *)
(* AirGappedExportWriter, AirGappedImportReader of                         *)
(* transfer/cross_domain.py).  No component of src/ calls these classes    *)
(* yet; the callers are those their documentation describes, in threads of *)
(* their own, since nothing here takes a lock.  They label a threat with   *)
(* the marking of its report, queue what they export while disconnected,   *)
(* flush once the link is back, and ask the guard before they write.       *)
(*                                                                         *)
(* The code behind each action:                                            *)
(*   Share                          export_threat, queue_stix_bundle       *)
(*   Connect, Disconnect, Degrade   set_connected, and so on               *)
(*   CopyQueue, ClearQueue, Return  flush_pending                          *)
(*   Write                          check, seal and write                  *)
(*   Read                           read, verify                           *)
(***************************************************************************)
EXTENDS Intake, Sharing

CONSTANTS
  RawAlerts,      \* what the connectors may fetch
  Partners,       \* SharingPolicy.partners
  Keys,           \* transfer keys; NoKey where none was agreed
  NoKey,
  AllowHighToLow, AllowOpen, RequireSanitisation,  \* of the guard
  Flushers,       \* threads that flush the queue
  Domains,        \* bound: the security domains at hand
  ThreatSize,     \* bound: alerts of a threat
  MaxExports      \* bound: bundles exported and packages written

\* An alert has its fields, the defaults included.
ASSUME TransferAssumption == \A raw \in RawAlerts : DOMAIN raw = DOMAIN DefaultAlert

VARIABLES
  link,      \* _state
  outage,    \* _disconnected_since is set: audit_tag is not empty
  pending,   \* _pending_stix_bundles
  flush,     \* of each flusher: where it is, and the bundles it copied
  sent,      \* the bundles handed out for transmission, in order
  exported,  \* number of bundles made: their bundle_id
  raced,     \* the bundles queued or copied while some flush had copied and not cleared
  written,   \* the packages as they were sealed
  imported   \* the package accepted, if any, and the reader's key

bundleVars == <<pending, flush, sent, exported, raced>>
packageVars == <<written, imported>>
vars == <<link, outage, bundleVars, packageVars>>

Alerts == {Enrich(Normalise(raw)) : raw \in RawAlerts}

\* The clusters an export may be about.
Threats ==
  {BuildThreat(g, Significant(g), 500) : g \in {s \in SUBSET Alerts : Cardinality(s) = ThreatSize}}

NotFlushing == [at |-> "idle", bundles |-> <<>>]

Init ==
  /\ link = "CONNECTED" /\ outage = FALSE
  /\ pending = <<>> /\ sent = <<>> /\ exported = 0 /\ raced = {}
  /\ flush = [f \in Flushers |-> NotFlushing]
  /\ written = {} /\ imported = {}

-----------------------------------------------------------------------------
\* The label of a threat, for all its parts.  TLP 2.0 calls WHITE clear.
Label(t, caveats) ==
  LET tlp == DetermineTlp(t)
  IN [tlp |-> IF tlp = "TLP:WHITE" THEN "TLP:CLEAR" ELSE tlp, level |-> "OFFICIAL",
      caveats |-> caveats, releasable |-> {"GBR"}]

Copied == {f \in Flushers : flush[f].at = "copied"}

Share(t, partner, caveats) ==
  /\ exported + Cardinality(written) < MaxExports
  /\ \E bundle \in ExportThreat(t, t.shared, partner, Label(t, caveats)) :
       LET made == [id |-> exported, bundle |-> bundle, alerts |-> t.alerts, to |-> partner]
       IN IF link = "DISCONNECTED"
          THEN /\ pending' = Append(pending, made)
               /\ raced' = IF Copied = {} THEN raced ELSE raced \cup {exported}
               /\ UNCHANGED sent
          ELSE sent' = Append(sent, made) /\ UNCHANGED <<pending, raced>>
  /\ exported' = exported + 1
  /\ UNCHANGED <<link, outage, flush, packageVars>>

Connect ==
  /\ link' = "CONNECTED" /\ outage' = FALSE
  /\ UNCHANGED <<bundleVars, packageVars>>

Disconnect ==
  /\ link # "DISCONNECTED"
  /\ link' = "DISCONNECTED" /\ outage' = TRUE
  /\ UNCHANGED <<bundleVars, packageVars>>

\* The beginning of an outage is kept.
Degrade ==
  /\ link' = "DEGRADED"
  /\ UNCHANGED <<outage, bundleVars, packageVars>>

\* flush_pending up to list().
CopyQueue(f) ==
  /\ link = "CONNECTED" /\ pending # <<>>
  /\ flush[f].at = "idle"
  /\ flush' = [flush EXCEPT ![f] = [at |-> "copied", bundles |-> pending]]
  /\ raced' = IF Copied = {} THEN raced ELSE raced \cup {pending[i].id : i \in DOMAIN pending}
  /\ UNCHANGED <<link, outage, pending, sent, exported, packageVars>>

\* Mutant: the queue is not cleared.
KeepQueue(f) ==
  /\ flush[f].at = "copied"
  /\ flush' = [flush EXCEPT ![f].at = "cleared"]
  /\ UNCHANGED <<link, outage, pending, sent, exported, raced, packageVars>>

\* clear() takes what was queued since as well.
ClearQueue(f) ==
  /\ flush[f].at = "copied"
  /\ flush' = [flush EXCEPT ![f].at = "cleared"]
  /\ pending' = <<>>
  /\ UNCHANGED <<link, outage, sent, exported, raced, packageVars>>

Return(f) ==
  /\ flush[f].at = "cleared"
  /\ sent' = sent \o flush[f].bundles
  /\ flush' = [flush EXCEPT ![f] = NotFlushing]
  /\ UNCHANGED <<link, outage, pending, exported, raced, packageVars>>

-----------------------------------------------------------------------------
\* SecurityDomain, in ascending order.
DomainOrder == <<"OPEN", "LOW", "MEDIUM", "HIGH", "TOP", "AIR_GAPPED">>
Above(a, b) == IndexIn(DomainOrder, a) > IndexIn(DomainOrder, b)

\* CrossDomainGuard.check.
Permitted(source, target, sanitised) ==
  /\ source = "OPEN" => AllowOpen
  /\ Above(source, target) => AllowHighToLow /\ (RequireSanitisation => sanitised)

\* The digests of a package are of its records only.  A digest stands for what
\* it is taken of; {} is one that is damaged or missing.
Sealed(source, target, records, key) ==
  [source |-> source, target |-> target, records |-> records, checksum |-> {records},
   signature |-> IF key = NoKey THEN {} ELSE {<<key, records>>}]

\* Mutant: with a key, the signature is all that is compared, and only if there is one.
VerifySignatureOnly(p, key) ==
  IF key = NoKey THEN p.checksum = {p.records}
  ELSE \A s \in p.signature : s = <<key, p.records>>

Verify(p, key) ==
  /\ p.checksum = {p.records}
  /\ key # NoKey => p.signature = {<<key, p.records>>}

\* The caller sanitises with sanitise_alert, for a partner of the other side,
\* and tells the guard whether it did.
Write(source, target, partner, sanitised, key) ==
  LET records == IF sanitised THEN UNION {SanitiseAlert(a, partner) : a \in Alerts} ELSE Alerts
  IN /\ exported + Cardinality(written) < MaxExports
     /\ Permitted(source, target, sanitised)
     /\ written' = written \cup {Sealed(source, target, records, key)}
     /\ UNCHANGED <<link, outage, bundleVars, imported>>

\* What the medium may make of a package, any number of its fields together: a
\* record is missing or others are added, the checksum is none, another
\* package's or taken anew, the domain is misread.  A signature is one that was
\* made, since making one takes its key.
Contents(p) ==
  {p.records} \cup {p.records \ {r} : r \in p.records} \cup {p.records \cup w.records : w \in written}
Checksums(records) == {{}, {records}} \cup {w.checksum : w \in written}
Signatures == {{}} \cup {w.signature : w \in written}

\* expected is {} if the reader takes packages of any domain.  One is read in a
\* behaviour, since reading leaves no trace that another reading could meet.
Read(p, key, expected) ==
  /\ imported = {}
  /\ Verify(p, key)
  /\ expected # {} => p.source \in expected
  /\ imported' = {[package |-> p, key |-> key]}
  /\ UNCHANGED <<link, outage, bundleVars, written>>

Next ==
  \/ \E t \in Threats, partner \in Partners, caveats \in {{}, {"NOFORN"}, {"REL TO"}} :
       Share(t, partner, caveats)
  \/ Connect \/ Disconnect \/ Degrade
  \/ \E f \in Flushers : CopyQueue(f) \/ ClearQueue(f) \/ Return(f)
  \/ \E source, target \in Domains, partner \in Partners, sanitised \in BOOLEAN,
        key \in Keys \cup {NoKey} :
       Write(source, target, partner, sanitised, key)
  \/ \E p \in written, key \in Keys \cup {NoKey} :
       \E source \in {p.source, "HIGH"}, records \in Contents(p), signature \in Signatures,
          expected \in {{}, {"HIGH"}} :
         \E checksum \in Checksums(records) :
           Read([source |-> source, target |-> p.target, records |-> records,
                 checksum |-> checksum, signature |-> signature], key, expected)

Spec == Init /\ [][Next]_vars

-----------------------------------------------------------------------------
(* The bundles that wait, are in the hands of a flush, or were handed out,   *)
(* each at its place.                                                        *)
Places ==
  {<<"sent", i, sent[i]>> : i \in DOMAIN sent}
  \cup {<<"queue", i, pending[i]>> : i \in DOMAIN pending}
  \cup UNION {{<<"flush", <<f, i>>, flush[f].bundles[i]>> : i \in DOMAIN flush[f].bundles} :
                f \in {g \in Flushers : flush[g].at = "cleared"}}

(* In whatever order outages, exports and flushes come, every bundle is      *)
(* handed out once or still waits, unless flush_pending met another thread:  *)
(* a bundle that is queued between its copy and its clear is lost, and one   *)
(* that two threads copied goes out twice (cross_domain.py:381-392).  And    *)
(* none made of an alert of a sensitive source is for a partner that may not *)
(* have TLP:RED: the marking set on intake holds through clustering, report, *)
(* label and queue (enricher.py:158-176, bluf_generator.py:457-472,          *)
(* handler.py:164-192).  It is the marking alone that holds it back:         *)
(* export_threat does not look at blocked_source_types.                      *)
ReleasedOnceWithinMarking ==
  /\ \A n \in (0 .. exported - 1) \ raced : \E x \in Places : {y \in Places : y[3].id = n} = {x}
  /\ \A x \in Places :
       (\E a \in x[3].alerts : a.sourceType \in SensitiveSources)
         => "TLP:RED" \in x[3].to.tlp

\* The fields in which the file q is not the package w.
AlteredIn(q, w) == {field \in DOMAIN w : q[field] # w[field]}

(* A reader with a key accepts only records that were sealed together under  *)
(* that key, whatever the medium did to the file.  One without a key has the *)
(* checksum, which shows that one field was altered; not that records and    *)
(* checksum were altered together.  A package that went down to a lower      *)
(* domain has no record of a protected source, and none names its source     *)
(* (cross_domain.py:102-146, 194-233, 303-330, handler.py:228-274).          *)
ImportedAsSealed ==
  LET down(w) == Above(w.source, w.target) =>
        \A r \in w.records : r.sourceType \notin ProtectedSources /\ r.source = Anonymous
  IN \A i \in imported :
       /\ i.key # NoKey =>
            \E w \in written : /\ i.package.records = w.records /\ down(w)
                               /\ w.signature = {<<i.key, w.records>>}
       /\ \A w \in written : \A field \in DOMAIN w :
            AlteredIn(i.package, w) \subseteq {field} => i.package.records = w.records /\ down(w)
=============================================================================
