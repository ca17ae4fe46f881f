---------------------------- MODULE Transfer_proofs ----------------------------
(***************************************************************************)
(* Proofs about Transfer: each bundle is released once and within the      *)
(* marking of its sources, and a package that is accepted is one that was  *)
(* sealed.                                                                 *)
(***************************************************************************)
EXTENDS Transfer, FiniteSetTheorems, TLAPS

Fields == DOMAIN DefaultAlert

-----------------------------------------------------------------------------
(* The marking, from intake to the label *)

\* Intake changes fields of an alert, and neither adds nor removes one.
LEMMA IntakeKeepsFields ==
  ASSUME NEW a \in Alerts
  PROVE  DOMAIN a = Fields
<1>1. PICK raw \in RawAlerts : a = Enrich(Normalise(raw))
    BY DEF Alerts
<1> DEFINE n == Normalise(raw)
<1>2. DOMAIN n = Fields
    BY TransferAssumption DEF Normalise, Fields
<1>3. DOMAIN EnrichAsset(n) = Fields
    BY <1>2 DEF EnrichAsset, OfRegistry
<1>4. DOMAIN ResolveGeo(EnrichAsset(n)) = Fields
    BY <1>3 DEF ResolveGeo
<1> QED  BY <1>1, <1>4 DEF Enrich, AssignTlp

\* What comes of a sensitive source leaves intake marked TLP:RED.
LEMMA SensitiveIsRed ==
  ASSUME NEW a \in Alerts, a.sourceType \in SensitiveSources
  PROVE  a.tlp = "TLP:RED"
<1>1. PICK raw \in RawAlerts : a = Enrich(Normalise(raw))
    BY DEF Alerts
<1> DEFINE b == ResolveGeo(EnrichAsset(Normalise(raw)))
<1>2. a = AssignTlp(b)
    BY <1>1 DEF Enrich
<1>3. DOMAIN b = Fields
    BY <1>2, IntakeKeepsFields DEF AssignTlp
<1>4. "tlp" \in DOMAIN b /\ "sourceType" \in DOMAIN b
    BY <1>3 DEF Fields, DefaultAlert
<1>5. a.sourceType = b.sourceType
    BY <1>2, <1>4 DEF AssignTlp
<1> QED  BY <1>2, <1>4, <1>5 DEF AssignTlp

\* One alert marked TLP:RED marks its threat so.
LEMMA RedPrevails ==
  ASSUME NEW t, NEW a \in t.alerts, a.tlp = "TLP:RED"
  PROVE  DetermineTlp(t) = "TLP:RED"
<1> DEFINE listed == {b.tlp : b \in t.alerts} \cap ToSet(TlpOrder)
           places == {IndexIn(TlpOrder, x) : x \in listed}
<1>1. DOMAIN TlpOrder = 1 .. 4 /\ TlpOrder[1] = "TLP:RED"
    BY DEF TlpOrder
<1>2. "TLP:RED" \in listed
    BY <1>1 DEF ToSet
<1>3. \A x \in listed : IndexIn(TlpOrder, x) \in 1 .. 4
    BY <1>1 DEF ToSet, IndexIn
<1>4. IndexIn(TlpOrder, "TLP:RED") = 1
    BY <1>1 DEF IndexIn, TlpOrder
<1>5. 1 \in places /\ \A i \in places : i \in 1 .. 4
    BY <1>2, <1>3, <1>4
<1>6. Min(places) = 1
    BY <1>5 DEF Min
<1> QED  BY <1>1, <1>2, <1>6 DEF DetermineTlp

\* A threat's label carries the marking, and sharing asks for it.
LEMMA LabelKeepsRed ==
  ASSUME NEW t \in Threats, NEW partner \in Partners, NEW caveats,
         NEW bundle \in ExportThreat(t, t.shared, partner, Label(t, caveats)),
         NEW a \in t.alerts, a.sourceType \in SensitiveSources
  PROVE  "TLP:RED" \in partner.tlp
<1>1. t.alerts \subseteq Alerts
  <2>1. PICK g \in SUBSET Alerts : t = BuildThreat(g, Significant(g), 500)
      BY DEF Threats
  <2>2. t.alerts = g
      BY <2>1 DEF BuildThreat
  <2> QED  BY <2>2
<1>2. DetermineTlp(t) = "TLP:RED"
    BY <1>1, SensitiveIsRed, RedPrevails
<1>3. Label(t, caveats).tlp = "TLP:RED"
    BY <1>2 DEF Label
<1>4. IsShareable(Label(t, caveats), partner)
    BY DEF ExportThreat
<1> QED  BY <1>3, <1>4 DEF IsShareable

-----------------------------------------------------------------------------
(* Partners *)

Caveats == {{}, {"NOFORN"}, {"REL TO"}}

\* What Share makes.
Made(m) ==
  \E t \in Threats, partner \in Partners, caveats \in Caveats :
    \E bundle \in ExportThreat(t, t.shared, partner, Label(t, caveats)) :
      m.bundle = bundle /\ m.alerts = t.alerts /\ m.to = partner

\* Where the bundle with number n is.
Place(n) == {y \in Places : y[3].id = n}
Once(n) == \E x : Place(n) = {x}

\* The bundles in s exist, and are within the marking of their sources.
Known(s) == \A i \in DOMAIN s : s[i].id \in 0 .. exported - 1 /\ Made(s[i])

\* What a copy b and the queue have in common, but for the bundles that raced.
SameAsQueue(b) ==
  /\ \A i \in DOMAIN b : b[i].id \notin raced => i \in DOMAIN pending /\ pending[i] = b[i]
  /\ \A i \in DOMAIN pending : pending[i].id \notin raced => i \in DOMAIN b /\ b[i] = pending[i]

FlushState(S) == [at : {"idle", "copied", "cleared"}, bundles : Seq(S)]

ReleaseType ==
  /\ exported \in Nat
  /\ \E S : sent \in Seq(S) /\ pending \in Seq(S) /\ flush \in [Flushers -> FlushState(S)]

ReleaseInv ==
  /\ ReleaseType
  /\ Known(sent) /\ Known(pending) /\ \A f \in Flushers : Known(flush[f].bundles)
  /\ \A f \in Copied : SameAsQueue(flush[f].bundles)
  /\ \A f, g \in Copied : f # g => \A i \in DOMAIN pending : pending[i].id \in raced
  /\ \A n \in (0 .. exported - 1) \ raced : Once(n)

\* The places, one kind at a time.
LEMMA PlaceKinds ==
  \A y : y \in Places <=>
    \/ \E i \in DOMAIN sent : y = <<"sent", i, sent[i]>>
    \/ \E i \in DOMAIN pending : y = <<"queue", i, pending[i]>>
    \/ \E f \in Flushers : /\ flush[f].at = "cleared"
                            /\ \E i \in DOMAIN flush[f].bundles :
                                 y = <<"flush", <<f, i>>, flush[f].bundles[i]>>
  BY DEF Places

\* What is known stays known while bundles are made.
LEMMA KnownGrows ==
  ASSUME NEW s, Known(s), exported \in Nat, exported' \in Nat, exported <= exported'
  PROVE  \A i \in DOMAIN s : s[i].id \in 0 .. exported' - 1 /\ Made(s[i])
<1>1. \A m, n \in Nat : m <= n => \A k \in 0 .. m - 1 : k \in 0 .. n - 1
    OBVIOUS
<1>2. \A k \in 0 .. exported - 1 : k \in 0 .. exported' - 1
    BY <1>1
<1> QED  BY <1>2 DEF Known

\* Nothing is exported at first.
LEMMA ReleaseInit == Init => ReleaseInv
<1> SUFFICES ASSUME Init PROVE ReleaseInv
    OBVIOUS
<1>1. /\ sent = <<>> /\ pending = <<>> /\ exported = 0 /\ raced = {}
      /\ flush = [f \in Flushers |-> NotFlushing]
    BY DEF Init
<1>2. /\ sent \in Seq({}) /\ pending \in Seq({}) /\ flush \in [Flushers -> FlushState({})]
      /\ \A f \in Flushers : flush[f].bundles = <<>> /\ flush[f].at = "idle"
    BY <1>1 DEF NotFlushing, FlushState
<1>3. ReleaseType
    BY <1>1, <1>2 DEF ReleaseType
<1>4. Known(<<>>) /\ Copied = {} /\ 0 .. exported - 1 = {}
    BY <1>1, <1>2 DEF Known, Copied
<1> QED  BY <1>1, <1>2, <1>3, <1>4 DEF ReleaseInv

\* The same after a step.
LEMMA PlaceKindsNext ==
  \A y : y \in Places' <=>
    \/ \E i \in DOMAIN sent' : y = <<"sent", i, sent'[i]>>
    \/ \E i \in DOMAIN pending' : y = <<"queue", i, pending'[i]>>
    \/ \E f \in Flushers : /\ flush'[f].at = "cleared"
                            /\ \E i \in DOMAIN flush'[f].bundles :
                                 y = <<"flush", <<f, i>>, flush'[f].bundles[i]>>
  BY DEF Places

\* What is in a place was made.
LEMMA PlacesKnown ==
  ASSUME ReleaseInv, NEW y \in Places
  PROVE  y[3].id \in 0 .. exported - 1 /\ Made(y[3])
<1>1. CASE \E i \in DOMAIN sent : y = <<"sent", i, sent[i]>>
    BY <1>1 DEF ReleaseInv, Known
<1>2. CASE \E i \in DOMAIN pending : y = <<"queue", i, pending[i]>>
    BY <1>2 DEF ReleaseInv, Known
<1>3. ASSUME NEW f \in Flushers, NEW i \in DOMAIN flush[f].bundles,
             y = <<"flush", <<f, i>>, flush[f].bundles[i]>>
      PROVE  y[3].id \in 0 .. exported - 1 /\ Made(y[3])
  <2>1. Known(flush[f].bundles)
      BY DEF ReleaseInv
  <2> QED  BY <1>3, <2>1 DEF Known
<1> QED  BY <1>1, <1>2, <1>3, PlaceKinds

\* A new bundle at a new place leaves the others where they are.
LEMMA NewPlace ==
  ASSUME ReleaseInv, NEW z, Places' = Places \cup {z}, z[3].id = exported,
         exported' = exported + 1, raced \subseteq raced'
  PROVE  \A n \in (0 .. exported' - 1) \ raced' : Once(n)'
<1> SUFFICES ASSUME NEW n \in (0 .. exported' - 1) \ raced' PROVE Once(n)'
    OBVIOUS
<1>1. exported \in Nat
    BY DEF ReleaseInv, ReleaseType
<1>2. CASE n = exported
  <2>1. \A y \in Places : y[3].id # n
      BY <1>1, <1>2, PlacesKnown
  <2>2. Place(n)' = {z}
      BY <1>2, <2>1 DEF Place
  <2> QED  BY <2>2 DEF Once
<1>3. CASE n # exported
  <2>1. n \in (0 .. exported - 1) \ raced
      BY <1>1, <1>3
  <2>2. Place(n)' = Place(n)
      BY <1>3 DEF Place
  <2> QED  BY <2>1, <2>2 DEF ReleaseInv, Once
<1> QED  BY <1>2, <1>3

\* An export takes the next number, and is handed out or goes to the queue.
LEMMA ReleaseShare ==
  ASSUME ReleaseInv, NEW t \in Threats, NEW partner \in Partners, NEW caveats \in Caveats,
         Share(t, partner, caveats)
  PROVE  ReleaseInv'
<1>1. PICK bundle \in ExportThreat(t, t.shared, partner, Label(t, caveats)) :
        LET made == [id |-> exported, bundle |-> bundle, alerts |-> t.alerts, to |-> partner]
        IN IF link = "DISCONNECTED"
           THEN /\ pending' = Append(pending, made)
                /\ raced' = IF Copied = {} THEN raced ELSE raced \cup {exported}
                /\ UNCHANGED sent
           ELSE sent' = Append(sent, made) /\ UNCHANGED <<pending, raced>>
    BY DEF Share
<1> DEFINE made == [id |-> exported, bundle |-> bundle, alerts |-> t.alerts, to |-> partner]
<1>2. made.id = exported /\ Made(made)
    BY DEF Made
<1>3. exported \in Nat /\ exported' = exported + 1 /\ flush' = flush /\ exported' \in Nat
    BY DEF Share, ReleaseInv, ReleaseType
<1>4. PICK S : sent \in Seq(S) /\ pending \in Seq(S) /\ flush \in [Flushers -> FlushState(S)]
    BY DEF ReleaseInv, ReleaseType
<1> DEFINE T == S \cup {made}
<1>5. sent \in Seq(T) /\ pending \in Seq(T) /\ made \in T
    BY <1>4
<1>6. flush \in [Flushers -> FlushState(T)]
  <2>1. \A s \in Seq(S) : s \in Seq(T)
      OBVIOUS
  <2> HIDE DEF T
  <2> QED  BY <1>4, <2>1 DEF FlushState
<1> HIDE DEF made, T
<1>7. \A s : Known(s) => Known(s)'
  <2> SUFFICES ASSUME NEW s, Known(s) PROVE Known(s)'
      OBVIOUS
  <2>1. exported <= exported'
      BY <1>3
  <2> QED  BY <2>1, <1>3, KnownGrows DEF Known
<1>8. /\ \A f \in Flushers : Known(flush[f].bundles)'
      /\ Copied' = Copied
  <2>1. \A f \in Flushers : Known(flush[f].bundles)
      BY DEF ReleaseInv
  <2> QED  BY <1>3, <1>7, <2>1 DEF Copied
<1>9. made.id \in 0 .. exported' - 1
    BY <1>2, <1>3
<1>10. CASE link = "DISCONNECTED"
  <2>1. /\ pending' = Append(pending, made) /\ sent' = sent
        /\ raced' = IF Copied = {} THEN raced ELSE raced \cup {exported}
      BY <1>1, <1>10 DEF made
  <2>2. pending' \in Seq(T) /\ sent' \in Seq(T)
      BY <2>1, <1>5
  <2>3. /\ DOMAIN pending' = 1 .. Len(pending) + 1 /\ Len(pending) \in Nat
        /\ DOMAIN pending = 1 .. Len(pending)
        /\ \A i \in DOMAIN pending : pending'[i] = pending[i]
        /\ pending'[Len(pending) + 1] = made
      BY <2>1, <1>5
  <2>4. \A i \in DOMAIN pending' : i \in DOMAIN pending \/ i = Len(pending) + 1
      BY <2>3
  <2>5. Known(sent)' /\ Known(pending)'
    <3>1. Known(sent)'
        BY <1>7, <2>1 DEF ReleaseInv
    <3>2. \A i \in DOMAIN pending : pending[i].id \in 0 .. exported' - 1 /\ Made(pending[i])
      <4>1. Known(pending) /\ exported <= exported'
          BY <1>3 DEF ReleaseInv
      <4> QED  BY <4>1, <1>3, KnownGrows
    <3>3. \A i \in DOMAIN pending' : pending'[i].id \in 0 .. exported' - 1 /\ Made(pending'[i])
        BY <1>2, <1>9, <2>3, <2>4, <3>2
    <3> QED  BY <3>1, <3>3 DEF Known
  <2>6. ASSUME NEW f \in Copied PROVE SameAsQueue(flush[f].bundles)'
    <3>1. SameAsQueue(flush[f].bundles) /\ raced' = raced \cup {exported}
        BY <2>1 DEF ReleaseInv
    <3> QED  BY <1>2, <1>3, <2>3, <2>4, <3>1 DEF SameAsQueue
  <2>7. ASSUME NEW f \in Copied, NEW g \in Copied, f # g, NEW i \in DOMAIN pending'
        PROVE  pending'[i].id \in raced'
    <3>1. raced' = raced \cup {exported}
        BY <2>1
    <3> QED  BY <1>2, <2>3, <2>4, <2>7, <3>1 DEF ReleaseInv
  <2>8. \A n \in (0 .. exported' - 1) \ raced' : Once(n)'
    <3> DEFINE z == <<"queue", Len(pending) + 1, made>>
    <3>1. Places' = Places \cup {z}
      <4>1. ASSUME NEW y PROVE y \in Places' <=> y \in Places \cup {z}
        <5>1. (\E i \in DOMAIN pending' : y = <<"queue", i, pending'[i]>>)
                <=> y = z \/ \E i \in DOMAIN pending : y = <<"queue", i, pending[i]>>
            BY <2>3, <2>4
        <5> QED  BY <5>1, <2>1, <1>3, PlaceKinds, PlaceKindsNext
      <4> QED  BY <4>1
    <3>2. z[3].id = exported
        BY <1>2
    <3>3. raced \subseteq raced'
        BY <2>1
    <3> QED  BY <3>1, <3>2, <3>3, <1>3, NewPlace
  <2>9. ReleaseType'
      BY <1>3, <1>6, <2>2 DEF ReleaseType
  <2> QED  BY <1>3, <1>8, <2>5, <2>6, <2>7, <2>8, <2>9 DEF ReleaseInv
<1>11. CASE link # "DISCONNECTED"
  <2>1. sent' = Append(sent, made) /\ pending' = pending /\ raced' = raced
      BY <1>1, <1>11 DEF made
  <2>2. pending' \in Seq(T) /\ sent' \in Seq(T)
      BY <2>1, <1>5
  <2>3. /\ DOMAIN sent' = 1 .. Len(sent) + 1 /\ Len(sent) \in Nat
        /\ DOMAIN sent = 1 .. Len(sent)
        /\ \A i \in DOMAIN sent : sent'[i] = sent[i]
        /\ sent'[Len(sent) + 1] = made
      BY <2>1, <1>5
  <2>4. \A i \in DOMAIN sent' : i \in DOMAIN sent \/ i = Len(sent) + 1
      BY <2>3
  <2>5. Known(sent)' /\ Known(pending)'
    <3>1. Known(pending)'
        BY <1>7, <2>1 DEF ReleaseInv
    <3>2. \A i \in DOMAIN sent : sent[i].id \in 0 .. exported' - 1 /\ Made(sent[i])
      <4>1. Known(sent) /\ exported <= exported'
          BY <1>3 DEF ReleaseInv
      <4> QED  BY <4>1, <1>3, KnownGrows
    <3>3. \A i \in DOMAIN sent' : sent'[i].id \in 0 .. exported' - 1 /\ Made(sent'[i])
        BY <1>2, <1>9, <2>3, <2>4, <3>2
    <3> QED  BY <3>1, <3>3 DEF Known
  <2>6. ASSUME NEW f \in Copied PROVE SameAsQueue(flush[f].bundles)'
      BY <1>3, <2>1 DEF ReleaseInv, SameAsQueue
  <2>7. ASSUME NEW f \in Copied, NEW g \in Copied, f # g, NEW i \in DOMAIN pending'
        PROVE  pending'[i].id \in raced'
      BY <2>1, <2>7 DEF ReleaseInv
  <2>8. \A n \in (0 .. exported' - 1) \ raced' : Once(n)'
    <3> DEFINE z == <<"sent", Len(sent) + 1, made>>
    <3>1. Places' = Places \cup {z}
      <4>1. ASSUME NEW y PROVE y \in Places' <=> y \in Places \cup {z}
        <5>1. (\E i \in DOMAIN sent' : y = <<"sent", i, sent'[i]>>)
                <=> y = z \/ \E i \in DOMAIN sent : y = <<"sent", i, sent[i]>>
            BY <2>3, <2>4
        <5> QED  BY <5>1, <2>1, <1>3, PlaceKinds, PlaceKindsNext
      <4> QED  BY <4>1
    <3>2. z[3].id = exported
        BY <1>2
    <3> QED  BY <3>1, <3>2, <2>1, <1>3, NewPlace
  <2>9. ReleaseType'
      BY <1>3, <1>6, <2>2 DEF ReleaseType
  <2> QED  BY <1>3, <1>8, <2>1, <2>5, <2>6, <2>7, <2>8, <2>9 DEF ReleaseInv
<1> QED  BY <1>10, <1>11

\* A copy takes nothing from its place; if there is another copy, all of it raced.
LEMMA ReleaseCopy ==
  ASSUME ReleaseInv, NEW f \in Flushers, CopyQueue(f)
  PROVE  ReleaseInv'
<1>1. /\ flush' = [flush EXCEPT ![f] = [at |-> "copied", bundles |-> pending]]
      /\ raced' = IF Copied = {} THEN raced ELSE raced \cup {pending[i].id : i \in DOMAIN pending}
      /\ pending' = pending /\ sent' = sent /\ exported' = exported /\ flush[f].at = "idle"
    BY DEF CopyQueue
<1>2. PICK S : sent \in Seq(S) /\ pending \in Seq(S) /\ flush \in [Flushers -> FlushState(S)]
    BY DEF ReleaseInv, ReleaseType
<1>3. /\ flush' \in [Flushers -> FlushState(S)]
      /\ flush'[f].at = "copied" /\ flush'[f].bundles = pending
      /\ \A g \in Flushers : g # f => flush'[g] = flush[g]
    BY <1>1, <1>2 DEF FlushState
<1>4. ReleaseType'
    BY <1>1, <1>2, <1>3 DEF ReleaseType, ReleaseInv
<1>5. Known(sent)' /\ Known(pending)' /\ \A g \in Flushers : Known(flush[g].bundles)'
    BY <1>1, <1>3 DEF ReleaseInv, Known
<1>6. Copied' = Copied \cup {f} /\ f \notin Copied
    BY <1>1, <1>3 DEF Copied
<1>7. raced \subseteq raced'
    BY <1>1
<1>8. ASSUME NEW g \in Copied' PROVE SameAsQueue(flush[g].bundles)'
  <2>1. CASE g = f
      BY <2>1, <1>1, <1>3 DEF SameAsQueue
  <2>2. CASE g # f
    <3>1. SameAsQueue(flush[g].bundles) /\ flush'[g] = flush[g]
        BY <2>2, <1>3, <1>6 DEF ReleaseInv, Copied
    <3> QED  BY <3>1, <1>1, <1>7 DEF SameAsQueue
  <2> QED  BY <2>1, <2>2
<1>9. ASSUME NEW g \in Copied', NEW h \in Copied', g # h, NEW i \in DOMAIN pending'
      PROVE  pending'[i].id \in raced'
    BY <1>1, <1>6, <1>9
<1>10. Places' = Places
  <2>1. ASSUME NEW y PROVE y \in Places' <=> y \in Places
    <3>1. \A g \in Flushers : flush'[g].at = "cleared" <=> flush[g].at = "cleared"
        BY <1>1, <1>3
    <3>2. \A g \in Flushers : flush'[g].at = "cleared" => flush'[g] = flush[g]
        BY <1>3
    <3> QED  BY <1>1, <3>1, <3>2, PlaceKinds, PlaceKindsNext
  <2> QED  BY <2>1
<1>11. \A n \in (0 .. exported' - 1) \ raced' : Once(n)'
    BY <1>1, <1>7, <1>10 DEF ReleaseInv, Once, Place
<1> QED  BY <1>4, <1>5, <1>8, <1>9, <1>11 DEF ReleaseInv

\* A bundle that is somewhere else after a step is still there once.
LEMMA OnceMoves ==
  ASSUME NEW n, Once(n), NEW move,
         \A y : y \in Place(n)' <=> \E x \in Place(n) : y = move[x]
  PROVE  Once(n)'
<1>1. PICK x : Place(n) = {x}
    BY DEF Once
<1>2. Place(n)' = {move[x]}
    BY <1>1
<1> QED  BY <1>2 DEF Once

\* Clearing moves the queue to the flush, but for what raced.
LEMMA ReleaseClear ==
  ASSUME ReleaseInv, NEW f \in Flushers, ClearQueue(f)
  PROVE  ReleaseInv'
<1> DEFINE b == flush[f].bundles
<1>1. /\ flush' = [flush EXCEPT ![f].at = "cleared"] /\ pending' = <<>>
      /\ UNCHANGED <<sent, exported, raced>> /\ flush[f].at = "copied"
    BY DEF ClearQueue
<1>2. PICK S : sent \in Seq(S) /\ pending \in Seq(S) /\ flush \in [Flushers -> FlushState(S)]
    BY DEF ReleaseInv, ReleaseType
<1>3. /\ flush' \in [Flushers -> FlushState(S)]
      /\ flush'[f].at = "cleared" /\ flush'[f].bundles = b
      /\ \A g \in Flushers : g # f => flush'[g] = flush[g]
    BY <1>1, <1>2 DEF FlushState
<1>4. pending' \in Seq(S) /\ DOMAIN pending' = {}
    BY <1>1
<1>5. ReleaseType'
    BY <1>1, <1>2, <1>3, <1>4 DEF ReleaseType, ReleaseInv
<1>6. Known(sent)' /\ Known(pending)' /\ \A g \in Flushers : Known(flush[g].bundles)'
  <2>1. Known(sent)' /\ Known(pending)'
      BY <1>1, <1>4 DEF ReleaseInv, Known
  <2>2. ASSUME NEW g \in Flushers PROVE Known(flush[g].bundles)'
    <3>1. flush'[g].bundles = flush[g].bundles /\ Known(flush[g].bundles)
        BY <1>3 DEF ReleaseInv
    <3> QED  BY <3>1, <1>1 DEF Known
  <2> QED  BY <2>1, <2>2
<1>7. Copied' = Copied \ {f} /\ f \in Copied
    BY <1>1, <1>3 DEF Copied
<1>8. ASSUME NEW g \in Copied' PROVE SameAsQueue(flush[g].bundles)'
  <2>1. g # f /\ flush'[g] = flush[g] /\ g \in Copied /\ g \in Flushers
      BY <1>3, <1>7 DEF Copied
  <2>2. SameAsQueue(flush[g].bundles) /\ \A i \in DOMAIN pending : pending[i].id \in raced
      BY <1>7, <2>1 DEF ReleaseInv
  <2>3. \A i \in DOMAIN flush[g].bundles : flush[g].bundles[i].id \in raced
      BY <2>2 DEF SameAsQueue
  <2> QED  BY <1>1, <1>4, <2>1, <2>3 DEF SameAsQueue
<1>9. \A n \in (0 .. exported' - 1) \ raced' : Once(n)'
  <2> SUFFICES ASSUME NEW n \in (0 .. exported - 1) \ raced PROVE Once(n)'
      BY <1>1
  <2> DEFINE moved(x) == IF x[1] = "queue" THEN <<"flush", <<f, x[2]>>, x[3]>> ELSE x
             move == [x \in Places |-> moved(x)]
  <2>1. SameAsQueue(b)
      BY <1>7 DEF ReleaseInv
  <2>2. ASSUME NEW x \in Place(n) PROVE moved(x) \in Place(n)'
    <3>1. x \in Places /\ x[3].id = n
        BY DEF Place
    <3>2. CASE \E i \in DOMAIN sent : x = <<"sent", i, sent[i]>>
      <4>1. moved(x) = x
          BY <3>2
      <4>2. x \in Places'
          BY <3>2, <1>1, PlaceKindsNext
      <4> QED  BY <3>1, <4>1, <4>2 DEF Place
    <3>3. ASSUME NEW i \in DOMAIN pending, x = <<"queue", i, pending[i]>>
          PROVE  moved(x) \in Place(n)'
      <4>1. pending[i].id = n /\ moved(x) = <<"flush", <<f, i>>, pending[i]>>
          BY <3>1, <3>3
      <4>2. i \in DOMAIN b /\ b[i] = pending[i]
          BY <4>1, <2>1 DEF SameAsQueue
      <4>3. moved(x) \in Places'
          BY <4>1, <4>2, <1>3, PlaceKindsNext
      <4> QED  BY <4>1, <4>3 DEF Place
    <3>4. ASSUME NEW g \in Flushers, flush[g].at = "cleared", NEW i \in DOMAIN flush[g].bundles,
                 x = <<"flush", <<g, i>>, flush[g].bundles[i]>>
          PROVE  moved(x) \in Place(n)'
      <4>1. g # f /\ flush'[g] = flush[g]
          BY <3>4, <1>1, <1>3
      <4>2. moved(x) = x
          BY <3>4
      <4>3. x \in Places'
          BY <3>4, <4>1, PlaceKindsNext
      <4> QED  BY <3>1, <4>2, <4>3 DEF Place
    <3> QED  BY <3>1, <3>2, <3>3, <3>4, PlaceKinds
  <2>3. ASSUME NEW y \in Place(n)' PROVE \E x \in Place(n) : y = moved(x)
    <3>1. y \in Places' /\ y[3].id = n
        BY DEF Place
    <3>2. CASE \E i \in DOMAIN sent' : y = <<"sent", i, sent'[i]>>
      <4>1. y \in Places
          BY <3>2, <1>1, PlaceKinds
      <4>2. y = moved(y)
          BY <3>2
      <4> QED  BY <3>1, <4>1, <4>2 DEF Place
    <3>3. ASSUME NEW g \in Flushers, flush'[g].at = "cleared", g # f,
                 NEW i \in DOMAIN flush'[g].bundles,
                 y = <<"flush", <<g, i>>, flush'[g].bundles[i]>>
          PROVE  \E x \in Place(n) : y = moved(x)
      <4>1. y \in Places
          BY <3>3, <1>3, PlaceKinds
      <4>2. y = moved(y)
          BY <3>3
      <4> QED  BY <3>1, <4>1, <4>2 DEF Place
    <3>4. ASSUME NEW i \in DOMAIN b, y = <<"flush", <<f, i>>, b[i]>>
          PROVE  \E x \in Place(n) : y = moved(x)
      <4> DEFINE x == <<"queue", i, pending[i]>>
      <4>1. b[i].id = n
          BY <3>1, <3>4
      <4>2. i \in DOMAIN pending /\ pending[i] = b[i]
          BY <4>1, <2>1 DEF SameAsQueue
      <4>3. x \in Places
          BY <4>2, PlaceKinds
      <4>4. y = moved(x) /\ x[3].id = n
          BY <3>4, <4>1, <4>2
      <4> QED  BY <4>3, <4>4 DEF Place
    <3>5. ~ \E i \in DOMAIN pending' : y = <<"queue", i, pending'[i]>>
        BY <1>4
    <3> QED  BY <3>1, <3>2, <3>3, <3>4, <3>5, <1>3, PlaceKindsNext
  <2> HIDE DEF moved
  <2>4. \A x \in Place(n) : move[x] = moved(x)
      BY DEF Place
  <2> HIDE DEF move
  <2>5. \A y : y \in Place(n)' <=> \E x \in Place(n) : y = move[x]
      BY <2>2, <2>3, <2>4
  <2>6. Once(n)
      BY DEF ReleaseInv
  <2> QED  BY <2>5, <2>6, OnceMoves
<1>10. ASSUME NEW g \in Copied', NEW h \in Copied', g # h, NEW i \in DOMAIN pending'
       PROVE  pending'[i].id \in raced'
    BY <1>4
<1> QED  BY <1>5, <1>6, <1>8, <1>9, <1>10 DEF ReleaseInv

\* What a flush returns is handed out behind the rest.
LEMMA ReleaseReturn ==
  ASSUME ReleaseInv, NEW f \in Flushers, Return(f)
  PROVE  ReleaseInv'
<1> DEFINE b == flush[f].bundles
<1>1. /\ flush' = [flush EXCEPT ![f] = NotFlushing] /\ sent' = sent \o b
      /\ UNCHANGED <<pending, exported, raced>> /\ flush[f].at = "cleared"
    BY DEF Return
<1>2. PICK S : sent \in Seq(S) /\ pending \in Seq(S) /\ flush \in [Flushers -> FlushState(S)]
    BY DEF ReleaseInv, ReleaseType
<1>3. /\ flush' \in [Flushers -> FlushState(S)] /\ b \in Seq(S)
      /\ flush'[f].at = "idle" /\ flush'[f].bundles = <<>>
      /\ \A g \in Flushers : g # f => flush'[g] = flush[g]
    BY <1>1, <1>2 DEF FlushState, NotFlushing
<1> HIDE DEF b
<1>4. /\ sent' \in Seq(S) /\ Len(sent) \in Nat /\ DOMAIN sent = 1 .. Len(sent)
      /\ DOMAIN b = 1 .. Len(b) /\ Len(b) \in Nat
      /\ DOMAIN sent' = 1 .. Len(sent) + Len(b)
      /\ \A i \in DOMAIN sent : sent'[i] = sent[i]
      /\ \A i \in DOMAIN b : sent'[Len(sent) + i] = b[i]
    BY <1>1, <1>2, <1>3
<1>5. /\ \A i \in DOMAIN sent' : i \in DOMAIN sent
                                 \/ \E j \in DOMAIN b : i = Len(sent) + j
      /\ \A i \in DOMAIN sent : i \in DOMAIN sent'
      /\ \A j \in DOMAIN b : Len(sent) + j \in DOMAIN sent'
  <2>1. ASSUME NEW i \in DOMAIN sent', i \notin DOMAIN sent
        PROVE  \E j \in DOMAIN b : i = Len(sent) + j
    <3>1. i - Len(sent) \in DOMAIN b /\ i = Len(sent) + (i - Len(sent))
        BY <2>1, <1>4
    <3> QED  BY <3>1
  <2> QED  BY <1>4, <2>1
<1>6. ReleaseType'
    BY <1>1, <1>2, <1>3, <1>4 DEF ReleaseType, ReleaseInv
<1>7. Known(sent)' /\ Known(pending)' /\ \A g \in Flushers : Known(flush[g].bundles)'
  <2>1. Known(b) /\ Known(sent)
      BY DEF ReleaseInv, b
  <2>2. Known(sent)'
      BY <1>1, <1>4, <1>5, <2>1 DEF Known
  <2>3. ASSUME NEW g \in Flushers PROVE Known(flush[g].bundles)'
    <3>1. CASE g = f
        BY <3>1, <1>3 DEF Known
    <3>2. CASE g # f
      <4>1. flush'[g].bundles = flush[g].bundles /\ Known(flush[g].bundles)
          BY <3>2, <1>3 DEF ReleaseInv
      <4> QED  BY <4>1, <1>1 DEF Known
    <3> QED  BY <3>1, <3>2
  <2> QED  BY <1>1, <2>2, <2>3 DEF ReleaseInv, Known
<1>8. Copied' = Copied /\ f \notin Copied
    BY <1>1, <1>3 DEF Copied
<1>9. ASSUME NEW g \in Copied' PROVE SameAsQueue(flush[g].bundles)'
  <2>1. flush'[g] = flush[g] /\ SameAsQueue(flush[g].bundles)
      BY <1>3, <1>8 DEF ReleaseInv, Copied
  <2> QED  BY <1>1, <2>1 DEF SameAsQueue
<1>10. \A n \in (0 .. exported' - 1) \ raced' : Once(n)'
  <2> SUFFICES ASSUME NEW n \in (0 .. exported - 1) \ raced PROVE Once(n)'
      BY <1>1
  <2> DEFINE moved(x) == IF x[1] = "flush" /\ x[2][1] = f
                         THEN <<"sent", Len(sent) + x[2][2], x[3]>> ELSE x
             move == [x \in Places |-> moved(x)]
  <2>2. ASSUME NEW x \in Place(n) PROVE moved(x) \in Place(n)'
    <3>1. x \in Places /\ x[3].id = n
        BY DEF Place
    <3>2. ASSUME NEW i \in DOMAIN sent, x = <<"sent", i, sent[i]>> PROVE moved(x) \in Place(n)'
      <4>1. moved(x) = x
          BY <3>2
      <4>2. x \in Places'
          BY <3>2, <1>4, <1>5, PlaceKindsNext
      <4> QED  BY <3>1, <4>1, <4>2 DEF Place
    <3>3. ASSUME NEW i \in DOMAIN pending, x = <<"queue", i, pending[i]>>
          PROVE  moved(x) \in Place(n)'
      <4>1. moved(x) = x
          BY <3>3
      <4>2. x \in Places'
          BY <3>3, <1>1, PlaceKindsNext
      <4> QED  BY <3>1, <4>1, <4>2 DEF Place
    <3>4. ASSUME NEW g \in Flushers, flush[g].at = "cleared", NEW i \in DOMAIN flush[g].bundles,
                 x = <<"flush", <<g, i>>, flush[g].bundles[i]>>
          PROVE  moved(x) \in Place(n)'
      <4>1. CASE g # f
        <5>1. moved(x) = x /\ flush'[g] = flush[g]
            BY <3>4, <4>1, <1>3
        <5>2. x \in Places'
            BY <3>4, <5>1, PlaceKindsNext
        <5> QED  BY <3>1, <5>1, <5>2 DEF Place
      <4>2. CASE g = f
        <5>1. moved(x) = <<"sent", Len(sent) + i, b[i]>> /\ i \in DOMAIN b /\ b[i].id = n
            BY <3>1, <3>4, <4>2 DEF b
        <5>2. moved(x) \in Places'
            BY <5>1, <1>4, <1>5, PlaceKindsNext
        <5> QED  BY <5>1, <5>2 DEF Place
      <4> QED  BY <4>1, <4>2
    <3> QED  BY <3>1, <3>2, <3>3, <3>4, PlaceKinds
  <2>3. ASSUME NEW y \in Place(n)' PROVE \E x \in Place(n) : y = moved(x)
    <3>1. y \in Places' /\ y[3].id = n
        BY DEF Place
    <3>2. ASSUME NEW i \in DOMAIN sent, y = <<"sent", i, sent[i]>>
          PROVE  \E x \in Place(n) : y = moved(x)
      <4>1. y \in Places
          BY <3>2, PlaceKinds
      <4>2. y = moved(y)
          BY <3>2
      <4> QED  BY <3>1, <4>1, <4>2 DEF Place
    <3>3. ASSUME NEW j \in DOMAIN b, y = <<"sent", Len(sent) + j, b[j]>>
          PROVE  \E x \in Place(n) : y = moved(x)
      <4> DEFINE x == <<"flush", <<f, j>>, b[j]>>
      <4>1. x \in Places
          BY <1>1, PlaceKinds DEF b
      <4>2. y = moved(x) /\ x[3].id = n
          BY <3>1, <3>3
      <4> QED  BY <4>1, <4>2 DEF Place
    <3>4. ASSUME NEW i \in DOMAIN pending', y = <<"queue", i, pending'[i]>>
          PROVE  \E x \in Place(n) : y = moved(x)
      <4>1. y \in Places
          BY <3>4, <1>1, PlaceKinds
      <4>2. y = moved(y)
          BY <3>4
      <4> QED  BY <3>1, <4>1, <4>2 DEF Place
    <3>5. ASSUME NEW g \in Flushers, flush'[g].at = "cleared", NEW i \in DOMAIN flush'[g].bundles,
                 y = <<"flush", <<g, i>>, flush'[g].bundles[i]>>
          PROVE  \E x \in Place(n) : y = moved(x)
      <4>1. g # f /\ flush'[g] = flush[g]
          BY <3>5, <1>3
      <4>2. y \in Places
          BY <3>5, <4>1, PlaceKinds
      <4>3. y = moved(y)
          BY <3>5, <4>1
      <4> QED  BY <3>1, <4>2, <4>3 DEF Place
    <3>6. (\E i \in DOMAIN sent' : y = <<"sent", i, sent'[i]>>)
            => \/ \E i \in DOMAIN sent : y = <<"sent", i, sent[i]>>
               \/ \E j \in DOMAIN b : y = <<"sent", Len(sent) + j, b[j]>>
        BY <1>4, <1>5
    <3> QED  BY <3>1, <3>2, <3>3, <3>4, <3>5, <3>6, PlaceKindsNext
  <2> HIDE DEF moved
  <2>4. \A x \in Place(n) : move[x] = moved(x)
      BY DEF Place
  <2> HIDE DEF move
  <2>5. \A y : y \in Place(n)' <=> \E x \in Place(n) : y = move[x]
      BY <2>2, <2>3, <2>4
  <2>6. Once(n)
      BY DEF ReleaseInv
  <2> QED  BY <2>5, <2>6, OnceMoves
<1>11. ASSUME NEW g \in Copied', NEW h \in Copied', g # h, NEW i \in DOMAIN pending'
       PROVE  pending'[i].id \in raced'
    BY <1>1, <1>8, <1>11 DEF ReleaseInv
<1> QED  BY <1>6, <1>7, <1>9, <1>10, <1>11 DEF ReleaseInv

\* No other action touches the bundles.
LEMMA ReleaseStep == ReleaseInv /\ [Next]_vars => ReleaseInv'
<1> SUFFICES ASSUME ReleaseInv, [Next]_vars PROVE ReleaseInv'
    OBVIOUS
<1>1. ASSUME NEW t \in Threats, NEW partner \in Partners, NEW caveats \in Caveats,
             Share(t, partner, caveats)
      PROVE  ReleaseInv'
    BY <1>1, ReleaseShare
<1>2. ASSUME NEW f \in Flushers, CopyQueue(f) \/ ClearQueue(f) \/ Return(f) PROVE ReleaseInv'
    BY <1>2, ReleaseCopy, ReleaseClear, ReleaseReturn
<1>3. CASE UNCHANGED bundleVars
  <2>1. UNCHANGED <<pending, flush, sent, exported, raced>>
      BY <1>3 DEF bundleVars
  <2>2. Places' = Places /\ Copied' = Copied /\ ReleaseType'
      BY <2>1 DEF Places, Copied, ReleaseInv, ReleaseType
  <2>3. \A s : Known(s)' <=> Known(s)
      BY <2>1 DEF Known
  <2>4. \A s : SameAsQueue(s)' <=> SameAsQueue(s)
      BY <2>1 DEF SameAsQueue
  <2>5. \A n : Once(n)' <=> Once(n)
      BY <2>2 DEF Once, Place
  <2> QED  BY <2>1, <2>2, <2>3, <2>4, <2>5 DEF ReleaseInv
<1>4. Connect \/ Disconnect \/ Degrade \/ UNCHANGED vars => UNCHANGED bundleVars
    BY DEF Connect, Disconnect, Degrade, vars
<1>5. ASSUME NEW source, NEW target, NEW partner, NEW sanitised, NEW key,
             Write(source, target, partner, sanitised, key)
      PROVE  UNCHANGED bundleVars
    BY <1>5 DEF Write
<1>6. ASSUME NEW p, NEW key, NEW expected, Read(p, key, expected)
      PROVE  UNCHANGED bundleVars
    BY <1>6 DEF Read
<1> QED  BY <1>1, <1>2, <1>3, <1>4, <1>5, <1>6 DEF Next, Caveats

\* The invariant is what a recipient may rely on.
LEMMA ReleaseImplies == ReleaseInv => ReleasedOnceWithinMarking
<1> SUFFICES ASSUME ReleaseInv PROVE ReleasedOnceWithinMarking
    OBVIOUS
<1>1. ASSUME NEW n \in (0 .. exported - 1) \ raced
      PROVE  \E x \in Places : {y \in Places : y[3].id = n} = {x}
  <2>1. PICK x : Place(n) = {x}
      BY DEF ReleaseInv, Once
  <2>2. x \in Places
      BY <2>1 DEF Place
  <2> QED  BY <2>1, <2>2 DEF Place
<1>2. ASSUME NEW x \in Places, NEW a \in x[3].alerts, a.sourceType \in SensitiveSources
      PROVE  "TLP:RED" \in x[3].to.tlp
  <2>1. PICK t \in Threats, partner \in Partners, caveats \in Caveats :
          \E bundle \in ExportThreat(t, t.shared, partner, Label(t, caveats)) :
            x[3].alerts = t.alerts /\ x[3].to = partner
      BY PlacesKnown DEF Made
  <2> QED  BY <2>1, <1>2, LabelKeepsRed
<1> QED  BY <1>1, <1>2 DEF ReleasedOnceWithinMarking

\* Whatever order outages, exports and flushes of several threads come in, each
\* bundle is handed out once or waits, to a partner that its sources' marking
\* admits, unless it was queued or copied while another flush was between its
\* copy and its clear.
THEOREM ReleaseIsSafe == Spec => []ReleasedOnceWithinMarking
<1> QED  BY ReleaseInit, ReleaseStep, ReleaseImplies, PTL DEF Spec

-----------------------------------------------------------------------------
(* Packages *)

\* A record of a sanitised alert names no source, and its source is not one
\* the policy protects.
LEMMA SanitisedIsAnonymous ==
  ASSUME ProtectSources, NEW a \in Alerts, NEW partner, NEW r \in SanitiseAlert(a, partner)
  PROVE  r.sourceType \notin ProtectedSources /\ r.source = Anonymous
<1>1. DOMAIN a = Fields
    BY IntakeKeepsFields
<1>2. "source" \in DOMAIN a /\ "sourceType" \in DOMAIN a
    BY <1>1 DEF Fields, DefaultAlert
<1>3. ~Blocked(a)
    BY DEF SanitiseAlert
<1>4. a.sourceType \notin ProtectedSources
    BY <1>3 DEF Blocked
<1>5. r.sourceType = a.sourceType /\ r.source = Anonymous
    BY <1>2, <1>3 DEF SanitiseAlert
<1> QED  BY <1>4, <1>5

PackageFields == {"source", "target", "records", "checksum", "signature"}

\* What went down to a lower domain names no source.
Clean(w) ==
  Above(w.source, w.target) =>
    \A r \in w.records : r.sourceType \notin ProtectedSources /\ r.source = Anonymous

\* What Write seals.
WellSealed(w) ==
  /\ DOMAIN w = PackageFields
  /\ w.checksum = {w.records}
  /\ w.signature = {} \/ \E key : w.signature = {<<key, w.records>>}
  /\ Clean(w)

\* What Read accepts.
Accepted(i) ==
  /\ DOMAIN i.package = PackageFields
  /\ i.package.checksum = {i.package.records}
  /\ i.key # NoKey => \E w \in written : /\ i.package.records = w.records
                                        /\ w.signature = {<<i.key, w.records>>}

PackageInv ==
  /\ \A w \in written : WellSealed(w)
  /\ \A i \in imported : Accepted(i)

\* Going down, the guard asks for sanitised records.
LEMMA PackageWrite ==
  ASSUME RequireSanitisation, ProtectSources, PackageInv,
         NEW source, NEW target, NEW partner, NEW sanitised \in BOOLEAN, NEW key,
         Write(source, target, partner, sanitised, key)
  PROVE  PackageInv'
<1> DEFINE records == IF sanitised THEN UNION {SanitiseAlert(a, partner) : a \in Alerts}
                      ELSE Alerts
           package == Sealed(source, target, records, key)
<1>1. /\ written' = written \cup {package} /\ imported' = imported
      /\ Permitted(source, target, sanitised)
    BY DEF Write
<1>2. WellSealed(package)
  <2>1. /\ DOMAIN package = PackageFields /\ package.checksum = {package.records}
        /\ package.source = source /\ package.target = target /\ package.records = records
        /\ package.signature = {} \/ package.signature = {<<key, package.records>>}
      BY DEF Sealed, PackageFields
  <2>2. ASSUME Above(source, target), NEW r \in records
        PROVE  r.sourceType \notin ProtectedSources /\ r.source = Anonymous
    <3>1. sanitised
        BY <1>1, <2>2 DEF Permitted
    <3>2. PICK a \in Alerts : r \in SanitiseAlert(a, partner)
        BY <3>1, <2>2
    <3> QED  BY <3>2, SanitisedIsAnonymous
  <2> HIDE DEF package, records
  <2> QED  BY <2>1, <2>2 DEF WellSealed, Clean
<1> HIDE DEF package
<1>3. \A i \in imported' : Accepted(i)'
    BY <1>1 DEF PackageInv, Accepted
<1> QED  BY <1>1, <1>2, <1>3 DEF PackageInv

\* A signature the medium can deliver was made of the records of one package.
LEMMA PackageRead ==
  ASSUME PackageInv, NEW q, DOMAIN q = PackageFields, q.signature \in Signatures,
         NEW key, NEW expected, Read(q, key, expected)
  PROVE  PackageInv'
<1> DEFINE i == [package |-> q, key |-> key]
<1>1. /\ imported' = {i} /\ written' = written
      /\ q.checksum = {q.records} /\ (key # NoKey => q.signature = {<<key, q.records>>})
    BY DEF Read, Verify
<1>2. ASSUME key # NoKey
      PROVE  \E w \in written : q.records = w.records /\ w.signature = {<<key, w.records>>}
  <2>1. q.signature = {<<key, q.records>>} /\ q.signature # {}
      BY <1>1, <1>2
  <2>2. PICK w \in written : w.signature = q.signature
      BY <2>1 DEF Signatures
  <2>3. PICK other : w.signature = {<<other, w.records>>}
      BY <2>1, <2>2 DEF PackageInv, WellSealed
  <2>4. <<other, w.records>> = <<key, q.records>>
      BY <2>1, <2>2, <2>3
  <2> QED  BY <2>1, <2>2, <2>4
<1>3. i.package = q /\ i.key = key
    OBVIOUS
<1> HIDE DEF i
<1>4. Accepted(i)'
    BY <1>1, <1>2, <1>3 DEF Accepted
<1> QED  BY <1>1, <1>4 DEF PackageInv, WellSealed, Clean

\* Only writing and reading touch packages.
LEMMA PackageStep ==
  ASSUME RequireSanitisation, ProtectSources, PackageInv, [Next]_vars
  PROVE  PackageInv'
<1>1. ASSUME NEW source, NEW target, NEW partner, NEW sanitised \in BOOLEAN, NEW key,
             Write(source, target, partner, sanitised, key)
      PROVE  PackageInv'
    BY <1>1, PackageWrite
<1>2. ASSUME NEW p \in written, NEW key, NEW source, NEW records, NEW signature \in Signatures,
             NEW expected, NEW checksum,
             Read([source |-> source, target |-> p.target, records |-> records,
                   checksum |-> checksum, signature |-> signature], key, expected)
      PROVE  PackageInv'
  <2> DEFINE q == [source |-> source, target |-> p.target, records |-> records,
                   checksum |-> checksum, signature |-> signature]
  <2>1. DOMAIN q = PackageFields /\ q.signature \in Signatures
      BY DEF PackageFields
  <2>2. Read(q, key, expected)
      BY <1>2
  <2> HIDE DEF q
  <2> QED  BY <2>1, <2>2, PackageRead
<1>3. CASE UNCHANGED packageVars
    BY <1>3 DEF packageVars, PackageInv, Accepted
<1>4. ASSUME NEW t, NEW partner, NEW caveats, Share(t, partner, caveats)
      PROVE  UNCHANGED packageVars
    BY <1>4 DEF Share
<1>5. ASSUME NEW f, CopyQueue(f) \/ ClearQueue(f) \/ Return(f) PROVE UNCHANGED packageVars
    BY <1>5 DEF CopyQueue, ClearQueue, Return
<1>6. Connect \/ Disconnect \/ Degrade \/ UNCHANGED vars => UNCHANGED packageVars
    BY DEF Connect, Disconnect, Degrade, vars
<1> QED  BY <1>1, <1>2, <1>3, <1>4, <1>5, <1>6 DEF Next

\* What is accepted has the records of a package that differs in one field only:
\* the checksum, of the records, tells if it is either of the two.
LEMMA OneFieldIsFound ==
  ASSUME PackageInv, NEW i \in imported, NEW w \in written, NEW field,
         AlteredIn(i.package, w) \subseteq {field}
  PROVE  i.package.records = w.records
<1>1. /\ DOMAIN w = PackageFields /\ w.checksum = {w.records}
      /\ i.package.checksum = {i.package.records}
    BY DEF PackageInv, WellSealed, Accepted
<1>2. "records" \in DOMAIN w /\ "checksum" \in DOMAIN w /\ "records" # "checksum"
    BY <1>1 DEF PackageFields
<1> SUFFICES ASSUME i.package.records # w.records PROVE FALSE
    OBVIOUS
<1>3. i.package.checksum # w.checksum
    BY <1>1
<1>4. "records" \in AlteredIn(i.package, w) /\ "checksum" \in AlteredIn(i.package, w)
    BY <1>2, <1>3 DEF AlteredIn
<1> QED  BY <1>2, <1>4

\* With the guard and the policy as they are by default: whatever the medium did
\* to a file, a reader with a key accepts only what was sealed under it, one
\* without a key what differs in no field or, but for its records, in one; and
\* what went down names no source.
THEOREM ImportIsSafe ==
  ASSUME RequireSanitisation, ProtectSources
  PROVE  Spec => []ImportedAsSealed
<1>1. Init => PackageInv
    BY DEF Init, PackageInv
<1>2. PackageInv /\ [Next]_vars => PackageInv'
    BY PackageStep
<1>3. PackageInv => ImportedAsSealed
  <2> SUFFICES ASSUME PackageInv PROVE ImportedAsSealed
      OBVIOUS
  <2>1. \A w \in written : Clean(w)
      BY DEF PackageInv, WellSealed
  <2>2. \A i \in imported : Accepted(i)
      BY DEF PackageInv
  <2>3. \A i \in imported, w \in written : \A field \in DOMAIN w :
          AlteredIn(i.package, w) \subseteq {field} => i.package.records = w.records
      BY OneFieldIsFound
  <2> QED  BY <2>1, <2>2, <2>3 DEF ImportedAsSealed, Accepted, Clean
<1> QED  BY <1>1, <1>2, <1>3, PTL DEF Spec
=============================================================================
