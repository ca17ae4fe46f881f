---------------------------- MODULE Enrichment_proofs ----------------------------
(***************************************************************************)
(* Proofs about Enrichment: for any number of threads and enrichers, and   *)
(* any threshold, the failures that reach the threshold open the circuit,  *)
(* and the threads overfill a cache by less than their number.             *)
(***************************************************************************)
EXTENDS Enrichment, FiniteSetTheorems, TLAPS

BreakerState ==
  [state : {"CLOSED", "OPEN", "HALF_OPEN"}, failures : 0 .. FailureThreshold, cooled : BOOLEAN]

CallerFields == {"at", "enricher", "key", "seen"}

CircuitInv ==
  /\ breaker \in [Enabled -> BreakerState]
  /\ DOMAIN caller = Callers
  /\ \A c \in Callers : DOMAIN caller[c] = CallerFields
  /\ OutageOpensCircuit

\* Thread c takes a step, and the others stay where they are.
Moved(c) ==
  /\ DOMAIN caller' = Callers
  /\ \A d \in Callers : DOMAIN caller'[d] = CallerFields
  /\ \A d \in Callers \ {c} : caller'[d] = caller[d]

\* Where a thread is that has a counted failure in hand.
Counting == {"counted", "opening"}

\* A step of c that neither comes from nor leads to a counted failure.
MovesOn(c) == Moved(c) /\ caller[c].at \notin Counting /\ caller'[c].at \notin Counting

\* The ways the steps move a thread.
LEMMA CallerMoves ==
  ASSUME CircuitInv, NEW c \in Callers
  PROVE  /\ \A at : Goto(c, at) => /\ Moved(c) /\ caller'[c].at = at
                                   /\ caller'[c].enricher = caller[c].enricher
         /\ Return(c) => Moved(c) /\ caller'[c].at = "idle"
<1>1. /\ DOMAIN caller = Callers /\ \A d \in Callers : DOMAIN caller[d] = CallerFields
      /\ "at" \in CallerFields /\ "enricher" \in CallerFields
    BY DEF CircuitInv, CallerFields
<1>2. \A at : Goto(c, at) => Moved(c) /\ caller'[c].at = at
                               /\ caller'[c].enricher = caller[c].enricher
    BY <1>1 DEF Goto, Moved
<1>3. Return(c) => Moved(c) /\ caller'[c].at = "idle"
    BY <1>1 DEF Return, Moved, Idle, CallerFields
<1> QED  BY <1>2, <1>3

\* A thread with no failure to report moves on, and a breaker that changes
\* keeps its count, its state or becomes half open.
LEMMA CircuitKept ==
  ASSUME CircuitInv, NEW c \in Callers, MovesOn(c),
         breaker' \in [Enabled -> BreakerState],
         \A e \in Enabled :
           \/ breaker'[e].failures = breaker[e].failures /\ breaker'[e].state = breaker[e].state
           \/ breaker'[e].state = "HALF_OPEN"
           \/ breaker'[e].failures = 0
  PROVE  CircuitInv'
<1>1. \A e \in Enabled : /\ At(e, "counted")' = At(e, "counted")
                        /\ At(e, "opening")' = At(e, "opening")
    BY DEF At, MovesOn, Moved, Counting
<1>2. FailureThreshold # 0
    BY EnrichmentAssumption
<1>3. OutageOpensCircuit'
    BY <1>1, <1>2 DEF CircuitInv, OutageOpensCircuit
<1> QED  BY <1>3 DEF CircuitInv, MovesOn, Moved

\* The steps between a thread's calls of the breaker.
LEMMA LookupSteps ==
  ASSUME CircuitInv, NEW c \in Callers,
         \/ Lookup(c) \/ DeleteExpired(c) \/ IsAvailable(c) \/ Fetch(c)
         \/ SetCache(c) \/ Evict(c) \/ WriteCache(c)
         \/ \E o \in Observables : Enrich(c, o)
  PROVE  CircuitInv'
<1>1. breaker' = breaker
    BY DEF Lookup, DeleteExpired, IsAvailable, Fetch, SetCache, Evict, WriteCache, Enrich
<1>2. /\ DOMAIN caller = Callers /\ \A d \in Callers : DOMAIN caller[d] = CallerFields
    BY DEF CircuitInv
<1>3. MovesOn(c)
  <2>1. CASE Lookup(c)
      BY <2>1, CallerMoves DEF Lookup, MovesOn, Counting
  <2>2. CASE DeleteExpired(c)
      BY <2>2, CallerMoves DEF DeleteExpired, MovesOn, Counting
  <2>3. CASE IsAvailable(c)
    <3>1. \E at \in {"open", "fetch"} : Goto(c, at)
        BY <2>3 DEF IsAvailable
    <3>2. caller[c].at = "ask"
        BY <2>3 DEF IsAvailable
    <3> QED  BY <3>1, <3>2, CallerMoves DEF MovesOn, Counting
  <2>4. CASE Fetch(c)
      BY <2>4, CallerMoves DEF Fetch, MovesOn, Counting
  <2>5. CASE SetCache(c)
      BY <2>5, <1>2 DEF SetCache, MovesOn, Moved, CallerFields, Counting
  <2>6. CASE Evict(c)
      BY <2>6, <1>2 DEF Evict, MovesOn, Moved, CallerFields, Counting
  <2>7. CASE WriteCache(c)
      BY <2>7, CallerMoves DEF WriteCache, MovesOn, Counting
  <2>8. ASSUME NEW o \in Observables, Enrich(c, o) PROVE MovesOn(c)
      BY <2>8, <1>2 DEF Enrich, MovesOn, Moved, CallerFields, Counting
  <2> QED  BY <2>1, <2>2, <2>3, <2>4, <2>5, <2>6, <2>7, <2>8
<1> QED  BY <1>1, <1>3, CircuitKept DEF CircuitInv

\* The calls of the breaker: is_available, record_success, record_failure.
LEMMA BreakerSteps ==
  ASSUME CircuitInv, NEW c \in Callers,
         \/ HalfOpen(c) \/ RecordSuccess(c) \/ RecordFailure(c)
         \/ OpenCircuit(c) \/ WriteOpen(c)
  PROVE  CircuitInv'
<1> DEFINE e == caller[c].enricher
<1>0. breaker \in [Enabled -> BreakerState] /\ FailureThreshold \in Nat \ {0}
    BY EnrichmentAssumption DEF CircuitInv
<1>1. CASE HalfOpen(c)
  <2>1. MovesOn(c)
      BY <1>1, CallerMoves DEF HalfOpen, MovesOn, Counting
  <2>2. breaker' = breaker \/ breaker' = [breaker EXCEPT ![e].state = "HALF_OPEN"]
      BY <1>1 DEF HalfOpen
  <2>3. breaker' \in [Enabled -> BreakerState]
      BY <2>2, <1>0 DEF BreakerState
  <2>4. \A x \in Enabled : breaker'[x] = breaker[x] \/ breaker'[x].state = "HALF_OPEN"
      BY <2>2, <1>0 DEF BreakerState
  <2> QED  BY <2>1, <2>3, <2>4, CircuitKept
<1>2. CASE RecordSuccess(c)
  <2>1. MovesOn(c)
      BY <1>2, CallerMoves DEF RecordSuccess, MovesOn, Counting
  <2>2. breaker' = [breaker EXCEPT ![e].failures = 0,
                                   ![e].state = IF @ = "HALF_OPEN" THEN "CLOSED" ELSE @]
      BY <1>2 DEF RecordSuccess
  <2>3. breaker' \in [Enabled -> BreakerState]
    <3>1. ASSUME NEW b \in BreakerState
          PROVE  [b EXCEPT !.failures = 0,
                           !.state = IF @ = "HALF_OPEN" THEN "CLOSED" ELSE @] \in BreakerState
      <4> DEFINE state == IF b.state = "HALF_OPEN" THEN "CLOSED" ELSE b.state
      <4>1. state \in {"CLOSED", "OPEN", "HALF_OPEN"} /\ 0 \in 0 .. FailureThreshold
          BY <1>0 DEF BreakerState
      <4> HIDE DEF state
      <4>2. [b EXCEPT !.failures = 0, !.state = state] \in BreakerState
          BY <4>1 DEF BreakerState
      <4> QED  BY <4>2 DEF state
    <3> QED  BY <3>1, <2>2, <1>0
  <2>4. \A x \in Enabled : breaker'[x] = breaker[x] \/ breaker'[x].failures = 0
      BY <2>2, <1>0 DEF BreakerState
  <2> QED  BY <2>1, <2>3, <2>4, CircuitKept
<1>3. CASE RecordFailure(c)
  <2>1. Moved(c) /\ caller'[c].at = "counted" /\ caller'[c].enricher = e
      BY <1>3, CallerMoves DEF RecordFailure
  <2>2. breaker' = [breaker EXCEPT ![e].failures =
                      IF @ < FailureThreshold THEN @ + 1 ELSE FailureThreshold]
      BY <1>3 DEF RecordFailure
  <2>3. breaker' \in [Enabled -> BreakerState]
    <3>1. ASSUME NEW b \in BreakerState
          PROVE  [b EXCEPT !.failures =
                    IF @ < FailureThreshold THEN @ + 1 ELSE FailureThreshold] \in BreakerState
      <4>1. \A n \in 0 .. FailureThreshold :
              (IF n < FailureThreshold THEN n + 1 ELSE FailureThreshold) \in 0 .. FailureThreshold
          BY <1>0
      <4> QED  BY <4>1 DEF BreakerState
    <3> QED  BY <3>1, <2>2, <1>0
  <2>4. \A x \in Enabled : x # e => breaker'[x] = breaker[x]
      BY <2>2, <1>0
  <2>5. \A x \in Enabled : /\ At(x, "counted") \subseteq At(x, "counted")'
                          /\ At(x, "opening") \subseteq At(x, "opening")'
      BY <2>1, <1>3 DEF At, Moved, RecordFailure
  <2>6. \A x : x = e => At(x, "counted")' # {}
      BY <2>1 DEF At
  <2>7. OutageOpensCircuit'
    <3> SUFFICES ASSUME NEW x \in Enabled, breaker'[x].failures = FailureThreshold,
                        (At(x, "counted") \cup At(x, "opening"))' = {}
                 PROVE  breaker'[x].state \in {"OPEN", "HALF_OPEN"}
        BY DEF OutageOpensCircuit
    <3>1. x # e /\ At(x, "counted") \cup At(x, "opening") = {}
        BY <2>5, <2>6
    <3> QED  BY <3>1, <2>4 DEF CircuitInv, OutageOpensCircuit
  <2> QED  BY <2>1, <2>3, <2>7 DEF CircuitInv, Moved
<1>4. CASE OpenCircuit(c)
  <2>1. /\ Moved(c)
        /\ \/ caller'[c].at = "opening" /\ caller'[c].enricher = e
           \/ caller'[c].at = "idle"
      BY <1>4, CallerMoves DEF OpenCircuit
  <2>2. breaker' = [breaker EXCEPT ![e].cooled = FALSE]
      BY <1>4 DEF OpenCircuit
  <2>3. breaker' \in [Enabled -> BreakerState]
      BY <2>2, <1>0 DEF BreakerState
  <2>4. \A x \in Enabled : x # e => /\ breaker'[x] = breaker[x]
                                    /\ At(x, "counted") = At(x, "counted")'
                                    /\ At(x, "opening") = At(x, "opening")'
      BY <1>4, <2>1, <2>2, <1>0 DEF At, Moved, OpenCircuit
  <2>5. CASE Goto(c, "opening")
    <3>1. caller'[c].at = "opening" /\ caller'[c].enricher = e
        BY <2>5, CallerMoves
    <3>2. \A x : x = e => c \in (At(x, "counted") \cup At(x, "opening"))'
        BY <3>1 DEF At
    <3>3. \A x \in Enabled : x = e => (At(x, "counted") \cup At(x, "opening"))' # {}
        BY <3>2
    <3>4. OutageOpensCircuit'
        BY <3>3, <2>4 DEF CircuitInv, OutageOpensCircuit
    <3> QED  BY <2>1, <2>3, <3>4 DEF CircuitInv, Moved
  <2>6. CASE ~(breaker[e].failures >= FailureThreshold /\ breaker[e].state # "OPEN")
    <3>1. e \in Enabled /\ breaker'[e].failures = FailureThreshold => breaker'[e].state = "OPEN"
        BY <2>2, <2>6, <1>0 DEF BreakerState
    <3>2. OutageOpensCircuit'
        BY <3>1, <2>4 DEF CircuitInv, OutageOpensCircuit
    <3> QED  BY <2>1, <2>3, <3>2 DEF CircuitInv, Moved
  <2> QED  BY <1>4, <2>5, <2>6 DEF OpenCircuit
<1>5. CASE WriteOpen(c)
  <2>1. Moved(c) /\ caller'[c].at = "idle"
      BY <1>5, CallerMoves DEF WriteOpen
  <2>2. breaker' = [breaker EXCEPT ![e].state = "OPEN"]
      BY <1>5 DEF WriteOpen
  <2>3. breaker' \in [Enabled -> BreakerState]
      BY <2>2, <1>0 DEF BreakerState
  <2>4. \A x \in Enabled : x # e => /\ breaker'[x] = breaker[x]
                                    /\ At(x, "counted") = At(x, "counted")'
                                    /\ At(x, "opening") = At(x, "opening")'
      BY <1>5, <2>1, <2>2, <1>0 DEF At, Moved, WriteOpen
  <2>5. e \in Enabled => breaker'[e].state = "OPEN"
      BY <2>2, <1>0 DEF BreakerState
  <2>6. OutageOpensCircuit'
      BY <2>4, <2>5 DEF CircuitInv, OutageOpensCircuit
  <2> QED  BY <2>1, <2>3, <2>6 DEF CircuitInv, Moved
<1> QED  BY <1>1, <1>2, <1>3, <1>4, <1>5

\* However lookups, late answers and outages interleave: once FailureThreshold
\* failures are counted, no more lookups pass as if the service were healthy.
THEOREM ThresholdOpensCircuit == Spec => []OutageOpensCircuit
<1>1. Init => CircuitInv
  <2> SUFFICES ASSUME Init PROVE CircuitInv
      OBVIOUS
  <2>1. breaker \in [Enabled -> BreakerState] /\ FailureThreshold # 0
      BY EnrichmentAssumption DEF Init, BreakerState
  <2>2. \A e \in Enabled : breaker[e].failures = 0
      BY DEF Init
  <2>3. DOMAIN caller = Callers /\ \A c \in Callers : DOMAIN caller[c] = CallerFields
      BY DEF Init, Idle, CallerFields
  <2> QED  BY <2>1, <2>2, <2>3 DEF CircuitInv, OutageOpensCircuit
<1>2. CircuitInv /\ [Next]_vars => CircuitInv'
  <2> SUFFICES ASSUME CircuitInv, [Next]_vars PROVE CircuitInv'
      OBVIOUS
  <2>1. ASSUME NEW c \in Callers, Step(c) \/ \E o \in Observables : Enrich(c, o)
        PROVE  CircuitInv'
      BY <2>1, LookupSteps, BreakerSteps DEF Step
  <2>2. CASE UNCHANGED <<breaker, caller>>
      BY <2>2 DEF CircuitInv, OutageOpensCircuit, At
  <2>3. ASSUME NEW e \in Enabled, CoolDown(e) PROVE CircuitInv'
    <3>1. breaker' = [breaker EXCEPT ![e].cooled = TRUE] /\ caller' = caller
        BY <2>3 DEF CoolDown
    <3>2. breaker \in [Enabled -> BreakerState]
        BY DEF CircuitInv
    <3>3. breaker' \in [Enabled -> BreakerState]
        BY <3>1, <3>2 DEF BreakerState
    <3>4. \A x \in Enabled : /\ breaker'[x].failures = breaker[x].failures
                             /\ breaker'[x].state = breaker[x].state
        BY <3>1, <3>2 DEF BreakerState
    <3> QED  BY <3>1, <3>3, <3>4 DEF CircuitInv, OutageOpensCircuit, At
  <2>4. \A e \in Enabled : Expire(e) => UNCHANGED <<breaker, caller>>
      BY DEF Expire
  <2>5. Outage \/ UNCHANGED vars => UNCHANGED <<breaker, caller>>
      BY DEF Outage, vars
  <2> QED  BY <2>1, <2>2, <2>3, <2>4, <2>5 DEF Next
<1>3. CircuitInv => OutageOpensCircuit
    BY DEF CircuitInv
<1> QED  BY <1>1, <1>2, <1>3, PTL DEF Spec
-----------------------------------------------------------------------------
(* The cache *)

Key == Keys \cup {"none"}
Entry == [key : Key, stale : BOOLEAN]

\* A key has one entry.
KeysDistinct(s) == \A i, j \in DOMAIN s : s[i].key = s[j].key => i = j

CallerType ==
  /\ DOMAIN caller = Callers
  /\ \A c \in Callers : DOMAIN caller[c] = CallerFields /\ caller[c].key \in Key

Room(e) ==
  Len(cache[e]) + Cardinality(At(e, "write")) <= MaxSize + Cardinality(Callers) - 1

CacheInv ==
  /\ cache \in [Enabled -> Seq(Entry)]
  /\ CallerType
  /\ \A e \in Enabled : KeysDistinct(cache[e]) /\ Room(e)

\* Without the entry of a key the others are still there, in their order.
LEMMA WithoutFacts ==
  ASSUME NEW s \in Seq(Entry), KeysDistinct(s), NEW key
  PROVE  LET t == RemoveFirstMatch(s, LAMBDA x : x.key = key)
         IN /\ t \in Seq(Entry) /\ Len(t) <= Len(s) /\ KeysDistinct(t)
            /\ \A j \in DOMAIN t : t[j].key # key
<1> DEFINE t == RemoveFirstMatch(s, LAMBDA x : x.key = key)
<1>1. CASE ~ \E i \in 1 .. Len(s) : s[i].key = key
  <2>1. t = s
      BY <1>1 DEF RemoveFirstMatch
  <2>2. DOMAIN s = 1 .. Len(s) /\ Len(s) \in Nat
      OBVIOUS
  <2> HIDE DEF t
  <2>3. /\ t \in Seq(Entry) /\ Len(t) <= Len(s) /\ KeysDistinct(t)
        /\ \A j \in DOMAIN t : t[j].key # key
      BY <2>1, <2>2, <1>1
  <2> QED  BY <2>3 DEF t
<1>2. ASSUME NEW i \in 1 .. Len(s), s[i].key = key
      PROVE  /\ t \in Seq(Entry) /\ Len(t) <= Len(s) /\ KeysDistinct(t)
             /\ \A j \in DOMAIN t : t[j].key # key
  <2> DEFINE I == {j \in 1 .. Len(s) : s[j].key = key}
             a == SubSeq(s, 1, i - 1)
             b == SubSeq(s, i + 1, Len(s))
             Was(j) == IF j < i THEN j ELSE j + 1
  <2>1. t = a \o b
    <3>1. I = {i}
        BY <1>2 DEF KeysDistinct
    <3>2. Min({i}) = i
        BY DEF Min
    <3>3. SelectInSeq(s, LAMBDA x : x.key = key) = IF I # {} THEN Min(I) ELSE 0
        BY DEF SelectInSeq
    <3> HIDE DEF I
    <3>4. SelectInSeq(s, LAMBDA x : x.key = key) = i
        BY <3>1, <3>2, <3>3
    <3>5. t = RemoveAt(s, SelectInSeq(s, LAMBDA x : x.key = key))
        BY <1>2 DEF RemoveFirstMatch
    <3> HIDE DEF t
    <3> QED  BY <3>4, <3>5 DEF RemoveAt
  <2>2. /\ a \in Seq(Entry) /\ Len(a) = i - 1 /\ \A j \in 1 .. i - 1 : a[j] = s[j]
      OBVIOUS
  <2>3. /\ b \in Seq(Entry) /\ Len(b) = Len(s) - i
        /\ \A j \in 1 .. Len(s) - i : b[j] = s[i + j]
      OBVIOUS
  <2>4. Len(s) \in Nat /\ i \in 1 .. Len(s) /\ DOMAIN s = 1 .. Len(s)
      OBVIOUS
  <2> HIDE DEF a, b, t
  <2>5. t \in Seq(Entry) /\ Len(t) = Len(s) - 1 /\ DOMAIN t = 1 .. Len(t)
      BY <2>1, <2>2, <2>3, <2>4
  <2>6. \A j \in DOMAIN t : Was(j) \in DOMAIN s /\ Was(j) # i
      BY <2>4, <2>5
  <2>7. \A p, q \in DOMAIN t : Was(p) = Was(q) => p = q
      BY <2>4, <2>5
  <2>8. ASSUME NEW j \in DOMAIN t PROVE t[j] = s[Was(j)]
    <3>1. CASE j < i
        BY <2>1, <2>2, <2>3, <2>4, <2>5, <3>1
    <3>2. CASE j >= i
      <4>1. t[j] = b[j - (i - 1)]
          BY <2>1, <2>2, <2>3, <2>4, <2>5, <3>2
      <4>2. j - (i - 1) \in 1 .. Len(s) - i /\ i + (j - (i - 1)) = j + 1
          BY <2>4, <2>5, <3>2
      <4>3. b[j - (i - 1)] = s[i + (j - (i - 1))]
          BY <2>3, <4>2
      <4>4. Was(j) = j + 1
          BY <2>4, <2>5, <3>2
      <4> QED  BY <4>1, <4>2, <4>3, <4>4
    <3> QED  BY <2>4, <2>5, <3>1, <3>2
  <2> HIDE DEF Was
  <2>9. KeysDistinct(t)
      BY <2>6, <2>7, <2>8 DEF KeysDistinct
  <2>10. \A j \in DOMAIN t : t[j].key # key
      BY <1>2, <2>4, <2>6, <2>8 DEF KeysDistinct
  <2> QED  BY <2>4, <2>5, <2>9, <2>10
<1> QED  BY <1>1, <1>2

\* Distinct keys are as many as entries.
LEMMA KeysCounted ==
  ASSUME CacheInv, NEW e \in Enabled
  PROVE  Len(cache[e]) = Cardinality(CachedKeys(e))
<1> DEFINE s == cache[e]
           f == [i \in 1 .. Len(s) |-> s[i].key]
<1>1. s \in Seq(Entry) /\ KeysDistinct(s) /\ DOMAIN s = 1 .. Len(s)
    BY DEF CacheInv
<1>2. CachedKeys(e) = {s[i].key : i \in 1 .. Len(s)}
    BY <1>1 DEF CachedKeys
<1>3. f \in Surjection(1 .. Len(s), CachedKeys(e))
    BY <1>2 DEF Surjection
<1>4. f \in Injection(1 .. Len(s), CachedKeys(e))
    BY <1>1, <1>2 DEF Injection, IsInjective, KeysDistinct
<1>5. IsFiniteSet(1 .. Len(s)) /\ Cardinality(1 .. Len(s)) = Len(s)
    BY <1>1, FS_Interval
<1> HIDE DEF f
<1>6. Cardinality(CachedKeys(e)) = Cardinality(1 .. Len(s))
    BY <1>3, <1>4, <1>5, FS_Surjection
<1> QED  BY <1>5, <1>6

\* A step that moves thread c, and changes the cache c works on.
OnCache(c) ==
  /\ CallerType'
  /\ \A d \in Callers \ {c} : caller'[d] = caller[d]
  /\ caller'[c].at = "write" => caller'[c].enricher = caller[c].enricher
  /\ cache' \in [Enabled -> Seq(Entry)]
  /\ \A x \in Enabled : x # caller[c].enricher => cache'[x] = cache[x]
  /\ \A x \in Enabled : KeysDistinct(cache'[x])

\* The room in the cache, by how the step changes its length and its writers.
LEMMA RoomKept ==
  ASSUME CacheInv, NEW c \in Callers, OnCache(c),
         \A x \in Enabled : x = caller[c].enricher =>
           \/ /\ caller'[c].at # "write"
              /\ \/ Len(cache'[x]) <= Len(cache[x])
                 \/ caller[c].at = "write" /\ Len(cache'[x]) <= Len(cache[x]) + 1
           \/ caller'[c].at = "write" /\ caller[c].at # "write" /\ cache' = cache /\ ~Full(x)
           \/ /\ caller'[c].at = "write" /\ caller[c].at # "write"
              /\ Len(cache'[x]) = Len(cache[x]) - 1
  PROVE  CacheInv'
<1> SUFFICES ASSUME NEW x \in Enabled PROVE Room(x)'
    BY DEF CacheInv, OnCache
<1> DEFINE W == At(x, "write")
           V == At(x, "write")'
<1>1. /\ IsFiniteSet(Callers) /\ W \subseteq Callers /\ V \subseteq Callers
      /\ MaxSize \in Nat \ {0}
    BY EnrichmentAssumption DEF At
<1>2. IsFiniteSet(W) /\ IsFiniteSet(V)
    BY <1>1, FS_Subset
<1>3. /\ Cardinality(W) \in Nat /\ Cardinality(V) \in Nat /\ Cardinality(Callers) \in Nat
      /\ Cardinality(V) <= Cardinality(Callers)
    BY <1>1, <1>2, FS_Subset, FS_CardinalityType
<1>4. /\ Len(cache[x]) \in Nat /\ Len(cache'[x]) \in Nat
      /\ Len(cache[x]) + Cardinality(W) <= MaxSize + Cardinality(Callers) - 1
    BY DEF CacheInv, Room, OnCache
<1>5. Room(x)' <=> Len(cache'[x]) + Cardinality(V) <= MaxSize + Cardinality(Callers) - 1
    BY DEF Room
<1>6. CASE x # caller[c].enricher
  <2>1. V = W
      BY <1>6 DEF At, OnCache
  <2>2. cache'[x] = cache[x]
      BY <1>6 DEF OnCache
  <2> QED  BY <1>4, <1>5, <2>1, <2>2
<1>7. CASE x = caller[c].enricher
  <2>1. /\ caller'[c].at # "write" => V = W \ {c}
        /\ caller'[c].at = "write" => V = W \cup {c}
        /\ c \in W <=> caller[c].at = "write"
      BY <1>7 DEF At, OnCache
  <2> HIDE DEF V, W
  <2>2. /\ Cardinality(W \ {c}) = IF c \in W THEN Cardinality(W) - 1 ELSE Cardinality(W)
        /\ Cardinality(W \cup {c}) = IF c \in W THEN Cardinality(W) ELSE Cardinality(W) + 1
      BY <1>2, FS_AddElement, FS_RemoveElement
  <2>3. CASE caller'[c].at # "write" /\ Len(cache'[x]) <= Len(cache[x])
    <3>1. Cardinality(V) <= Cardinality(W)
      <4>1. V = W \ {c}
          BY <2>1, <2>3
      <4>2. Cardinality(W \ {c}) \in {Cardinality(W), Cardinality(W) - 1}
          BY <2>2
      <4> QED  BY <1>3, <4>1, <4>2
    <3> QED  BY <1>1, <1>3, <1>4, <1>5, <2>3, <3>1
  <2>4. CASE caller'[c].at # "write" /\ caller[c].at = "write"
             /\ Len(cache'[x]) <= Len(cache[x]) + 1
    <3>1. Cardinality(V) = Cardinality(W) - 1
        BY <1>3, <2>1, <2>2, <2>4
    <3> QED  BY <1>1, <1>3, <1>4, <1>5, <2>4, <3>1
  <2>5. CASE cache' = cache /\ ~Full(x)
      BY <1>1, <1>3, <1>4, <1>5, <2>5 DEF Full
  <2>6. CASE caller'[c].at = "write" /\ caller[c].at # "write"
             /\ Len(cache'[x]) = Len(cache[x]) - 1
    <3>1. Cardinality(V) = Cardinality(W) + 1
        BY <1>3, <2>1, <2>2, <2>6
    <3> QED  BY <1>1, <1>3, <1>4, <1>5, <2>6, <3>1
  <2> QED  BY <1>7, <2>3, <2>4, <2>5, <2>6
<1> QED  BY <1>6, <1>7

\* A thread at work moves within its lookup.
LEMMA CallerKept ==
  ASSUME CacheInv, NEW c \in Callers
  PROVE  /\ \A at : Goto(c, at) =>
              /\ CallerType' /\ \A d \in Callers \ {c} : caller'[d] = caller[d]
              /\ caller'[c].at = at /\ caller'[c].enricher = caller[c].enricher
         /\ Return(c) =>
              /\ CallerType' /\ \A d \in Callers \ {c} : caller'[d] = caller[d]
              /\ caller'[c].at = "idle"
<1>1. /\ DOMAIN caller = Callers
      /\ \A d \in Callers : DOMAIN caller[d] = CallerFields /\ caller[d].key \in Key
      /\ {"at", "enricher", "key"} \subseteq CallerFields
    BY DEF CacheInv, CallerType, CallerFields
<1>2. \A at : Goto(c, at) => /\ CallerType' /\ \A d \in Callers \ {c} : caller'[d] = caller[d]
                             /\ caller'[c].at = at /\ caller'[c].enricher = caller[c].enricher
    BY <1>1 DEF Goto, CallerType
<1>3. Return(c) => /\ CallerType' /\ \A d \in Callers \ {c} : caller'[d] = caller[d]
                   /\ caller'[c].at = "idle"
    BY <1>1 DEF Return, CallerType, Idle, CallerFields, Key
<1> QED  BY <1>2, <1>3

\* The steps that leave the cache alone and the thread away from writing.
LEMMA QuietCacheSteps ==
  ASSUME CacheInv, NEW c \in Callers,
         \/ Lookup(c) \/ IsAvailable(c) \/ HalfOpen(c) \/ Fetch(c)
         \/ RecordSuccess(c) \/ RecordFailure(c) \/ OpenCircuit(c) \/ WriteOpen(c)
         \/ \E o \in Observables : Enrich(c, o)
  PROVE  CacheInv'
<1>1. cache' = cache
    BY DEF Lookup, IsAvailable, HalfOpen, Fetch, RecordSuccess, RecordFailure, OpenCircuit,
           WriteOpen, Enrich
<1>2. /\ CallerType' /\ \A d \in Callers \ {c} : caller'[d] = caller[d]
      /\ caller'[c].at # "write"
  <2>1. CASE Lookup(c)
      BY <2>1, CallerKept DEF Lookup
  <2>2. CASE IsAvailable(c)
    <3>1. \E at \in {"open", "fetch"} : Goto(c, at)
        BY <2>2 DEF IsAvailable
    <3> QED  BY <3>1, CallerKept
  <2>3. CASE HalfOpen(c)
      BY <2>3, CallerKept DEF HalfOpen
  <2>4. CASE Fetch(c)
      BY <2>4, CallerKept DEF Fetch
  <2>5. CASE RecordSuccess(c) \/ OpenCircuit(c) \/ WriteOpen(c)
      BY <2>5, CallerKept DEF RecordSuccess, OpenCircuit, WriteOpen
  <2>6. CASE RecordFailure(c)
      BY <2>6, CallerKept DEF RecordFailure
  <2>7. ASSUME NEW o \in Observables, Enrich(c, o) PROVE <1>2
    <3>1. o.value \in Key
        BY DEF Key, Keys
    <3> QED  BY <2>7, <3>1 DEF Enrich, CacheInv, CallerType, CallerFields
  <2> QED  BY <2>1, <2>2, <2>3, <2>4, <2>5, <2>6, <2>7
<1>3. OnCache(c)
    BY <1>1, <1>2 DEF CacheInv, OnCache
<1>4. \A x \in Enabled : Len(cache[x]) \in Nat
    BY DEF CacheInv
<1> QED  BY <1>1, <1>2, <1>3, <1>4, RoomKept

\* get deletes a stale entry.
LEMMA DeleteExpiredCache ==
  ASSUME CacheInv, NEW c \in Callers, DeleteExpired(c)
  PROVE  CacheInv'
<1> DEFINE e == caller[c].enricher
           key == caller[c].key
           t == Without(e, key)
<1>1. cache' = [cache EXCEPT ![e] = t]
    BY DEF DeleteExpired
<1>2. ASSUME e \in Enabled
      PROVE  /\ t \in Seq(Entry) /\ Len(t) <= Len(cache[e]) /\ KeysDistinct(t)
             /\ \A j \in DOMAIN t : t[j].key # key
    BY <1>2, WithoutFacts DEF CacheInv, Without
<1>3. /\ CallerType' /\ \A d \in Callers \ {c} : caller'[d] = caller[d]
      /\ caller'[c].at # "write"
    BY CallerKept DEF DeleteExpired
<1> HIDE DEF t
<1>4. OnCache(c) /\ \A x \in Enabled : x = e => cache'[x] = t
    BY <1>1, <1>2, <1>3 DEF OnCache, CacheInv
<1> QED  BY <1>2, <1>3, <1>4, RoomKept

\* set compares the size, and evicts the oldest entry.
LEMMA MakeRoom ==
  ASSUME CacheInv, NEW c \in Callers, SetCache(c) \/ Evict(c)
  PROVE  CacheInv'
<1> DEFINE e == caller[c].enricher
<1>0. /\ DOMAIN caller = Callers
      /\ \A d \in Callers : DOMAIN caller[d] = CallerFields /\ caller[d].key \in Key
      /\ {"at", "enricher", "key", "seen"} \subseteq CallerFields
    BY DEF CacheInv, CallerType, CallerFields
<1>1. /\ CallerType' /\ \A d \in Callers \ {c} : caller'[d] = caller[d]
      /\ caller'[c].enricher = e /\ caller[c].at # "write"
  <2>1. CASE SetCache(c)
      BY <1>0, <2>1 DEF SetCache, CallerType
  <2>2. CASE Evict(c)
      BY <1>0, <2>2 DEF Evict, CallerType
  <2> QED  BY <2>1, <2>2
<1>2. CASE cache' = cache
  <2>1. OnCache(c)
      BY <1>1, <1>2 DEF OnCache, CacheInv
  <2>2. e \in Enabled => caller'[c].at # "write" \/ ~Full(e)
    <3>1. CASE SetCache(c)
        BY <1>0, <3>1 DEF SetCache
    <3>2. CASE Evict(c)
      <4>1. CASE caller'[c].at = "failed"
          BY <4>1
      <4>2. CASE cache[e] # <<>> /\ cache' = [cache EXCEPT ![e] = Tail(@)]
        <5>1. e \in Enabled => cache[e] \in Seq(Entry) /\ cache'[e] = Tail(cache[e])
            BY <4>2 DEF CacheInv
        <5>2. e \in Enabled => Len(Tail(cache[e])) = Len(cache[e]) - 1 /\ Len(cache[e]) \in Nat
            BY <4>2, <5>1
        <5>3. e \in Enabled => cache'[e] = cache[e]
            BY <1>2
        <5>4. e \in Enabled => Len(Tail(cache[e])) = Len(cache[e])
            BY <5>1, <5>3
        <5>5. e \notin Enabled
            BY <5>2, <5>4
        <5> QED  BY <5>5
      <4> QED  BY <1>0, <3>2, <4>1, <4>2 DEF Evict
    <3> QED  BY <3>1, <3>2
  <2>3. \A x \in Enabled : Len(cache[x]) \in Nat
      BY DEF CacheInv
  <2> QED  BY <1>1, <1>2, <2>1, <2>2, <2>3, RoomKept
<1>3. CASE cache[e] # <<>> /\ cache' = [cache EXCEPT ![e] = Tail(@)] /\ caller'[c].at = "write"
  <2>1. ASSUME e \in Enabled
        PROVE  /\ Tail(cache[e]) \in Seq(Entry) /\ KeysDistinct(Tail(cache[e]))
               /\ Len(Tail(cache[e])) = Len(cache[e]) - 1
    <3> DEFINE s == cache[e]
    <3>1. s \in Seq(Entry) /\ KeysDistinct(s) /\ s # <<>>
        BY <1>3, <2>1 DEF CacheInv
    <3> HIDE DEF s
    <3>2. /\ Tail(s) \in Seq(Entry) /\ Len(Tail(s)) = Len(s) - 1 /\ Len(s) \in Nat
          /\ \A i \in DOMAIN Tail(s) : i + 1 \in DOMAIN s /\ Tail(s)[i] = s[i + 1] /\ i \in Nat
        BY <3>1
    <3>3. KeysDistinct(Tail(s))
      <4> SUFFICES ASSUME NEW i \in DOMAIN Tail(s), NEW j \in DOMAIN Tail(s),
                          Tail(s)[i].key = Tail(s)[j].key
                   PROVE  i = j
          BY DEF KeysDistinct
      <4>1. i + 1 = j + 1 /\ i \in Nat /\ j \in Nat
          BY <3>1, <3>2 DEF KeysDistinct
      <4> QED  BY <4>1
    <3> QED  BY <3>2, <3>3 DEF s
  <2>2. OnCache(c) /\ \A x \in Enabled : x = e => cache'[x] = Tail(cache[e])
      BY <1>1, <1>3, <2>1 DEF OnCache, CacheInv
  <2> QED  BY <1>1, <1>3, <2>1, <2>2, RoomKept
<1>4. \/ cache' = cache
      \/ cache[e] # <<>> /\ cache' = [cache EXCEPT ![e] = Tail(@)] /\ caller'[c].at = "write"
    BY <1>0 DEF SetCache, Evict
<1> QED  BY <1>2, <1>3, <1>4

\* set writes its entry.
LEMMA WriteCacheCache ==
  ASSUME CacheInv, NEW c \in Callers, WriteCache(c)
  PROVE  CacheInv'
<1> DEFINE e == caller[c].enricher
           key == caller[c].key
           t == Without(e, key)
           new == [key |-> key, stale |-> FALSE]
           u == Append(t, new)
<1>1. cache' = [cache EXCEPT ![e] = u]
    BY DEF WriteCache
<1>2. ASSUME e \in Enabled
      PROVE  u \in Seq(Entry) /\ Len(u) <= Len(cache[e]) + 1 /\ KeysDistinct(u)
  <2>1. /\ t \in Seq(Entry) /\ Len(t) <= Len(cache[e]) /\ KeysDistinct(t)
        /\ \A j \in DOMAIN t : t[j].key # key
      BY <1>2, WithoutFacts DEF CacheInv, Without
  <2>2. new \in Entry /\ new.key = key
      BY DEF Entry, CacheInv, CallerType
  <2>3. Len(cache[e]) \in Nat
      BY <1>2 DEF CacheInv
  <2> HIDE DEF t, new
  <2>4. /\ u \in Seq(Entry) /\ Len(u) = Len(t) + 1 /\ Len(t) \in Nat
        /\ DOMAIN u = 1 .. Len(t) + 1 /\ DOMAIN t = 1 .. Len(t)
        /\ \A i \in 1 .. Len(t) : u[i] = t[i]
        /\ u[Len(t) + 1] = new
      BY <2>1, <2>2
  <2> HIDE DEF u
  <2>5. KeysDistinct(u)
      BY <2>1, <2>2, <2>4 DEF KeysDistinct
  <2> QED  BY <2>1, <2>3, <2>4, <2>5
<1>3. /\ CallerType' /\ \A d \in Callers \ {c} : caller'[d] = caller[d]
      /\ caller'[c].at # "write" /\ caller[c].at = "write"
    BY CallerKept DEF WriteCache
<1> HIDE DEF u
<1>4. OnCache(c) /\ \A x \in Enabled : x = e => cache'[x] = u
    BY <1>1, <1>2, <1>3 DEF OnCache, CacheInv
<1> QED  BY <1>2, <1>3, <1>4, RoomKept

\* Time makes an entry stale and keeps its key.
LEMMA ExpireCache ==
  ASSUME CacheInv, NEW e \in Enabled, Expire(e)
  PROVE  CacheInv'
<1>1. PICK i \in DOMAIN cache[e] :
        cache' = [cache EXCEPT ![e][i].stale = TRUE] /\ caller' = caller
    BY DEF Expire
<1>2. cache \in [Enabled -> Seq(Entry)]
    BY DEF CacheInv
<1> DEFINE s == cache[e]
           t == [s EXCEPT ![i] = [@ EXCEPT !.stale = TRUE]]
<1>3. s \in Seq(Entry) /\ i \in 1 .. Len(s) /\ s[i] \in Entry
    BY <1>1, <1>2
<1>4. [s[i] EXCEPT !.stale = TRUE] \in Entry /\ [s[i] EXCEPT !.stale = TRUE].key = s[i].key
    BY <1>3 DEF Entry
<1>5. t \in Seq(Entry) /\ Len(t) = Len(s) /\ DOMAIN t = DOMAIN s
      /\ \A j \in DOMAIN s : t[j].key = s[j].key
    BY <1>3, <1>4
<1>6. cache' = [cache EXCEPT ![e] = t]
    BY <1>1
<1> HIDE DEF t
<1>7. cache' \in [Enabled -> Seq(Entry)]
    BY <1>2, <1>5, <1>6
<1>8. ASSUME NEW x \in Enabled PROVE KeysDistinct(cache'[x]) /\ Len(cache'[x]) = Len(cache[x])
    BY <1>2, <1>5, <1>6 DEF CacheInv, KeysDistinct
<1>9. ASSUME NEW x \in Enabled PROVE Room(x)'
  <2>1. At(x, "write")' = At(x, "write")
      BY <1>1 DEF At
  <2> QED  BY <1>8, <2>1 DEF CacheInv, Room
<1>10. CallerType'
    BY <1>1 DEF CacheInv, CallerType
<1> QED  BY <1>7, <1>8, <1>9, <1>10 DEF CacheInv

\* Without a lock the threads overfill the cache by no more than their number less
\* one, and a key is never in it twice.
THEOREM CacheStaysNearlyBounded == Spec => []CacheNearlyBounded
<1>1. Init => CacheInv
  <2> SUFFICES ASSUME Init PROVE CacheInv
      OBVIOUS
  <2>1. cache \in [Enabled -> Seq(Entry)] /\ \A e \in Enabled : KeysDistinct(cache[e])
      BY DEF Init, KeysDistinct
  <2>2. CallerType
      BY DEF Init, Idle, CallerType, CallerFields, Key
  <2>3. ASSUME NEW e \in Enabled PROVE Room(e)
    <3>1. At(e, "write") = {} /\ Len(cache[e]) = 0
        BY DEF Init, Idle, At
    <3>2. Cardinality(Callers) \in Nat /\ MaxSize \in Nat \ {0} /\ Cardinality({}) = 0
        BY EnrichmentAssumption, FS_CardinalityType, FS_EmptySet
    <3>3. Cardinality(At(e, "write")) = 0
        BY <3>1, <3>2
    <3>4. 0 + 0 <= MaxSize + Cardinality(Callers) - 1
        BY <3>2
    <3> QED  BY <3>1, <3>3, <3>4 DEF Room
  <2> QED  BY <2>1, <2>2, <2>3 DEF CacheInv
<1>2. CacheInv /\ [Next]_vars => CacheInv'
  <2> SUFFICES ASSUME CacheInv, [Next]_vars PROVE CacheInv'
      OBVIOUS
  <2>1. ASSUME NEW c \in Callers, Step(c) \/ \E o \in Observables : Enrich(c, o)
        PROVE  CacheInv'
      BY <2>1, QuietCacheSteps, DeleteExpiredCache, MakeRoom, WriteCacheCache DEF Step
  <2>2. CASE UNCHANGED <<cache, caller>>
      BY <2>2 DEF CacheInv, CallerType, Room, At
  <2>3. ASSUME NEW e \in Enabled, Expire(e) PROVE CacheInv'
      BY <2>3, ExpireCache
  <2>4. \A e \in Enabled : CoolDown(e) => UNCHANGED <<cache, caller>>
      BY DEF CoolDown
  <2>5. Outage \/ UNCHANGED vars => UNCHANGED <<cache, caller>>
      BY DEF Outage, vars
  <2> QED  BY <2>1, <2>2, <2>3, <2>4, <2>5 DEF Next
<1>3. CacheInv => CacheNearlyBounded
    BY KeysCounted DEF CacheInv, Room, CacheNearlyBounded
<1> QED  BY <1>1, <1>2, <1>3, PTL DEF Spec
=============================================================================
