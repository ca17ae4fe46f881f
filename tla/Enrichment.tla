------------------------------ MODULE Enrichment ------------------------------
(***************************************************************************)
(* threaticap/enrichment/broker.py: threads look observables up through    *)
(* one EnrichmentBroker, whose enrichers have a circuit breaker and a      *)
(* cache without a lock.  A step is what a thread runs between two calls.  *)
(* Time is abstracted to what the code asks of it: whether a cache entry   *)
(* is older than its TTL, and whether the last failure is further back     *)
(* than the reset timeout.                                                 *)
(***************************************************************************)
EXTENDS Naturals, Sequences, FiniteSets, SequencesExt

CONSTANTS
  Callers,           \* threads
  Observables,       \* [type, value]: what they look up
  Enabled,           \* the enrichers that are configured and enabled
  MaxSize,           \* max_size of a cache
  FailureThreshold   \* failures that open a circuit

ASSUME EnrichmentAssumption ==
  /\ IsFiniteSet(Callers)
  /\ MaxSize \in Nat \ {0}
  /\ FailureThreshold \in Nat \ {0}

Enrichers == {"reputation", "cve", "cmdb"}

\* enrich_observable and enrich_asset: who is asked about an observable.
EnricherOf(type) ==
  IF type \in {"ipv4-addr", "domain-name", "url", "file:hashes"} THEN "reputation"
  ELSE IF type = "vulnerability" THEN "cve"
  ELSE IF type = "asset" THEN "cmdb"
  ELSE "nobody"

Keys == {o.value : o \in Observables}

VARIABLES
  up,       \* do the services answer?
  cache,    \* of each enricher: its entries, the oldest first
  breaker,  \* of each enricher: state, _failure_count, is the last failure long ago
  caller    \* of each thread: where it is, whom it asks what

vars == <<up, cache, breaker, caller>>

Idle == [at |-> "idle", enricher |-> "nobody", key |-> "none", seen |-> {}]

CachedKeys(e) == {cache[e][i].key : i \in DOMAIN cache[e]}
Without(e, key) == RemoveFirstMatch(cache[e], LAMBDA x : x.key = key)

Init ==
  /\ up = TRUE
  /\ cache = [e \in Enabled |-> <<>>]
  /\ breaker = [e \in Enabled |-> [state |-> "CLOSED", failures |-> 0, cooled |-> FALSE]]
  /\ caller = [c \in Callers |-> Idle]

Goto(c, at) == caller' = [caller EXCEPT ![c].at = at]
Return(c) == caller' = [caller EXCEPT ![c] = Idle]

-----------------------------------------------------------------------------
(* BaseEnricher.enrich *)

\* An observable of another type, or a disabled enricher, gives {} at once.
Enrich(c, o) ==
  /\ caller[c].at = "idle"
  /\ EnricherOf(o.type) \in Enabled
  /\ caller' = [caller EXCEPT ![c] =
       [at |-> "lookup", enricher |-> EnricherOf(o.type), key |-> o.value, seen |-> {}]]
  /\ UNCHANGED <<up, cache, breaker>>

\* _TTLCache.get up to its clock: a fresh entry is the answer.
Lookup(c) ==
  LET e == caller[c].enricher
      entry(x) == x.key = caller[c].key
  IN /\ caller[c].at = "lookup"
     /\ \/ caller[c].key \notin CachedKeys(e) /\ Goto(c, "ask")
        \/ \E i \in DOMAIN cache[e] :
             entry(cache[e][i]) /\ IF cache[e][i].stale THEN Goto(c, "expired") ELSE Return(c)
     /\ UNCHANGED <<up, cache, breaker>>

\* del of the entry, which another thread may have deleted: KeyError leaves
\* enrich.  It may also have renewed it: the new entry is deleted.
DeleteExpired(c) ==
  LET e == caller[c].enricher IN
  /\ caller[c].at = "expired"
  /\ IF caller[c].key \in CachedKeys(e) THEN Goto(c, "ask") ELSE Return(c)
  /\ cache' = [cache EXCEPT ![e] = Without(e, caller[c].key)]
  /\ UNCHANGED <<up, breaker>>

\* is_available, up to its clock if the circuit is open.
IsAvailable(c) ==
  /\ caller[c].at = "ask"
  /\ Goto(c, IF breaker[caller[c].enricher].state = "OPEN" THEN "open" ELSE "fetch")
  /\ UNCHANGED <<up, cache, breaker>>

\* Mutant: the time of the last failure is never long enough ago.
NeverHalfOpen(c) == caller[c].at = "open" /\ Return(c) /\ UNCHANGED <<up, cache, breaker>>

\* The state it writes may have changed meanwhile.
HalfOpen(c) ==
  LET e == caller[c].enricher IN
  /\ caller[c].at = "open"
  /\ IF breaker[e].cooled
     THEN breaker' = [breaker EXCEPT ![e].state = "HALF_OPEN"] /\ Goto(c, "fetch")
     ELSE UNCHANGED breaker /\ Return(c)
  /\ UNCHANGED <<up, cache>>

\* _fetch: the stubs answer {}, the registry its entry; a real service may
\* also raise.
Fetch(c) ==
  /\ caller[c].at = "fetch"
  /\ \/ up /\ Goto(c, "cache")
     \/ ~up /\ Goto(c, "failed")
  /\ UNCHANGED <<up, cache, breaker>>

\* Mutant: the size is compared with > instead of >=.
FullLate(e) == Len(cache[e]) > MaxSize

Full(e) == Len(cache[e]) >= MaxSize

\* _TTLCache.set: its size.
SetCache(c) ==
  LET e == caller[c].enricher IN
  /\ caller[c].at = "cache"
  /\ caller' = IF Full(e)
               THEN [caller EXCEPT ![c].at = "evict", ![c].seen = CachedKeys(e)]
               ELSE [caller EXCEPT ![c].at = "write"]
  /\ UNCHANGED <<up, cache, breaker>>

\* min over the entries, then del.  If other threads changed them during the
\* iteration it may raise, and the lookup counts as a failure of the service.
Evict(c) ==
  LET e == caller[c].enricher IN
  /\ caller[c].at = "evict"
  /\ \/ /\ cache[e] # <<>>
        /\ cache' = [cache EXCEPT ![e] = Tail(@)]
        /\ caller' = [caller EXCEPT ![c].at = "write", ![c].seen = {}]
     \/ /\ CachedKeys(e) # caller[c].seen
        /\ caller' = [caller EXCEPT ![c].at = "failed", ![c].seen = {}]
        /\ UNCHANGED cache
  /\ UNCHANGED <<up, breaker>>

WriteCache(c) ==
  LET e == caller[c].enricher
      key == caller[c].key
  IN /\ caller[c].at = "write"
     /\ cache' = [cache EXCEPT ![e] = Append(Without(e, key), [key |-> key, stale |-> FALSE])]
     /\ Goto(c, "succeeded")
     /\ UNCHANGED <<up, breaker>>

RecordSuccess(c) ==
  LET e == caller[c].enricher IN
  /\ caller[c].at = "succeeded"
  /\ breaker' = [breaker EXCEPT ![e].failures = 0,
                                ![e].state = IF @ = "HALF_OPEN" THEN "CLOSED" ELSE @]
  /\ Return(c)
  /\ UNCHANGED <<up, cache>>

\* The counter is only compared with the threshold and stops there.
RecordFailure(c) ==
  LET e == caller[c].enricher IN
  /\ caller[c].at = "failed"
  /\ breaker' = [breaker EXCEPT ![e].failures =
                   IF @ < FailureThreshold THEN @ + 1 ELSE FailureThreshold]
  /\ Goto(c, "counted")
  /\ UNCHANGED <<up, cache>>

\* Mutant: the threshold itself is not enough.
OpenCircuitLate(c) ==
  LET e == caller[c].enricher IN
  /\ caller[c].at = "counted"
  /\ breaker' = [breaker EXCEPT ![e].cooled = FALSE]
  /\ IF breaker[e].failures > FailureThreshold /\ breaker[e].state # "OPEN"
     THEN Goto(c, "opening")
     ELSE Return(c)
  /\ UNCHANGED <<up, cache>>

\* After time.time() in record_failure: the comparisons.  A circuit that is not
\* open yet is logged before the state is written.
OpenCircuit(c) ==
  LET e == caller[c].enricher IN
  /\ caller[c].at = "counted"
  /\ breaker' = [breaker EXCEPT ![e].cooled = FALSE]
  /\ IF breaker[e].failures >= FailureThreshold /\ breaker[e].state # "OPEN"
     THEN Goto(c, "opening")
     ELSE Return(c)
  /\ UNCHANGED <<up, cache>>

\* After logger.warning: OPEN is written although a late success may have reset
\* the counter meanwhile.
WriteOpen(c) ==
  LET e == caller[c].enricher IN
  /\ caller[c].at = "opening"
  /\ breaker' = [breaker EXCEPT ![e].state = "OPEN"]
  /\ Return(c)
  /\ UNCHANGED <<up, cache>>

Step(c) ==
  \/ Lookup(c) \/ DeleteExpired(c) \/ IsAvailable(c) \/ HalfOpen(c) \/ Fetch(c)
  \/ SetCache(c) \/ Evict(c) \/ WriteCache(c)
  \/ RecordSuccess(c) \/ RecordFailure(c) \/ OpenCircuit(c) \/ WriteOpen(c)

-----------------------------------------------------------------------------
(* Time and the services *)

\* The reset timeout of e has passed.
CoolDown(e) ==
  /\ ~breaker[e].cooled
  /\ breaker' = [breaker EXCEPT ![e].cooled = TRUE]
  /\ UNCHANGED <<up, cache, caller>>

\* The oldest fresh entry of e reaches its TTL.
Expire(e) ==
  \E i \in DOMAIN cache[e] :
    /\ ~cache[e][i].stale
    /\ \A j \in 1 .. i - 1 : cache[e][j].stale
    /\ cache' = [cache EXCEPT ![e][i].stale = TRUE]
    /\ UNCHANGED <<up, breaker, caller>>

Outage == up' = ~up /\ UNCHANGED <<cache, breaker, caller>>

Next ==
  \/ \E c \in Callers : Step(c) \/ \E o \in Observables : Enrich(c, o)
  \/ \E e \in Enabled : CoolDown(e) \/ Expire(e)
  \/ Outage

Spec == Init /\ [][Next]_vars

\* The scheduler runs every thread, and time passes; nobody has to ask, and
\* the services come and go as they like.
FairSpec ==
  /\ Spec
  /\ \A c \in Callers : WF_vars(Step(c))
  /\ \A e \in Enabled : WF_vars(CoolDown(e))

-----------------------------------------------------------------------------
(* Properties *)

At(e, at) == {c \in Callers : caller[c].enricher = e /\ caller[c].at = at}

\* Without a lock the cache still stays near its limit: each thread but one
\* can have seen room for an entry that another one filled.
CacheNearlyBounded ==
  \A e \in Enabled :
    /\ Len(cache[e]) + Cardinality(At(e, "write")) <= MaxSize + Cardinality(Callers) - 1
    /\ Len(cache[e]) = Cardinality(CachedKeys(e))

\* A service that failed FailureThreshold times without a success in between
\* is not asked like a healthy one, unless a thread is just about to open the
\* circuit: it leaves OPEN through HALF_OPEN only, and HALF_OPEN towards CLOSED
\* with the counter at 0.  (It says nothing of a failed probe: after a late
\* success has reset the counter, one failure while HALF_OPEN does not reopen.)
OutageOpensCircuit ==
  \A e \in Enabled :
    breaker[e].failures = FailureThreshold /\ At(e, "counted") \cup At(e, "opening") = {}
      => breaker[e].state \in {"OPEN", "HALF_OPEN"}

\* A circuit is never open for good: as long as lookups come, the service is
\* asked again and again, whatever late answers do to the circuit.  (It need
\* not close again, even if the service recovers: all lookups pass while it is
\* HALF_OPEN, and a failure of the cache, which Evict shows, counts too.)
OpenCircuitIsProbed ==
  \A e \in Enabled :
    []<>(At(e, "ask") # {}) => []<>(breaker[e].state # "OPEN")
=============================================================================
