------------------------------- MODULE Ingestion -------------------------------
(***************************************************************************)
(* IngestionPipeline.run_batch of threaticap/ingestion/pipeline.py: one    *)
(* thread per connector, at most PoolSize at a time, all of them calling   *)
(* one AlertDeduplicator, whose _LRUCache has no lock.                     *)
(*                                                                         *)
(* CPython 3.11 switches threads at calls, so a step is what runs between  *)
(* two calls: contains reads the entry, calls datetime.now() and then      *)
(* deletes or touches it; add calls datetime.now() and then stores; it     *)
(* calls len() and then evicts.  The counters' += has no call inside.      *)
(*                                                                         *)
(* An event stands for the fields of an alert that compute_hash reads,     *)
(* apart from source_id.  The normaliser and the enricher's steps do not   *)
(* touch what threads share and belong to the step before or after.        *)
(***************************************************************************)
EXTENDS Integers, Sequences, FiniteSets, SequencesExt

CONSTANTS
  Connectors,    \* _connectors: the registered connectors, in order
  SourceId,      \* source_id of the alerts of each connector
  Feed,          \* what fetch_raw of each connector yields in every batch
  Event,         \* what the feeds hold
  Heartbeat,     \* events normalise answers None for
  Malformed,     \* events normalise raises for
  Unenrichable,  \* events enrich raises for
  PoolSize,      \* max_concurrent_connectors
  MaxSize,       \* dedup_cache_size
  TTL,           \* dedup_ttl_seconds
  MaxTime,       \* bound: the clock
  MaxBatches     \* bound: calls of run_batch

Connector == ToSet(Connectors)
Source == {SourceId[c] : c \in Connector}
Key == Source \X Event    \* the content hashes
Time == 0 .. MaxTime
Never == -1

\* A connector is registered once: it has one thread.
ASSUME IngestionAssumption ==
  /\ Connectors \in Seq(Connector) /\ IsInjective(Connectors)
  /\ Feed \in [Connector -> Seq(Event)]
  /\ Heartbeat \cup Malformed \cup Unenrichable \subseteq Event
  /\ PoolSize \in Nat \ {0}
  /\ MaxSize \in Nat
  /\ TTL \in Nat
  /\ MaxTime \in Nat
  /\ MaxBatches \in Nat

VARIABLES
  now,         \* the clock
  batches,     \* calls of run_batch so far
  queue,       \* connectors the executor has not started
  at,          \* where the thread of each connector is
  todo,        \* raw alerts it has still to process
  stamp,       \* the datetime.now() it holds in contains or add
  raced,       \* history: threads whose process met another on the same hash
  result,      \* its IngestResult
  collected,   \* all_alerts of run_batch, by connector
  store,       \* _store: the hashes, least recently used first
  insertedAt,  \* _store: the time of insertion of each
  admitted,    \* history: the time a hash was last stored with, or Never
  evicted,     \* history: hashes popitem dropped since
  dropped      \* history: alerts, no duplicates, that the cache raised for

threadVars == <<queue, at, todo, stamp, raced, result>>
cacheVars == <<store, insertedAt>>
historyVars == <<admitted, evicted, dropped>>
vars == <<now, batches, threadVars, collected, cacheVars, historyVars>>

\* Inside process, and everywhere.
AtAlert == {"fresh", "stale", "add", "store", "evict"}
Place == {"out", "queued", "next", "done"} \cup AtAlert

EmptyResult == [alerts |-> <<>>, deduplicated |-> 0, errors |-> 0]

\* The types; a hash is in the OrderedDict at most once.
TypeOK ==
  /\ now \in Time
  /\ batches \in 0 .. MaxBatches
  /\ queue \in Seq(Connector)
  /\ at \in [Connector -> Place]
  /\ todo \in [Connector -> Seq(Event)]
  /\ stamp \in [Connector -> Time]
  /\ raced \subseteq Connector
  /\ result \in [Connector -> [alerts : Seq(Event), deduplicated : Nat, errors : Nat]]
  /\ collected \in [Connector -> Seq(Event)]
  /\ store \in Seq(Key) /\ IsInjective(store)
  /\ insertedAt \in [Key -> Time]
  /\ admitted \in [Key -> Time \cup {Never}]
  /\ evicted \subseteq Key
  /\ dropped \subseteq Connector \X Event

Init ==
  /\ now = 0
  /\ batches = 0
  /\ queue = <<>>
  /\ at = [c \in Connector |-> "out"]
  /\ todo = [c \in Connector |-> <<>>]
  /\ stamp = [c \in Connector |-> 0]
  /\ raced = {}
  /\ result = [c \in Connector |-> EmptyResult]
  /\ collected = [c \in Connector |-> <<>>]
  /\ store = <<>>
  /\ insertedAt = [k \in Key |-> 0]
  /\ admitted = [k \in Key |-> Never]
  /\ evicted = {}
  /\ dropped = {}

-----------------------------------------------------------------------------
\* The executor of run_batch.

Running == {c \in Connector : at[c] \notin {"out", "queued", "done"}}

\* run_batch is called again: every registered connector is submitted.
RunBatch ==
  /\ batches < MaxBatches
  /\ \A c \in Connector : at[c] = "out"
  /\ batches' = batches + 1
  /\ queue' = Connectors
  /\ at' = [c \in Connector |-> "queued"]
  /\ collected' = [c \in Connector |-> <<>>]
  /\ result' = [c \in Connector |-> EmptyResult]
  /\ UNCHANGED <<now, todo, stamp, raced, cacheVars, historyVars>>

\* A pool thread takes the next connector, connects and fetches everything;
\* a connector that raises here ends its future with the exception.
StartConnector(c) ==
  /\ queue # <<>>
  /\ c = Head(queue)
  /\ Cardinality(Running) < PoolSize
  /\ queue' = Tail(queue)
  /\ \/ /\ at' = [at EXCEPT ![c] = "next"]
        /\ todo' = [todo EXCEPT ![c] = Feed[c]]
     \/ /\ at' = [at EXCEPT ![c] = "done"]
        /\ UNCHANGED todo
  /\ UNCHANGED <<now, batches, stamp, raced, result, collected, cacheVars, historyVars>>

\* ingest_alerts returns.
FinishConnector(c) ==
  /\ at[c] = "next"
  /\ todo[c] = <<>>
  /\ at' = [at EXCEPT ![c] = "done"]
  /\ UNCHANGED <<now, batches, queue, todo, stamp, raced, result, collected>>
  /\ UNCHANGED <<cacheVars, historyVars>>

\* as_completed hands the finished future to run_batch.
Collect(c) ==
  /\ at[c] = "done"
  /\ at' = [at EXCEPT ![c] = "out"]
  /\ collected' = [collected EXCEPT ![c] = result[c].alerts]
  /\ UNCHANGED <<now, batches, queue, todo, stamp, raced, result, cacheVars, historyVars>>

-----------------------------------------------------------------------------
\* One raw alert of ingest_alerts, the first of todo[c].

Current(c) == Head(todo[c])
Hash(c) == <<SourceId[c], Current(c)>>
Cached(k) == Contains(store, k)

\* Mutant: the touched entry also stays where it was.
TouchCopies(k) == Append(store, k)

\* move_to_end.
Touch(k) == Append(RemoveFirst(store, k), k)

\* The loop goes on to the next raw alert, with r as the result so far.
GoOn(c, r) ==
  /\ at' = [at EXCEPT ![c] = "next"]
  /\ todo' = [todo EXCEPT ![c] = Tail(@)]
  /\ stamp' = [stamp EXCEPT ![c] = 0]
  /\ raced' = raced \ {c}
  /\ result' = [result EXCEPT ![c] = r]

\* Mutant: a raw alert that raises is tried again.
RaiseAndRetry(c) ==
  /\ at' = [at EXCEPT ![c] = "next"]
  /\ stamp' = [stamp EXCEPT ![c] = 0]
  /\ raced' = raced \ {c}
  /\ UNCHANGED <<todo, result>>

\* An exception reaches the handler of ingest_alerts.
Raise(c) == GoOn(c, [result[c] EXCEPT !.errors = @ + 1])

\* Mutant: an alert is added to the result before it is enriched.
AppendThenEnrich(c) ==
  GoOn(c, [result[c] EXCEPT !.alerts = Append(@, Current(c)),
             !.errors = IF Current(c) \in Unenrichable THEN @ + 1 ELSE @])

\* process let the alert through: it is enriched and added to the result.
LetThrough(c) ==
  IF Current(c) \in Unenrichable
    THEN Raise(c)
    ELSE GoOn(c, [result[c] EXCEPT !.alerts = Append(@, Current(c))])

\* normalise answers None or raises; the cache is not asked.
NotAnAlert(c) ==
  /\ at[c] = "next"
  /\ todo[c] # <<>>
  /\ \/ Current(c) \in Heartbeat /\ GoOn(c, result[c])
     \/ Current(c) \in Malformed \ Heartbeat /\ Raise(c)
  /\ UNCHANGED <<now, batches, queue, collected, cacheVars, historyVars>>

\* Mutant: an entry is stale as soon as it is as old as the TTL.
ExpiredEarly(k) == now - insertedAt[k] >= TTL

Expired(k) == now - insertedAt[k] > TTL

\* The other threads that process the same hash.
Rivals(c) == {d \in Connector \ {c} : at[d] \in AtAlert /\ Hash(d) = Hash(c)}

\* contains, up to and including its datetime.now().
LookUp(c) ==
  /\ at[c] = "next"
  /\ todo[c] # <<>>
  /\ Current(c) \notin Heartbeat \cup Malformed
  /\ LET k == Hash(c) IN
       IF Cached(k)
         THEN /\ at' = [at EXCEPT ![c] = IF Expired(k) THEN "stale" ELSE "fresh"]
              /\ stamp' = [stamp EXCEPT ![c] = now]
         ELSE /\ at' = [at EXCEPT ![c] = "add"]
              /\ UNCHANGED stamp
  /\ raced' = IF Rivals(c) = {} THEN raced ELSE raced \cup Rivals(c) \cup {c}
  /\ UNCHANGED <<now, batches, queue, todo, result, collected, cacheVars, historyVars>>

\* Mutant: a duplicate renews its entry.
SuppressAndRenew(c) ==
  /\ at[c] = "fresh"
  /\ IF Cached(Hash(c))
       THEN /\ store' = Touch(Hash(c))
            /\ insertedAt' = [insertedAt EXCEPT ![Hash(c)] = stamp[c]]
            /\ GoOn(c, [result[c] EXCEPT !.deduplicated = @ + 1])
       ELSE UNCHANGED cacheVars /\ Raise(c)
  /\ UNCHANGED <<now, batches, queue, collected, historyVars>>

\* contains finds a live entry: move_to_end, which raises KeyError if another
\* thread has evicted the entry since.
Suppress(c) ==
  /\ at[c] = "fresh"
  /\ IF Cached(Hash(c))
       THEN /\ store' = Touch(Hash(c))
            /\ GoOn(c, [result[c] EXCEPT !.deduplicated = @ + 1])
       ELSE UNCHANGED store /\ Raise(c)
  /\ UNCHANGED <<now, batches, queue, collected, insertedAt, historyVars>>

\* contains finds a stale entry: del, which raises KeyError likewise.
Forget(c) ==
  /\ at[c] = "stale"
  /\ IF Cached(Hash(c))
       THEN /\ store' = RemoveFirst(store, Hash(c))
            /\ at' = [at EXCEPT ![c] = "add"]
            /\ UNCHANGED <<todo, stamp, raced, result, dropped>>
       ELSE /\ dropped' = dropped \cup {<<c, Current(c)>>}
            /\ Raise(c)
            /\ UNCHANGED store
  /\ UNCHANGED <<now, batches, queue, collected, insertedAt, admitted, evicted>>

\* add, up to and including its datetime.now(); an entry another thread has
\* stored meanwhile is touched, and the alert passes all the same.
Add(c) ==
  /\ at[c] = "add"
  /\ IF Cached(Hash(c))
       THEN /\ store' = Touch(Hash(c))
            /\ LetThrough(c)
       ELSE /\ at' = [at EXCEPT ![c] = "store"]
            /\ stamp' = [stamp EXCEPT ![c] = now]
            /\ UNCHANGED <<todo, raced, result, store>>
  /\ UNCHANGED <<now, batches, queue, collected, insertedAt, historyVars>>

\* Mutant: the size is compared before the entry is in.
TooBigBefore(s) == Len(store) > MaxSize

TooBig(s) == Len(s) > MaxSize

\* The entry is stored, and len() taken.
Store(c) ==
  LET k == Hash(c) IN
  /\ at[c] = "store"
  /\ store' = IF Cached(k) THEN store ELSE Append(store, k)
  /\ insertedAt' = [insertedAt EXCEPT ![k] = stamp[c]]
  /\ admitted' = [admitted EXCEPT ![k] = stamp[c]]
  /\ evicted' = evicted \ {k}
  /\ IF TooBig(store')
       THEN at' = [at EXCEPT ![c] = "evict"] /\ UNCHANGED <<todo, stamp, raced, result>>
       ELSE LetThrough(c)
  /\ UNCHANGED <<now, batches, queue, collected, dropped>>

\* popitem(last=False), which raises KeyError if other threads emptied _store.
Evict(c) ==
  /\ at[c] = "evict"
  /\ IF store # <<>>
       THEN /\ store' = Tail(store)
            /\ evicted' = evicted \cup {Head(store)}
            /\ LetThrough(c)
            /\ UNCHANGED dropped
       ELSE /\ dropped' = dropped \cup {<<c, Current(c)>>}
            /\ Raise(c)
            /\ UNCHANGED <<store, evicted>>
  /\ UNCHANGED <<now, batches, queue, collected, insertedAt, admitted>>

Tick ==
  /\ now < MaxTime
  /\ now' = now + 1
  /\ UNCHANGED <<batches, threadVars, collected, cacheVars, historyVars>>

\* What the thread of connector c does, and the future that waits for it.
Thread(c) ==
  \/ StartConnector(c) \/ FinishConnector(c) \/ Collect(c)
  \/ NotAnAlert(c) \/ LookUp(c) \/ Suppress(c) \/ Forget(c)
  \/ Add(c) \/ Store(c) \/ Evict(c)

Next == RunBatch \/ Tick \/ \E c \in Connector : Thread(c)

Spec == Init /\ [][Next]_vars

\* The operating system runs every pool thread again and again.
FairSpec == Spec /\ \A c \in Connector : WF_vars(Thread(c))

-----------------------------------------------------------------------------
\* Properties.

\* A hash passes twice within dedup_ttl_seconds of its last insertion only if it
\* was evicted for space in between, or if another thread was in process with the
\* same hash: check and insertion are two calls of an unlocked cache, so such
\* threads may both pass, and one may delete the entry another has just stored.
\* A call that meets no such thread does not suffer from those that did.
OncePerWindow ==
  \A c \in Connector \ raced :
    /\ at[c] = "add" => ~Cached(Hash(c))
    /\ at[c] = "store" =>
         \/ admitted[Hash(c)] = Never
         \/ stamp[c] - admitted[Hash(c)] > TTL
         \/ Hash(c) \in evicted

\* The window is fixed: a call that meets no other thread on its hash takes its
\* alert for a duplicate only while the last insertion is no older than the TTL,
\* however often duplicates touched the entry in between (contains moves the
\* entry but keeps its time) and whichever threads raced for it before.
WindowIsFixed ==
  \A c \in Connector \ raced : at[c] = "fresh" =>
    /\ admitted[Hash(c)] # Never
    /\ stamp[c] - admitted[Hash(c)] <= TTL

\* The cache exceeds its size only by what the threads between the insertion
\* and their popitem have added.
CacheBounded ==
  Len(store) <= MaxSize + Cardinality({c \in Connector : at[c] = "evict"})

\* When a connector's future completes, its IngestResult accounts for every
\* raw alert of the batch: none is counted twice and none vanishes, whichever
\* step raised.
EveryAlertAccounted ==
  \A c \in Connector : at[c] = "done" =>
    LET counted == Len(result[c].alerts) + result[c].deduplicated + result[c].errors
        heartbeats == Cardinality({i \in DOMAIN Feed[c] : Feed[c][i] \in Heartbeat})
    IN counted \in {0, Len(Feed[c]) - heartbeats}

\* run_batch returns: all futures complete, although connectors fail, alerts
\* raise and the pool is smaller than the number of connectors.
BatchEnds ==
  \A c \in Connector : at[c] # "out" ~> at[c] = "out"


=============================================================================
