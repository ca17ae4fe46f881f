# ThreatICAP: TLA+ specifications

Formal specifications of the Python backend in `src/threaticap/`: modules that
model its stateful parts, TLC instances that check them, and TLAPS proofs of the
results that matter most. Paths below are relative to `src/threaticap/`.

    tlc -workers 2 -config MCStreamConsumer.cfg MCStreamConsumer.tla    # one run
    tlapm Streaming_proofs.tla                                          # one proof

`PROJECT.json` lists the components, the runs, for each property a mutation of
the model that breaks it, the source lines of every definition, the hazards and
the theorems.

## 1. The system

Alerts come from connectors (files, HTTP feeds) or over a Redis stream, are
normalised, deduplicated and enriched, correlated into threats, scored, and
reported.

| Component | State | Operations | Hard behaviour |
|---|---|---|---|
| Stream producer and consumer (`ingestion/stream_consumer.py`) | Redis stream, consumer group, pending entry list (PEL), dead-letter stream; `_queue_depth`, `_stop_event` | publish, publish_batch, _ensure_group, start, _process_pending, _process_messages, _dead_letter, stop | several processes, crashes, Redis calls that fail before or after they take effect, trimming, retries |
| Streaming manager (same file) | `_pending`, `_lock`, `_last_flush` | _handle_message, _flush, _flush_loop | two threads per process, a callback under the lock, a process that ends with alerts in memory |
| Ingestion pipeline and deduplicator (`ingestion/pipeline.py`, `deduplicator.py`) | registered connectors, one LRU cache with a TTL, counters | run_batch, ingest_alerts, process | a pool of threads on one cache without a lock |
| Normaliser, enricher (`ingestion/`) | none | normalise, enrich | raise on bad data after the cache was updated |
| Connectors (`ingestion/connectors/`) | client sessions | connect, fetch_raw, normalise | fail at any point |
| Correlation engine (`correlation/engine.py`) | union-find of one call | correlate | result must not depend on the order of links; recursion; confidence kept at roots that change |
| Correlators, attack graph (`correlation/`) | none | correlate, centrality, paths | order of pairs, thresholds |
| False-positive filter and learning (`correlation/fp_*.py`) | `FeedbackStore` counters and its file | compute, record, _save, _load | concurrent saves, crash while saving |
| Prioritisation and missions (`scoring/`) | the mission context, replaced at run time | score, score_batch, update_mission_context | ranges, rounding at tier thresholds, a reload between two reads |
| Threat pipeline (`pipeline.py`, `cli.py`) | none of its own; writes the repositories | run | partial failure between saves, reprocessing |
| Repositories (`storage/`) | in-memory maps, or PostgreSQL tables and a pool | save, list, evict | eviction, foreign keys, transactions, pool exhaustion |
| Migrations (`storage/migrations.py`) | `schema_migrations` | run_migrations | several runners, crash between statements |
| API, authentication (`api/`) | repositories, API keys | submit, run, feedback, export | calls in any order, roles, TLP clearance |
| Enrichment broker (`enrichment/broker.py`) | circuit breakers, TTL caches | enrich, record_success/failure | late answers against breaker states |
| Feed quality (`intel_quality/`) | indicators, sources, a file | record_*, decay, retire, save/load | averages, staleness, crash while saving |
| Cross-domain transfer (`transfer/`) | connectivity state, queue of bundles | check, seal/verify, set_*, flush | decision tables, sequences of state changes |
| Classification (`classification/`) | none | is_shareable_with, sanitise, export | lattice of levels and TLP |
| MITRE mapping and campaigns (`mapping/`, `analysis/`) | technique table | load, map, reconstruct | two loaders, whose order decides |
| BLUF reports (`reporting/`) | none | generate, render | markings must survive every rendering |
| Models, metrics, frontend | none that others depend on | - | - |

Interactions: `ThreatPipeline.run` calls the correlation engine, the mapper,
the prioritisation engine, the report generator and the repositories in one
thread. The API calls `run` and the repositories. The streaming manager owns a
consumer and calls back into a pipeline of its user's choice. The deduplicator is
shared by the threads of `run_batch`. `IngestionPipeline` is run by `cli.py`;
the manager, the broker, the feedback store and the disconnected mode are
library parts that the API does not wire up.

What makes each component correct is the list of hazards in `PROJECT.json`, each
at its line, with the properties that cover it or the reason none does yet.

## 2. Modules

| Module | Models | Kind |
|---|---|---|
| `AtLeastOnce` | what a stream promises its handler | abstract specification |
| `StreamConsumer` | producers, Redis, consumer processes | implements `AtLeastOnce` |
| `StreamingManager` | the manager, on top of `StreamConsumer` | extends it |
| `Ingestion` | run_batch, ingest_alerts, the LRU cache | |
| `Clustering` | what correlate promises | abstract specification |
| `Correlation` | correlate and `_UnionFind` | implements `Clustering` |
| `Storage` | the repositories, in memory and on PostgreSQL | operators |
| `Auth` | roles, keys, tokens | operators |
| `Migrations` | run_migrations, any number of runners | actions used by `ThreatPipeline` |
| `ThreatPipeline` | `run` behind the API and the command line, with failures | composes the three above |
| `Enrichment` | threads on one circuit breaker and one cache | |
| `Alerts` | the fields of an alert | operators |
| `FpFilter` | the heuristic false-positive probability | operators |
| `Learning` | feedback and feed quality, their files, the blended probability | extends `FpFilter` |
| `Intake` | normaliser and enricher | operators |
| `Correlators` | the four pair correlators | operators |
| `Threats` | links, boosts, groups, the fields of a threat | operators |
| `Missions`, `Scoring` | mission impact; the score and its tier | operators |
| `Campaign` | MITRE mapping, campaign reconstruction | operators |
| `Bluf` | reports and their renderings | operators |
| `Triage` | what a run decides of a batch while clock and missions change | composes the seven above |
| `Sharing` | TLP and caveat decisions, sanitisers, STIX export | operators |
| `Transfer` | partner export over a link, packages across domains | composes `Sharing` with `Intake`'s and `Bluf`'s markings |
| `Streaming_proofs` (consumer and manager), `Ingestion_proofs`, `Correlation_proofs`, `ThreatPipeline_proofs`, `Enrichment_proofs`, `Learning_proofs`, `Triage_proofs`, `Transfer_proofs` | theorems | TLAPS |
| `MC*` | instances for TLC | |

Some modules hold definitions with the comment "Mutant:". They are not part of
any specification: each is a plausible bug of one definition, and shows that the
run checking a property would notice it.

### StreamConsumer

Messages are numbered in the order of XADD. The Redis side is `published`,
`trimmed`, `group`, `lastDelivered`, and the PEL as `owner` and `deliveries`.
Each worker is one process: `pc` is where its thread is, `batch` the entries
`_process_messages` has still to go through, `todo` those of `_process_pending`.
One action is one Redis call, with what the code does up to the next one:

- `EnsureGroup`: `_ensure_group`. `ListPending`, `Claim`: `_process_pending`, one
  entry at a time with the `try` around the whole loop, so that an error drops
  the rest. `DeadLetterAdd`, `DeadLetterAck`: the calls of `_dead_letter`.
- `CheckLoop`, `LeaveLoop`, `ReadNew`: the loop of `start`.
- `BeginMessage`, `OnMessageReturns`, `OnMessageRaises`, `Ack`:
  `_process_messages` with its `except` and `finally`.
- `RequestStop`, `Exit`, `Crash`: `stop()` and the end of a process.

Every Redis call may fail in two ways: not executed, or executed with the reply
lost; both count against `MaxFaults`, as crashes do. Consumer names are taken to be
distinct, as a consumer group needs them (the default of `StreamConfig` is the same for all). XCLAIM drops entries whose
message was trimmed, as Redis 7 does (`docker-compose.yml` deploys 7). A group
that could not be created is never created later by that process, and reads give
NOGROUP. The branch that pauses at `max_queue_depth` is not an action because it
cannot be reached: that is `DepthIsInFlight`. `processed` and `errors`, which
nothing reads, are left out.

### StreamingManager

Refines `on_message`: `Accumulate` and `AccumulateFull` are `_handle_message`;
`_flush` is three steps (copy; clear and set `_last_flush`; callback), run by the
thread that holds `_lock`. The flusher wakes, reads `_last_flush` without the
lock (`FlusherWakes`), and acts once it has the lock (`FlusherFlushes`). `elapsed`
stands for the comparison with `flush_interval_seconds`. `Ends` throws away what
is in memory, since `stop()` does not flush and the flusher is a daemon thread.

### Ingestion

A step is what a thread runs between two calls: CPython 3.11, which `Dockerfile`
and `pyproject.toml` prescribe, switches threads at calls and at backward jumps,
so `contains` can be interrupted at `datetime.now()`, between the membership test
and the `del` or `move_to_end`; and `add` at `datetime.now()` and at `len()`. A hash
is the pair of source id and event: two connectors may have one source id, as all
TAXII connectors do (`connectors/national_tip_connector.py:199`), and then race for the same
hashes. `raced` is history: the threads whose call of `process` met another on its hash. The
in-memory order of `_store` is the sequence `store`.

### Correlation

One behaviour is one call of `correlate`. The correlators give any subset of
`Candidate`; the centrality boost is any value of `Centrality`; `pair_best` is united in
any order. `find` is a walk (`Climb`) whose return compresses the path; `union`
is `FoundX` and `FoundY`; `groups()` calls `find` for each alert. `united` and
`links` are what the properties compare with.

### ThreatPipeline, Storage, Auth, Migrations

`Storage` gives each call of `repositories.py` and `postgres_repositories.py` as an
operator from rows to rows: eviction in memory; upserts that write a few columns,
columns that are missing, and the foreign key of `bluf_reports` on PostgreSQL. A list is
given by the positions of its rows (`InOrder`, `Selected`): equal scores are then in the order
of storing, which PostgreSQL leaves open and no property tells apart.
`ThreatPipeline` chooses one of the two with `backend`, as `from_config_file` does, and
has `run` as `SaveAlert`, `Correlate`, `Score`, `Report`, `StoreThreat`, one action
between two repository calls. A failed call (`Fail`) raises out of `run`, except for the
report's `try` and the audit callback's, which swallow it. (`generate` itself raises for no
threat the engine makes, so that the report's `try` only meets failed saves.) `announced` and
`refused` are history: the audit records that were emitted, and those whose save failed.
`SubmitAlerts`, `RunPipeline`,
`SubmitFeedback`, `CreateApiKey` are the endpoints that change something, with their
role checks (`Auth`); `ListThreats`, `GetThreat`, `GetThreatGraph`, `GetAudit`,
`GetFeedback`, `Health`, `Metrics` are what the reading ones return, and the properties
are stated on them. `Restart` ends a process. The handlers do not await, so a process
has one at a time; which alerts form a threat, and its tier, are constants here.
`Migrations` is a runner as `ReadApplied`, `SkipApplied`, `Apply`, `Conflict`, `Return`;
a server takes requests once the schema is there.

### Enrichment

`BaseEnricher.enrich` is cut at every call at which CPython 3.11 may switch threads:
`Lookup`/`DeleteExpired` are `_TTLCache.get` before and after its `del`;
`IsAvailable`/`HalfOpen` the two reads of the breaker; `SetCache`, `Evict`, `WriteCache` are
`_TTLCache.set`; `RecordFailure`/`OpenCircuit`/`WriteOpen` are `record_failure` before
`time.time()`, up to the log entry, and after it, where OPEN is written whatever happened
meanwhile. Time is two bits: `stale` of a cache entry, `cooled` of the breaker.
`Outage` makes services come and go.

### Learning, FpFilter

Counters change under the lock, in steps that end where another thread may run:
`RecordFeedback` takes the lock, then `CountTotal` and `CountVerdict` are one key before and
after `datetime.now()`; `RecordVerdict` is `record_verdict` up to the moving average, `Rate`
what follows the call of `max`, `MarkIndicator` one indicator. The save that follows does not
hold the lock: `OpenFile` truncates, `CopyRecord` copies one record (of a source, what
`to_dict` reads before its first `round()`), `CopyReliability` the rest of it, `CopyNext` ends
a loop, `Write` writes. So a file may mix two states, of one record too; a dictionary that grew
during a loop is an error (`SaveFails`); and two writers of one file may leave it torn.
`Restart` reads what it can. `sound` and `torn` are history: whether the last save of a file ran by
itself to its end, and which sources were read in the middle of a verdict and not rated since.
`AdjustedFp` is `FeedbackAwareFPFilter.compute_fp_probability`, with 1 - exp(-n/20) as
a table. Rates are integers in ten-thousandths, rounded down at every step; the code keeps
floats and rounds them to four digits when it saves, so that what is said of the code's
reliabilities holds up to a ten-thousandth.
`RetireStale` retires any set of indicators: `max_staleness_days` may have passed for any.

### Triage and its parts

`Take` is normaliser and enricher (`Intake`); `Correlate` joins the pair rules and
confidences (`Correlators`) with boosts, threshold, groups and threat fields (`Threats`),
the groups as connected components, as `Correlation` proves; `Weigh` reads the mission
multiplier (`Missions`); `Judge` reads the degraded names, which is a second read of a
context that `Reload` may have replaced, scores (`Scoring`), maps to MITRE tactics and
reconstructs the campaign (`Campaign`), and generates the report (`Bluf`); `Rank` sorts.
What the code decides by the first of several conditions that holds (tier, confidence
level, objective) is a chain of `IF`, since a `CASE` whose guards overlap leaves the choice
open. Confidences and weights are integers in thousandths or hundredths, and the
score keeps its value before and after rounding, since the tier comes from the former
and the display shows the latter.

### Transfer and Sharing

`Sharing` has `is_shareable_with`, `sanitise_alert`, `sanitise_threat`, `export_threat` as
decisions over labels and fields, the caps of a bundle (10 techniques, 20 observables)
included. `Share` exports to a partner, into `sent` or, while disconnected, into `pending`;
`CopyQueue`, `ClearQueue`, `Return` are the three statements of `flush_pending`, which takes no
lock and may run in several threads; `raced` is history: the bundles that were queued or
copied while a flush was between its copy and its clear. The queue is in memory only; a process
that ends loses it, which is not modelled. `Write` is guard, seal and writer; `Read` is the
reader with `verify`, of a file in which the medium may have altered several fields at once:
records missing or added, a checksum taken anew or of another package, another package's
signature. It cannot make a signature, which takes the key. A digest stands for what it is taken of.
No component of `src/` calls these classes: the caller is the one their documentation
describes.

## 3. Runs

| Run | Instance | Checks | States |
|---|---|---|---|
| `stream` | 2 workers (symmetric), 3 messages, one poison, retention 2, 2 faults, max_retries 1 | 6 invariants, refinement of `AtLeastOnce` | 108 k |
| `manager` | 1 worker with both threads, 4 messages, batches of 2, 1 fault, callback may raise | 3 invariants, 2 liveness | 97 k |
| `manager_loss` | the same, callback never raises | finding | |
| `ingestion` | 3 connectors, 2 of one source id, 2 pool threads, cache of 1, TTL 1, clock to 2, 2 batches | 5 invariants, termination | 115 k |
| `ingestion_threads` | the same, TTL 0, clock to 1 | finding | |
| `correlation` | 4 alerts, 7 links, boosts 0 and 0.10 | 4 invariants, refinement of `Clustering`, termination | 230 k |
| `confidence` | the same | finding | |
| `pipeline` | 2 processes, 2 migration runners (symmetric), 2 stored alerts, 3 audit records, 2 threats, 2 requests, 1 fault | 5 invariants | 831 k |
| `enrichment` | 2 threads, 3 keys of one enricher, cache of 1, threshold 2 | 2 invariants, 1 liveness | 535 k |
| `learning` | 2 threads (symmetric), threats of 1 and 2 alerts, 2 verdicts, min_samples 1, learning rate 0.1, 1 crash or failed save | 2 invariants, 1 action property | 451 k |
| `triage` | every batch of 5 alerts, 4 clock readings, 2 mission contexts, boosts 0 and 0.05 | 3 invariants | 12 k |
| `transfer` | 3 alerts, threats of 2, 2 partners, 3 domains, 2 keys and 2 flushing threads (symmetric), 2 bundles or packages | 2 invariants | 109 k |

Why the bounds are enough to be of interest. `stream`: two workers are needed for
one to take the other's messages, two faults for a lost reply followed by a crash;
with `max_retries` 1 a poison message needs two restarts to be dead-lettered, and
with retention 2 of 3 messages an entry can be trimmed while pending. `manager`:
four messages and batches of two give a full batch, a partial one and an append while
the other thread flushes. `ingestion`: three connectors on two threads leave one
queued, two of them poll the same indicator under one source id and so race for its hash,
a cache of one makes every insertion evict, and TTL 1 with a clock to 2
reaches "as old as the TTL" and "older". `correlation`: four alerts make two trees
of rank one that unite to rank two, hence a path that compression shortens; one pair
has two methods, one link is below the threshold, and one links an alert with itself
(`asset_correlator.py` does this for an alert that lists an address twice).
`pipeline`: two requests let two processes save, correlate and store side by side, or
one request overtake another's crash; three different alerts in a store of two evict
one that a threat refers to, three audit records are fewer than a run writes, and two
runners with one abort meet in every order; one group cannot be scored, so that a run
ends between two threats. `enrichment`: a cache of one makes every second key evict,
two failures open the circuit, and a thread that is late with either is the other one.
`learning`: two verdicts on the threat of two alerts count four for each key, past the three
that are enough; the learning rate of 0.1 is below the weight of three alerts, so that it caps
the blend; two verdicts from two threads meet at every point of each other's saves. `triage`:
the five alerts differ in everything the rules look at, a compromised host, a sensor's
copy, a HUMINT report, a whitelisted address and an unlisted marking; the clock passes
the age steps of urgency and the end of a mission. `transfer`: three domains give a
transfer up, down and from the lowest; two bundles may be made on both sides of an outage, or one
beside the flush of the other, by two threads; two packages let a file have another package's
digests and records, and two keys make a wrong one possible.

`CHECK_DEADLOCK FALSE` in the two ingestion configurations: `run_batch` is called
`MaxBatches` times and the clock is bounded, so the system ends. In `pipeline` and
`learning` the requests and verdicts are bounded, and afterwards nobody asks for anything.

### Properties

- `NothingForgotten`, `AckedIsSettled`, `RetriesExact`, `OneHolder`,
  `DepthIsInFlight`: what at-least-once delivery rests on; `ImplementsAtLeastOnce`
  relates them to the promise, which also forbids a message to be handed over once
  it is settled.
- `EveryAlertInOnePlace`: each append of the manager is in exactly one of memory,
  accepted and thrown away. `BatchIsBounded`: what really provides back-pressure.
- `OncePerWindow`, `WindowIsFixed`, `CacheBounded`, `EveryAlertAccounted`: the
  deduplicator under threads. The first two are about the calls that meet no other thread on
  their hash; two that do may both let the alert through, which the lack of a lock makes
  unavoidable, but they spoil nothing for the calls after them.
- `ForestIsPartition`, `FindIsShallow`, `ConfidenceIsEarned`,
  `ImplementsClustering`: the union-find and its result.
- `EvidenceIsStored`, `AuditedBeforeStored`, `ReportsAccounted`, `CountsAddUp`: what a
  reader of the repositories may rely on while processes crash and calls fail: a threat's
  alerts are stored or evicted, every stored decision was announced to the audit log and its
  record is there unless one failed call of the database refused it or, in memory, `max_size`
  newer records followed; a report is stored or listed as an error (on PostgreSQL always the latter, see below), and
  list, filter and metrics agree. The code cuts what it lists: a reader of the audit log
  is sure of a decision's record while his page of 100 is not full, and lists and counts agree
  up to 500 and 10000 threats. `MigratedIsComplete`: the recorded versions are a prefix.
- `CacheNearlyBounded`, `OutageOpensCircuit`, `OpenCircuitIsProbed`: without a lock the
  cache exceeds its limit by at most a thread's entry each but one, failures that were counted up
  to the threshold always open the circuit, and it is not open for good.
- `SoundSaveIsComplete`: whatever crashed or overlapped before, a save that ran by itself
  leaves all verdicts on file once nobody counts or saves. `VerdictsMoveReliability`: a source
  has a reliability that does not fit its counters only while a verdict on it is under way, or
  after its record was saved in the middle of one, until the next verdict. `LearnedShiftBounded`:
  learned rates move a probability by at most the learning rate, torn counters or not.
- `RankingRespectsTiers`, `MissionOnlyRaises`, `ReportKeepsMarking`: score, tier and rank
  agree though they are computed apart; a mission never lowers a score, whenever it is
  reloaded; TLP:RED survives clustering with other markings and every rendering.
- `ReleasedOnceWithinMarking`, `ImportedAsSealed`: each bundle no flush raced for once, and
  all to partners that may have them; what a reader with a key accepts was sealed with it, and
  sanitised if it went down; one without a key finds a single altered field.

### Fairness

`ManagerFairSpec`: weak fairness of each worker's consumer thread and flusher
thread (the operating system schedules both, the callback is assumed to end) and of
the passing of time. Publishing, constructing a consumer, stopping and crashing are never forced.
`FairSpec` of `Ingestion`: weak fairness of each connector's thread. The executor's
queue is first in, first out, so weak fairness is enough. `FairSpec` of
`Correlation`: the one thread goes on. `FairSpec` of `Enrichment`: the scheduler runs
every thread that is in a lookup, and the reset timeout passes; nobody has to ask, and
services come and go as they like. Under it an open circuit does not stay open while
lookups come; that it closes again once the service has recovered does not hold,
because all threads may ask while it is half-open and an eviction disturbed by another
thread counts as a failure of the service.

### Where code and documents disagree

1. `stream_consumer.py:8` promises "ACK on successful processing". The manager's
   handler only appends to memory (393), so the ACK precedes the processing, and a
   process that ends loses acknowledged alerts (`manager_loss`). The consumer itself
   keeps the promise towards its handler: that is proved.
2. `ingestion/pipeline.py:11` says "Thread-safe for concurrent connector ingestion";
   the cache it shares asks its callers for a lock (`deduplicator.py:34`) that nobody
   takes. A KeyError in `contains` loses an alert that is no duplicate
   (`ingestion_threads`).
3. `correlation/engine.py:94` says "max confidence seen per root"; `union` drops the
   confidence of the root it removes (`confidence`). `ConfidenceIsEarned` is what
   does hold.

The modules below follow the code where it disagrees with its own comments; these have
no run of their own:

- Storage and API. `api/app.py:180` says alerts are "deduplicated and enriched before
  storage" and `:233` that unprocessed alerts are run: neither is done, the latest are run
  again. `run` saves a report before its threat (`pipeline.py:302`), which PostgreSQL's
  foreign key refuses: `ReportsAccounted` says so.
- Ingestion. `deduplicator.py:4-6` says that an event which SIEM and EDR both report enters the
  correlation engine once; the hash has the source's type and id in it (96-98), so that both
  pass. `OncePerWindow` is about the hash.
- Stream. `stream_consumer.py:131-134` says the consumer pauses above `max_queue_depth`; the branch
  is never taken, since the depth is at most 1 (`DepthIsInFlight`).
- Audit log. `README.md:91` and `:175` say every decision is "permanently" logged, `:617`
  "Audit records are never deleted", `repositories.py:175` and `models/audit.py:5`
  "append-only" and "must be persisted". The log in memory drops the oldest records at `max_size`
  (`repositories.py:184-187`), and a save that fails is only written to the program's log
  (`bluf_generator.py:490-493`, `engine.py:537`, `prioritisation_engine.py:428`).
  `AuditedBeforeStored` says what is left of the promise.
- Enrichment. `broker.py:51` says one test request is allowed while half-open and that its failure
  re-opens the circuit. Any number is allowed; and a late success resets the counter also while the
  circuit is open (78), after which one failed probe leaves it half-open. `_TTLCache.get` may raise from `enrich`, whose documentation promises `{}`.
- Intake. `enricher.py:165` says the source's TLP is preserved, `:174` always gives AMBER;
  enrichment failures are said not to abort, but there is no `try`.
- Correlation. `engine.py:415` names the highest-severity alert's title and takes the
  lowest's; the ranges of `estimate_phase` overlap, and the first match wins; a campaign
  that "spans more than 4 stages" needs 4; no tactic maps to DELIVERY, which is therefore
  always a gap. `mitre_mapper.py:50` says YAML overrides STIX; `from_config` loads the
  bundle last, so STIX wins.
- Scoring. `prioritisation_engine.py:18` gives CRITICAL from a `final_score` of 80 and
  `models/priority.py:46` has the tier follow from it; the tier comes of the unrounded score (217), so that
  80.00 may be shown with HIGH.
- Learning. `fp_learning.py:92` calls the store thread-safe; `_save` takes no lock, and a file may
  hold a total without its verdict, that of `feed_quality.py` a source's counters without its
  reliability. The blend's weight is the mean of all weights (225-229), not that of the
  best-matching statistics (173). "Scarce" feedback (176) is fewer than three alerts judged, not
  three verdicts (109-120): one verdict on a threat of three alerts of a source moves its rate.
- Missions. The rank-10 multiplier is 1.0, not 1.1 (`mission.py:130`); a mission is said to
  be able to dampen (`:62`), but the floor is 1.0. Degraded names match tags by
  prefix, the impact exactly.
- Reports. `_determine_tlp` passes over AMBER+STRICT and CLEAR, though it promises the most
  restrictive; the analyst's section goes before the first, not the final, rule of `=`
  (`commander_bluf.py:231`); "2-4" decisions may be one.
- Sharing. `handler.py:133-136` says that source types in `blocked_source_types` "must never be
  shared (e.g. HUMINT, SIGINT)", and `:219` that such sources are suppressed entirely.
  `sanitise_alert` does so, of these two types; `export_threat` asks neither: in the run `transfer`, with
  HUMINT blocked, bundles made of the HUMINT alert go to the partner that may have TLP:RED. The
  marking is all that holds them back, and that is what `ReleasedOnceWithinMarking` says.
- Transfer. `flush_pending` is to "return and clear" the queue (`cross_domain.py:389`), and
  `queue_stix_bundle` to keep a bundle until the link is back (382); a bundle queued between the
  copy and the clear of another thread is lost, and two threads may hand out one twice. A
  package is called integrity-verified (164), but without a key `verify` accepts
  records and checksum altered together (212-219). The checksum covers the records only, though `cross_domain.py:179` says any
  field, so that `ImportedAsSealed` is about records; the guard does not enforce the
  AIR_GAPPED rule of its documentation; `set_degraded` keeps the tag of the outage.
- Feed quality. Decay may raise a confidence that is below its minimum.

## 4. Proofs

The `_proofs` modules prove, for every value of the constants that satisfies the named
assumption of the module:

| Assumption | Says | Because |
|---|---|---|
| `ConstantsAssumption`, `ManagerAssumption` | types and signs of the stream's settings | they are numbers of messages, entries and retries |
| `IngestionAssumption` | the connectors of a batch are distinct and have feeds; sizes and TTL are natural numbers | `_connectors` is a dictionary; the sizes are those of `IngestionConfig` |
| `CorrelationAssumption` | finitely many alerts and links, confidences between 0 and 1 | a call gets lists; pydantic bounds the fields |
| `MigrationAssumption`, `StorageAssumption`, `PipelineAssumption` | what is submitted are valid alerts, every group has a tier, sizes are positive | invalid alerts are refused before (`api/app.py`); every caller leaves `max_size` at its default |
| `EnrichmentAssumption` | finitely many threads, a cache of at least one, a threshold of at least one | defaults of `broker.py` |
| `LearningAssumption` | a threat is a list of at least one alert; sizes and the learning rate are natural numbers | `correlate` makes no empty group; a rate is in thousandths |
| `TriageAssumption` | alerts have the fields of `Alert`, and their observables are finite sets; criticality is 0 to 100, ranks are 1 to 10, role weights at most 3 | the pydantic models of alerts and missions validate exactly that |
| `TransferAssumption` | raw alerts have the fields of `Alert` | without it `EXCEPT` would not set a marking |

Bounds of the runs (numbers of messages, requests, faults) are constants too, so that the
theorems hold for all of them. Three theorems have hypotheses of their own, given below:
`VerdictsMoveSources`, `ImportIsSafe` and `EvidenceNeverRaisesFp`.

| Theorem | States |
|---|---|
| `TypeCorrect`, `NothingIsForgotten`, `AckIsEarned`, `RetriesAreExact`, `OneWorkerPerMessage`, `DepthCountsInFlight` | `Spec => []` of the six invariants of run `stream` |
| `ConsumerIsAtLeastOnce` | `Spec => ImplementsAtLeastOnce` |
| `ManagerRunsConsumer`, `ManagerIsAtLeastOnce` | `ManagerSpec` implies `Spec` of the consumer, hence `ImplementsAtLeastOnce` |
| `ManagerTypeCorrect`, `AlertsAreInOnePlace`, `BatchStaysBounded` | `ManagerSpec => []` of the three invariants of run `manager` |
| `IngestionTypes`, `CacheStaysBounded`, `EveryAlertIsAccounted` | `Spec => []` of `TypeOK`, `CacheBounded`, `EveryAlertAccounted` of `Ingestion` |
| `DeduplicatesPerWindow`, `WindowStaysFixed` | `Spec => []` of `OncePerWindow`, `WindowIsFixed`, for any source ids |
| `CorrelationTypes`, `UnionFindIsPartition`, `ConfidenceComesFromAPair`, `FindStaysShallow` | `Spec => []` of `TypeOK`, `ForestIsPartition`, `ConfidenceIsEarned`, `FindIsShallow` |
| `CorrelateImplementsClustering` | `Spec => ImplementsClustering` |
| `MigrationsComplete` | `Spec => []MigratedIsComplete` of `ThreatPipeline` |
| `ThreatsHaveEvidence`, `ReportsAreAccounted` | `Spec => []` of `EvidenceIsStored`, `ReportsAccounted` |
| `DecisionsAreAnnounced` | every decision about a stored threat and every verdict kept was announced to the audit log |
| `ReadersSeeDecisions` | `Spec => []AuditedBeforeStored`: who asks for a threat's records finds them |
| `ThreatsAreScored` | the stored scores are those of the stored threats, one each |
| `CountsAgree` | `Spec => []CountsAddUp`: list, filter, totals and metrics agree |
| `ThresholdOpensCircuit`, `CacheStaysNearlyBounded` | `Spec => []` of `OutageOpensCircuit`, `CacheNearlyBounded` of `Enrichment` |
| `SoundSavesAreComplete`, `LearnedShiftIsBounded` | `Spec => []` of `SoundSaveIsComplete`, `LearnedShiftBounded` of `Learning` |
| `VerdictsMoveSources` | `Spec => VerdictsMoveReliability`, an action property, for `MinSamples > 0` |
| `RanksFollowTiers`, `MissionsOnlyRaise`, `MarkingsReachReaders` | `Spec => []` of the three invariants of run `triage` |
| `PartsInvariance`, `BatchIsPartitioned` | a finished run reports each alert of its batch in exactly one threat, linked alerts in the same, and nothing in one that links do not join to it (`ReportsPartitionBatch`) |
| `EvidenceNeverRaisesFp` | one more reliable alert without a whitelisted asset never raises the heuristic false-positive probability, which stays between 0 and its cap |
| `ReleaseIsSafe` | `Spec => []ReleasedOnceWithinMarking` of `Transfer` |
| `ImportIsSafe` | `Spec => []ImportedAsSealed` of `Transfer`, where sanitisation is required and protects its sources, as by default |

**The stream.** The invariants of the run are not inductive, alone or together. Added
are `Control`, what each value of `pc` says about a worker's memory (there is a batch
only while it is processed, `handled` holds a message about to be acknowledged, the
dead-letter stream the entry about to be settled, and no message is both in `batch`
and in `todo`), and `Settled` (whatever is pending, dead or acknowledged was
delivered, and what is acknowledged is pending no more). One lemma per action, or
group of alike actions, shows that it preserves the whole; then each action
is shown to be a step of `AtLeastOnce` or to change nothing it sees.

**The manager.** `ManagerNextRefines` maps each action to a step of the consumer or to a
stutter, so that the theorems of the consumer hold under the manager as they stand. Its own
invariant is one for each worker: who holds `_lock` and where both threads are then
(`LockDiscipline`), that the copy a flush took is what it clears (`FlushIsExact`), that a
full batch is being flushed (`Bounded`), and that for each message the times it was taken
are those it was accepted, thrown away, or is in memory (`Accounted`). The last needs how
`Append` changes a number of occurrences.

**Ingestion.** What a thread has to do is the end of its feed, and its result counts
what comes before (`AccountInv`); heartbeats are counted by neither. The cache exceeds its
size by at most the threads that are about to evict, which is inductive with the types:
`Store` adds an entry and such a thread, `Evict` takes both away. For deduplication
`KeyInv` says what an entry, or its absence, means: without one the hash was never admitted,
or evicted, or is old, or a thread that raced for it is about to store it (that is what
a `del` of the entry another thread has just stored leaves). `WindowInv` says what a thread
that met no other on its hash has read and may still rely on, and `RacedInv` that two
threads in `process` with one hash have both met another. Since the later of two looks the hash up
while the earlier is there, a thread outside `raced` is alone with its hash until it is done.

**Correlation.** "Connected" is defined by closed sets: every set that contains `a` and
is closed under the edges contains `b`. It needs no recursion, and reflexivity,
symmetry, transitivity, monotonicity and the effect of one added edge (`ConnAdd`)
follow by choosing the set. The inductive invariant joins `ForestIsPartition` with
`LinksInv` (pairs are united, being united, or still to do), `WalkInv` (whatever
`find` met is connected to where it began), `GroupsInv` (what is filed is filed
under a root of its component) and `ConfidenceInv` (a root with a united pair
below it has the confidence of one). `FoundYInv`, a union, is the core: of the two
roots one survives, and a pair of alerts is newly connected only across them.
`FindIsShallow` adds `ShallowInv`: ranks grow towards the root, a root of rank n has a
component of at least 2^n alerts, and a walk has met no more alerts than the rank it is
at. A rank grows only when two roots of the same rank are united, whose components are
disjoint, and so at least doubles the component. That the recursive function `TwoTo` is
what its definition says is shown by induction: the library's induction theorems take an
operator, which the provers cannot instantiate, but `InductiveSet` says the same of a set of
naturals, and follows from a non-empty set of them having a least one.

**The pipeline.** *Migrations:* the invariant adds what a runner remembers: what it read
as applied still is, and what it has to do is the files from some place on, with every file
before that place applied (`Remaining`). So the file it applies, which nobody has, is the
next of the prefix; the others lose nothing, as `applied` only grows. The names of the
files need not be distinct for that. *Evidence and reports:* `PipelineInv` is an invariant
of the stores (`StoreInv`) and three of each process: where its run is and what it holds
then (`JobInv`), what its result says of the reports (`ResultInv`), its keys (`KeyInv`);
and no two processes hold threats of one id (`Due`), as ids come of a counter that only
grows. An alert a run refers to stays `Known`: stored, or evicted since. `StepKept` is
what every action of one process goes through: the others keep what they rely on if the
known alerts and stored reports only grow and the new threats are the process's own. *The
audit log:* what was announced (`Log`) only grows except when an in-memory server restarts,
which forgets the threats with it. `AuditInv` follows a run: its threats are announced as far
as it has got. `LogInv` says what the log has of it: on PostgreSQL all but the `refused`, of
which each cost a failed call, and in memory the newest `MaxAudit`, so that what is missing
has that many after it. *Scores:* a
threat and its score are stored in one call, under an id no stored threat has. *What readers
get:* a list holds the rows whose place is below its limit, each once, in its order. A page
of records that is not full is hence all a threat has, so that what `AuditInv` says of the log
holds of the page; for that the log stays a list under `AppendAudit`, also when it is
truncated. Filtering by tier and ordering may be swapped, as both keep the order of the
rest, and the ids of the stored threats are the disjoint union of those of the four tiers,
so that the counts add up.

**Enrichment.** `OutageOpensCircuit` is inductive with the types of the
breakers and callers: between counting the failure that reaches the threshold and
opening the circuit a thread is at `counted` or `opening`, and every other write of the breaker
sets the count to 0, keeps it, or sets HALF_OPEN. For the cache, `Room` counts the threads that
have made room and not yet written as entries: a thread that finds the cache below its
limit moves to `write`, one that finds it full removes an entry first, and one that
found it full before somebody else removed one is the reason for the excess. That a key has
one entry (`KeysDistinct`) makes a removal remove one. `WithoutFacts` says what removing
the first match leaves.

**Learning.** `DataInv` types the counters and their copies, in a file or on the way
there, says that each store's lock has one holder, and that a source no verdict was counted for
is in every copy as it is in memory (`Earlier`). `SoundInv` follows a save: while the last save
of a file is sound, at most one thread saves it, and when nobody is counting or about to open
the file (`Quiet`), it has copied the memory as it is, as far as it has come (`Progress`), so that
its copy, then the file, has all that was counted (`Fresh`): a verdict that changes what a save
has already copied makes its own save follow, which is not sound if it begins before the other ends.
`WholeInv` follows a verdict: where none is under way the reliability of a source fits
its counters, unless the record was read torn, and what is being rated was such a source before it was
counted (`Judged`); so that the rating moves it to the side of the verdict, by the moving
average. That a restart tears nothing after a sound save with nobody at work follows from
`SoundInv` and `WholeInv` together: the file has the sources as the memory has them. It
needs `MinSamples > 0`: nothing validates `min_samples_for_rating`, and with 0 the first false
positive, which takes the average to 0.1, would raise a source from 0.8 to 0.9.
`LearnedShiftBounded` rests on `StatsOk` (in every copy, torn or not, no more was judged false or
benign than was judged, since the total is counted first), so that each learned rate is a
rate; a weighted mean of rates is between them, and so is a blend, up to the rounding of the
integers, which `InReach` bounds.

**Triage.** `TriageInv` types what is under way: alerts, threats (never without alerts), and
results, each with the score and report that `Score` and `Generate` give its threat, for a
multiplier some context gave at some time. A score is a sum over a set, a fold that TLAPS
cannot evaluate: `SumsExist` shows that a function with the recursion of the fold (`SumsOf`)
exists, so that the fold is one, and inductions on the size of the set that the sum is a number
(`SumsAreNumbers`) and changes by as much as the one value that changes (`SumsDiffer`). A
multiplier between 1 and 3 moves only the criticality component, and that not beyond 100, hence
`MissionOnlyRaises`. Display and tier come of one unrounded score, and rounding is
monotone, hence `RankingRespectsTiers`; that `Ranked` lists the results in order is shown from the
positions it chooses, which no two rows share. For the partition: the groups are the smallest
sets that links do not leave, and as intersections and differences of such sets are such sets,
two groups are the same or disjoint, and every alert is in one. `PartsInv` follows them: from
correlation on, each group is one threat, waiting for its score or at one place of the results,
which `Rank` only permutes. `ReportsPartitionBatch` is defined with the proof, without the operators
of the model for groups, and is no property of a run. For the false-positive probability: the two
sums grow by the value of the added alert, so that a mean reliability of at least 0.3 stays
one, and the highest severity and the number of source types only grow. The added alert must
be as reliable, without a whitelisted asset, and the confidence not lower; with any other the
probability may rise. For the marking: intake marks an alert of a sensitive source TLP:RED,
a threat has its alerts' markings, `_determine_tlp` asks for TLP:RED first, and every branch
of `Render` keeps the report's.

**Transfer.** For the marking: intake marks what comes of a sensitive source TLP:RED,
after its other steps and whatever the connector said (`SensitiveIsRed`); the order lists
TLP:RED first (`RedPrevails`); the label carries it and `IsShareable` asks for it
(`LabelKeepsRed`). For "once" (`ReleaseInv`): each number below `exported` that did not race
has one place (`Once`) among what was sent, the queue, and what a flush took from it; a copy that
is not cleared yet agrees with the queue but for bundles that raced (`SameAsQueue`), so that the
clear moves each of the others from the queue to the flush (`OnceMoves`); and what two flushes both
copied has raced. For packages: what is written is `WellSealed`, digests and records together, and what
is read is `Accepted` by `verify`, whose signature only a writer with the key made; of one altered
field, either it is a digest or the domain, and the records are those sealed, or the checksum tells
(`OneFieldIsFound`).

**Model-checked only.** Liveness (`EveryMessageIsRead`, `AccumulatedIsFlushed`,
`BatchEnds`, `Terminates`, `OpenCircuitIsProbed`), which TLAPS does not reach; every invariant
and action property of the passing runs is a theorem. Two choices of the model serve the
proofs: a score is put into its store by a function with a new domain, since the prover cannot
unfold `@@`, and lists are given by positions rather than by `SortSeq` and `SelectSeq`, which
it cannot unfold either (nor is `SortSeq` defined where two scores are equal and the order
is strict).

## 5. What is not modelled

Not modelled, because it holds no state or order the properties could be about: parsing
and HTTP of the connectors (in `Ingestion` a connector is what its fetch yields, or a
failure; in `Triage` a set of alerts); the centralities and paths that networkx
computes for the attack graph (in `Correlation` and `Threats` any boost up to its cap);
wording and layout of reports, explanations and narratives; decay and grades of feed
quality, which nothing else reads; metrics, logging, the frontend, and deployment files.
Consumers that share a name are left out: nothing of the code's guarantees survives them, as
a hazard says. So is the end of a process that holds queued bundles, which are in memory only and
are lost with it.

What `Sharing` admits under a caveat follows from its
definitions by unfolding them, and is stated where it matters, in `ReleasedOnceWithinMarking`.
