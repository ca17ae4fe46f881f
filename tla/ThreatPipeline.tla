----------------------------- MODULE ThreatPipeline -----------------------------
(***************************************************************************)
(* ThreatPipeline.run of threaticap/pipeline.py behind the handlers of     *)
(* threaticap/api/app.py and the command line.  A worker is a process; a   *)
(* handler awaits nothing, so a process has one at a time.  With the       *)
(* in-memory backend there is one process, with PostgreSQL any number of   *)
(* them, and every repository call is a transaction of its own: between    *)
(* two of them other workers run, the process may die, and any of them may *)
(* raise.                                                                  *)
(*                                                                         *)
(* Which alerts become a threat, and its tier, are constants here: modules *)
(* Correlation and Scoring model how they come about.                      *)
(***************************************************************************)
EXTENDS Storage, Auth, Migrations

CONSTANTS
  Workers,      \* server processes
  Configs,      \* configuration files the server may be started with
  Submissions,  \* requests: sequences of alerts, some invalid
  Group,        \* of an alert's id: the alerts it is correlated with
  GroupTier,    \* the tier of each group
  Unscorable,   \* groups score raises for: an event far in the future makes
                \* temporal_urgency_score exceed the field's bound
  NewRoles,     \* roles keys are created with
  Verdicts,     \* verdicts analysts submit
  RunLimit,     \* alert_limit of /pipeline/run
  MaxThreats,   \* bound: threats ever correlated
  MaxRequests,  \* bound: requests that change something
  MaxFaults     \* bound: failed database calls and crashes

Server == CHOOSE w \in Workers : TRUE
AlertId == DOMAIN Group
Groups == {Group[id] : id \in AlertId}
Value == [CRITICAL |-> 90, HIGH |-> 70, MEDIUM |-> 40, LOW |-> 10]

\* The alerts of a request that validate.
Ingested(submission) == SelectSeq(submission, LAMBDA a : a.valid)

ASSUME PipelineAssumption ==
  /\ \A s \in Submissions : Ingested(s) \in Seq([id : AlertId, version : Nat, valid : {TRUE}])
  /\ GroupTier \in [Groups -> Tier]
  /\ Unscorable \subseteq Groups
  /\ NewRoles \subseteq Role
  /\ {RunLimit, MaxThreats, MaxRequests, MaxFaults} \subseteq Nat

VARIABLES
  backend,    \* the storage from_config_file chose
  alerts, threats, scores, reports, audit,  \* the repositories
  verdicts,   \* the feedback repository of each process
  keys,       \* _DEV_API_KEYS of each process
  job,        \* the handler each process is in
  result,     \* PipelineResult of each process's last run
  nextId,     \* threat ids so far
  dropped,    \* history: alerts the repository evicted
  announced,  \* history: the audit records emitted, of this process's memory
  refused,    \* history: those the database did not take
  requests,   \* requests so far
  faults      \* failed calls and crashes so far

stores == <<alerts, threats, scores, reports>>
logVars == <<audit, announced, refused>>
auditVars == <<logVars, faults>>
apiVars == <<verdicts, keys>>
vars == <<backend, stores, auditVars, apiVars, job, result, nextId, dropped, requests,
          migrationVars>>

Postgres == backend = "postgresql"
Idle == [at |-> "idle", todo |-> <<>>, batch |-> <<>>, pending |-> <<>>, runs |-> FALSE]
NoResult == [reported |-> {}, errors |-> {}, stored |-> {}]

\* from_config_file: without a file the defaults; weights that do not sum to
\* 1 raise; PostgreSQL only with a DSN, else memory after all.
FromConfigFile(c) ==
  IF ~c.exists THEN [backend |-> "memory"]
  ELSE IF ~c.weightsSumTo1 THEN [backend |-> "none"]
  ELSE [backend |-> IF c.backend = "postgresql" /\ c.dsn THEN "postgresql" ELSE "memory"]

FreshKeys == DevKeys("master", <<[key |-> "ingest", role |-> "operator"]>>)

Lifespan == [verdicts |-> <<>>, keys |-> FreshKeys]

Init ==
  /\ \E c \in Configs : /\ FromConfigFile(c).backend # "none"
                        /\ backend = FromConfigFile(c).backend
  /\ alerts = <<>> /\ threats = <<>> /\ scores = <<>> /\ reports = <<>> /\ audit = <<>>
  /\ verdicts = [w \in Workers |-> Lifespan.verdicts]
  /\ keys = [w \in Workers |-> Lifespan.keys]
  /\ job = [w \in Workers |-> Idle]
  /\ result = [w \in Workers |-> NoResult]
  /\ nextId = 0
  /\ dropped = {} /\ announced = <<>> /\ refused = {} /\ faults = 0 /\ requests = 0
  /\ MigrationInit

-----------------------------------------------------------------------------
(* The repository calls of either backend *)

SaveAlertRow(a) == IF Postgres THEN PostgresSaveAlert(alerts, a) ELSE MemorySaveAlert(alerts, a)
RecentAlerts(limit, offset) == IF Postgres THEN PostgresRecentAlerts(alerts, limit, offset)
                                           ELSE MemoryRecentAlerts(alerts, limit, offset)
AppendAudit(records, new) == IF Postgres THEN PostgresAppendAudit(records, new)
                                         ELSE MemoryAppendAudit(records, new)
ByPriority(tier, limit, offset) ==
  IF Postgres THEN PostgresByPriority(threats, scores, tier, limit, offset)
              ELSE MemoryByPriority(threats, scores, tier, limit, offset)

\* n calls of the database fail.
Fail(n) == (n > 0 => Postgres) /\ faults + n <= MaxFaults /\ faults' = faults + n

\* The components append audit records; an exception of the callback is
\* logged and swallowed.
Emit(records, failed, otherFailures) ==
  LET arrived == Selected(records, {i \in DOMAIN records : records[i] \notin failed})
  IN
  /\ Fail(Cardinality(failed) + otherFailures)
  /\ audit' = AppendAudit(audit, arrived)
  /\ announced' = announced \o records
  /\ refused' = refused \cup failed

Event(type, id) == [event |-> type, threat |-> id]

-----------------------------------------------------------------------------
(* Requests *)

\* A process takes a request: the one with the memory, or any with a schema.
Take(w) ==
  /\ job[w].at = "idle"
  /\ requests < MaxRequests /\ requests' = requests + 1
  /\ IF Postgres THEN Version \subseteq objects ELSE w = Server

Allowed(w, key, role) == HasRole(Authenticate(FALSE, keys[w], key, NoToken), role)

Start(w, at, batch, runs) ==
  /\ job' = [job EXCEPT ![w] = [at |-> at, todo |-> batch, batch |-> batch,
                                pending |-> <<>>, runs |-> runs]]
  /\ result' = [result EXCEPT ![w] = NoResult]

\* POST /ingest/alerts: the valid alerts are saved, and saved again by the
\* run that may follow; 422 if there is none.
SubmitAlerts(w, key, submission, runNow) ==
  LET ingested == Ingested(submission)
      alert(a) == [id |-> a.id, data |-> a.version, tags |-> a.version, geo |-> TRUE]
  IN /\ Take(w) /\ Allowed(w, key, "operator")
     /\ ingested # <<>>
     /\ Start(w, "submit", [i \in DOMAIN ingested |-> alert(ingested[i])], runNow)
     /\ UNCHANGED <<backend, stores, auditVars, apiVars, nextId, dropped, migrationVars>>

\* POST /pipeline/run: the most recent alerts, processed before or not; the
\* handler asks for no role.
RunPipeline(w) ==
  /\ Take(w) /\ RecentAlerts(RunLimit, 0) # <<>>
  /\ Start(w, "persist", RecentAlerts(RunLimit, 0), TRUE)
  /\ UNCHANGED <<backend, stores, auditVars, apiVars, nextId, dropped, migrationVars>>

\* `threaticap demo`: a process of its own hands what it ingested to run; with
\* the in-memory backend nobody else sees what it does.
Demo(w, submission) ==
  /\ Take(w) /\ Postgres
  /\ LET ingested == Ingested(submission) IN
     /\ ingested # <<>>
     /\ Start(w, "persist", [i \in DOMAIN ingested |->
          [id |-> ingested[i].id, data |-> ingested[i].version,
           tags |-> ingested[i].version, geo |-> TRUE]], TRUE)
  /\ UNCHANGED <<backend, stores, auditVars, apiVars, nextId, dropped, migrationVars>>

\* Mutant: a failed save is logged and the run goes on with the batch.
CarryOn(w) == job' = [job EXCEPT ![w].at = "correlate", ![w].todo = <<>>]

\* An exception that no one catches: status 500, and what is saved stays.
Raise(w) == job' = [job EXCEPT ![w] = Idle]

\* save_batch, one alert at a time: of submit_alerts, then of run.
SaveAlert(w) ==
  LET j == job[w]
      rest == Tail(j.todo)
      next == IF rest # <<>> THEN [j EXCEPT !.todo = rest]
              ELSE IF j.at = "persist" THEN [j EXCEPT !.at = "correlate", !.todo = <<>>]
              ELSE IF j.runs THEN [j EXCEPT !.at = "persist", !.todo = j.batch]
              ELSE Idle
  IN /\ j.at \in {"submit", "persist"}
     /\ \/ /\ alerts' = SaveAlertRow(Head(j.todo))
           /\ dropped' = dropped \cup ((IdsOf(alerts) \cup {Head(j.todo).id}) \ IdsOf(alerts'))
           /\ job' = [job EXCEPT ![w] = next]
           /\ Fail(0)
        \/ /\ Fail(1) /\ Raise(w)
           /\ UNCHANGED <<alerts, dropped>>
     /\ UNCHANGED <<backend, threats, scores, reports, logVars, apiVars, result, nextId, requests,
                    migrationVars>>

CreationRecords(new) == [i \in DOMAIN new |-> Event("CORRELATION_CREATED", new[i].id)]

\* correlate: a new threat for each group of the batch, audited at once.
Correlate(w) ==
  LET ids == IdsOf(job[w].batch)
      groups == SetToSeq({Group[id] : id \in ids})
      new == [i \in DOMAIN groups |->
                [id |-> nextId + i, alerts |-> {id \in ids : Group[id] = groups[i]},
                 group |-> groups[i], status |-> "OPEN", methods |-> {"IOC_MATCH"}]]
  IN /\ job[w].at = "correlate"
     /\ nextId + Len(new) <= MaxThreats
     /\ nextId' = nextId + Len(new)
     /\ \E failed \in SUBSET ToSet(CreationRecords(new)) : Emit(CreationRecords(new), failed, 0)
     /\ job' = [job EXCEPT ![w].at = "score", ![w].pending = new]
     /\ UNCHANGED <<backend, requests, stores, apiVars, result, dropped, migrationVars>>

\* MITRE mapping and campaign reconstruction keep nothing; score raises for
\* some threats, which ends the run with those stored so far.
Score(w) ==
  LET t == Head(job[w].pending) IN
  /\ job[w].at = "score"
  /\ IF t.group \in Unscorable
     THEN Raise(w) /\ UNCHANGED auditVars
     ELSE /\ job' = [job EXCEPT ![w].at = "report"]
          /\ \E failed \in SUBSET {Event("PRIORITY_SCORED", t.id)} :
               Emit(<<Event("PRIORITY_SCORED", t.id)>>, failed, 0)
  /\ UNCHANGED <<backend, stores, apiVars, result, nextId, requests, dropped, migrationVars>>

\* Mutant: the exception is logged only.
NoErrorNoted(errors, id, saved) == errors

ErrorsAfter(errors, id, saved) == IF saved THEN errors ELSE errors \cup {id}

\* The try block: generate, count, save.  The threat is not stored yet, and
\* PostgreSQL refuses a report of a threat it does not have.
Report(w) ==
  LET t == Head(job[w].pending)
      record == Event("BLUF_GENERATED", t.id)
      report == [id |-> t.id, tier |-> GroupTier[t.group], narrative |-> TRUE]
  IN /\ job[w].at = "report"
     /\ \E failed \in SUBSET {record}, saveFails \in 0 .. 1 :
          LET saved == saveFails = 0 /\ (Postgres => ForeignKeyHolds(threats, report)) IN
          /\ Emit(<<record>>, failed, saveFails)
          /\ reports' = IF ~saved THEN reports
                        ELSE IF Postgres THEN PostgresSaveReport(reports, report)
                        ELSE MemorySaveReport(reports, report)
          /\ result' = [result EXCEPT ![w].reported = @ \cup {t.id},
                                      ![w].errors = ErrorsAfter(@, t.id, saved)]
     /\ job' = [job EXCEPT ![w].at = "store"]
     /\ UNCHANGED <<backend, alerts, threats, scores, apiVars, nextId, requests, dropped, migrationVars>>

\* Mutant: the threat and its score are two transactions, the second may fail.
StoreThreatThenScore(w) ==
  LET j == job[w]
      t == Head(j.pending)
  IN /\ j.at = "store"
     /\ threats' = MemorySaveThreat(threats, t)
     /\ result' = [result EXCEPT ![w].stored = @ \cup {t.id}]
     /\ Fail(1) /\ Raise(w)
     /\ UNCHANGED <<backend, alerts, scores, reports, logVars, apiVars, nextId, requests,
                    dropped, migrationVars>>

\* The threat and its score in one call; run returns after the last.
StoreThreat(w) ==
  LET j == job[w]
      t == Head(j.pending)
      score == [id |-> t.id, tier |-> GroupTier[t.group], value |-> Value[GroupTier[t.group]],
                mission |-> 1]
  IN /\ j.at = "store"
     /\ \/ /\ threats' = IF Postgres THEN PostgresSaveThreat(threats, t)
                                     ELSE MemorySaveThreat(threats, t)
           /\ scores' = IF Postgres THEN PostgresSaveScore(scores, score)
                                    ELSE MemorySaveScore(scores, score)
           /\ result' = [result EXCEPT ![w].stored = @ \cup {t.id}]
           /\ job' = [job EXCEPT ![w] = IF Len(j.pending) = 1 THEN Idle
                        ELSE [j EXCEPT !.at = "score", !.pending = Tail(j.pending)]]
           /\ Fail(0)
        \/ /\ Fail(1) /\ Raise(w)
           /\ UNCHANGED <<threats, scores, result>>
     /\ UNCHANGED <<backend, alerts, reports, logVars, apiVars, nextId, requests, dropped,
                    migrationVars>>

\* POST /threats/{id}/feedback: kept in this process, then audited; if that
\* raises the client sees a 500 and the verdict is kept all the same.
SubmitFeedback(w, key, id, verdict) ==
  LET record == Event("ANALYST_ACTION", id) IN
  /\ Take(w) /\ Allowed(w, key, "analyst")
  /\ id \in IdsOf(threats)
  /\ verdicts' = [verdicts EXCEPT ![w] = SaveFeedback(@, [id |-> id, verdict |-> verdict])]
  /\ \E failed \in SUBSET {record} : Emit(<<record>>, failed, 0)
  /\ UNCHANGED <<backend, stores, keys, job, result, nextId, dropped, migrationVars>>

\* POST /admin/api-keys: the key is known to this process only.
CreateApiKey(w, key, role) ==
  /\ Take(w) /\ Allowed(w, key, "admin")
  /\ keys' = [keys EXCEPT ![w] = RegisterKey(@, role, role)]
  /\ UNCHANGED <<backend, stores, auditVars, verdicts, job, result, nextId, dropped, migrationVars>>

\* A process dies and starts again; only PostgreSQL keeps anything.
Restart(w) ==
  /\ faults < MaxFaults /\ faults' = faults + 1
  /\ Postgres \/ w = Server
  /\ job' = [job EXCEPT ![w] = Idle]
  /\ result' = [result EXCEPT ![w] = NoResult]
  /\ verdicts' = [verdicts EXCEPT ![w] = Lifespan.verdicts]
  /\ keys' = [keys EXCEPT ![w] = Lifespan.keys]
  /\ IF Postgres
     THEN UNCHANGED <<stores, logVars, dropped>>
     ELSE /\ alerts' = <<>> /\ threats' = <<>> /\ scores' = <<>> /\ reports' = <<>>
          /\ audit' = <<>> /\ announced' = <<>> /\ refused' = {} /\ dropped' = {}
  /\ UNCHANGED <<backend, nextId, requests, migrationVars>>

Migrate ==
  /\ Postgres
  /\ \/ MigrationNext /\ Fail(0)
     \/ (\E r \in Runners : Abort(r)) /\ Fail(1)
  /\ UNCHANGED <<backend, stores, logVars, apiVars, job, result, nextId, requests, dropped>>

Next ==
  \/ \E w \in Workers :
       \/ \E key \in DOMAIN keys[w] :
            \/ \E s \in Submissions, runNow \in BOOLEAN : SubmitAlerts(w, key, s, runNow)
            \/ \E id \in IdsOf(threats), v \in Verdicts : SubmitFeedback(w, key, id, v)
            \/ \E role \in NewRoles : CreateApiKey(w, key, role)
       \/ \E s \in Submissions : Demo(w, s)
       \/ RunPipeline(w) \/ SaveAlert(w) \/ Correlate(w) \/ Score(w) \/ Report(w)
       \/ StoreThreat(w) \/ Restart(w)
  \/ Migrate

Spec == Init /\ [][Next]_vars

-----------------------------------------------------------------------------
(* What the requests that only read return *)

NotFound == [found |-> FALSE]

ReportOf(id) == IF ReportsFor(reports, id) = <<>> THEN NotFound
                ELSE [found |-> TRUE, report |-> Last(ReportsFor(reports, id))]

\* GET /threats.
ListThreats(tier, limit, offset) ==
  LET page == ByPriority(tier, limit, offset)
      entry(t) == [id |-> t.id, score |-> ScoreValue(scores, t),
                   priority |-> IF t.id \in DOMAIN scores THEN scores[t.id].tier ELSE "UNKNOWN",
                   hasBluf |-> ReportOf(t.id).found]
  IN [total |-> Len(threats), threats |-> [i \in DOMAIN page |-> entry(page[i])]]

\* GET /threats/{id}: at most 20 audit records.
GetThreat(id) ==
  IF id \notin IdsOf(threats) THEN NotFound
  ELSE [found |-> TRUE, threat |-> RowWith(threats, id), scored |-> id \in DOMAIN scores,
        audit |-> Page(AuditOf(audit, id), 20, 0)]

\* GET /threats/{id}/graph: of the alerts that are still stored.
GetThreatGraph(w, key, id) ==
  IF ~Allowed(w, key, "analyst") \/ id \notin IdsOf(threats) THEN NotFound
  ELSE [found |-> TRUE, nodes |-> RowWith(threats, id).alerts \cap IdsOf(alerts)]

\* GET /audit.
GetAudit(id, limit) ==
  Page(IF id > 0 THEN AuditOf(audit, id) ELSE RecentAudit(audit, limit), limit, 0)

\* GET /threats/{id}/feedback: what this process was told.
GetFeedback(w, id) == FeedbackFor(verdicts[w], id)

Health == [alertsStored |-> Len(alerts), threatsStored |-> Len(threats)]

\* GET /metrics: a threat without a score is in no tier.
Metrics ==
  LET ids == IdsOf(ByPriority(AnyTier, 10000, 0)) IN
  [alertsTotal |-> Len(alerts), threatsTotal |-> Len(threats), reportsTotal |-> Len(reports),
   byTier |-> [tier \in Tier |->
                 Cardinality({id \in ids : id \in DOMAIN scores /\ scores[id].tier = tier})]]

-----------------------------------------------------------------------------
(* Properties *)

\* A threat refers to evidence the repository has, unless it evicted it: run
\* saves its batch before it correlates, and a save that fails ends the run.
EvidenceIsStored ==
  \A i \in DOMAIN threats :
    /\ threats[i].alerts # {}
    /\ threats[i].alerts \subseteq IdsOf(alerts) \cup dropped
    /\ \A w \in Workers :
         GetThreatGraph(w, "master", threats[i].id).nodes \cup dropped
           = threats[i].alerts \cup dropped

\* The decisions about threat id that call for a record.
DueRecords(id) ==
  {Event(e, id) : e \in {"CORRELATION_CREATED", "PRIORITY_SCORED", "BLUF_GENERATED"}}
    \cup {Event("ANALYST_ACTION", id) : w \in {w \in Workers : GetFeedback(w, id) # <<>>}}

\* The in-memory log has MaxAudit records that are newer than any such record.
Outdated(e) == \A n \in DOMAIN announced : announced[n] = e => n + MaxAudit <= Len(announced)

\* No decision without its record, whichever process made it: what is stored was
\* announced to the audit log first, and a reader sees the record unless the page
\* of 100 is full.  Two things may take a record away: a failed call of the
\* database, one record at a time, and in memory MaxAudit newer records.
AuditedBeforeStored ==
  /\ Cardinality(refused) <= faults
  /\ \A id \in IdsOf(threats) :
       LET page == GetAudit(id, 100) IN
       Len(page) < 100 =>
         \A e \in DueRecords(id) :
           /\ e \in ToSet(announced)
           /\ e \in ToSet(page) \/ (IF Postgres THEN e \in refused ELSE Outdated(e))

\* A report the result counts is in the repository or in the errors, never in
\* both: with PostgreSQL, where the foreign key refuses the report of a new
\* threat, every single one is an error.
ReportsAccounted ==
  \A w \in Workers :
    LET stored == IdsOf(reports) IN
    /\ result[w].stored \subseteq result[w].reported
    /\ result[w].errors = result[w].reported \ stored
    /\ Postgres => result[w].errors = result[w].reported

\* The three ways to ask for threats agree: every stored threat has a score
\* and a tier, and the list is ranked; up to their limits the tiers of /metrics
\* add up to the total, the list is complete, and a filter gives the threats
\* the unfiltered list shows so.
CountsAddUp ==
  LET all == ListThreats(AnyTier, 500, 0)
      count == Metrics.byTier
  IN /\ all.total = Health.threatsStored
     /\ all.total <= 10000 =>
          all.total = count["CRITICAL"] + count["HIGH"] + count["MEDIUM"] + count["LOW"]
     /\ Len(all.threats) = IF all.total <= 500 THEN all.total ELSE 500
     /\ \A i \in 1 .. Len(all.threats) - 1 : all.threats[i].score >= all.threats[i + 1].score
     /\ all.total <= 500 =>
          \A tier \in Tier :
            ListThreats(tier, 500, 0).threats
              = Selected(all.threats, {i \in DOMAIN all.threats : all.threats[i].priority = tier})
     /\ \A id \in IdsOf(all.threats) : GetThreat(id).scored
=============================================================================
