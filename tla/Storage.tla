-------------------------------- MODULE Storage --------------------------------
(***************************************************************************)
(* The repositories of threaticap/storage: what each call of the in-memory *)
(* and of the PostgreSQL implementation makes of a store, and what a       *)
(* reader gets back.  A store is a sequence, or a function, of rows; every *)
(* call here is atomic: it runs under the repository's lock, or in one     *)
(* transaction.                                                            *)
(*                                                                         *)
(* An alert's data stands for the fields an upsert never writes, its tags  *)
(* for status and enrichment_tags.  A score keeps its tier, its value and  *)
(* the mission fields, which have no column.                               *)
(***************************************************************************)
EXTENDS Naturals, Sequences, FiniteSets, SequencesExt, Functions

CONSTANTS
  MaxAlerts,  \* max_size of InMemoryAlertRepository
  MaxAudit    \* max_size of InMemoryAuditRepository

ASSUME StorageAssumption == MaxAlerts \in Nat \ {0} /\ MaxAudit \in Nat \ {0}

Tier == {"CRITICAL", "HIGH", "MEDIUM", "LOW"}
AnyTier == "any"

IdsOf(rows) == {rows[i].id : i \in DOMAIN rows}
RowNumber(rows, id) == CHOOSE i \in DOMAIN rows : rows[i].id = id
RowWith(rows, id) == rows[RowNumber(rows, id)]

\* A slice rows[offset : offset + limit].
Page(rows, limit, offset) ==
  SubSeq(rows, offset + 1, IF offset + limit < Len(rows) THEN offset + limit ELSE Len(rows))

\* The members of S in the order of a relation on them: before the nth there
\* are n - 1.
InOrder(S, before) ==
  [n \in 1 .. Cardinality(S) |->
     CHOOSE i \in S : Cardinality({j \in S : <<j, i>> \in before}) = n - 1]

\* The rows with a number in S, in the order they have in the list.
Selected(rows, S) ==
  LET order == InOrder(S, {e \in S \X S : e[1] < e[2]})
  IN [n \in DOMAIN order |-> rows[order[n]]]

-----------------------------------------------------------------------------
(* Alerts *)

\* A new version takes the place of the old one; the oldest entry goes when
\* there are too many.
MemorySaveAlert(rows, a) ==
  LET stored == IF a.id \in IdsOf(rows) THEN [rows EXCEPT ![RowNumber(rows, a.id)] = a]
                                        ELSE Append(rows, a)
  IN IF Len(stored) > MaxAlerts THEN Tail(stored) ELSE stored

\* The columns of an alert: geo has none.
AlertRow(a) == [id |-> a.id, data |-> a.data, tags |-> a.tags]
RowToAlert(row) == [id |-> row.id, data |-> row.data, tags |-> row.tags, geo |-> FALSE]

\* INSERT ... ON CONFLICT DO UPDATE of status and enrichment_tags only.
PostgresSaveAlert(rows, a) ==
  IF a.id \in IdsOf(rows) THEN [rows EXCEPT ![RowNumber(rows, a.id)].tags = a.tags]
                          ELSE Append(rows, AlertRow(a))

MemoryRecentAlerts(rows, limit, offset) == Page(Reverse(rows), limit, offset)

\* Rows are in the order of ingestion_time, which an upsert leaves alone.
PostgresRecentAlerts(rows, limit, offset) ==
  [i \in DOMAIN Page(Reverse(rows), limit, offset) |->
     RowToAlert(Page(Reverse(rows), limit, offset)[i])]

-----------------------------------------------------------------------------
(* Threats and scores *)

MemorySaveThreat(rows, t) ==
  IF t.id \in IdsOf(rows) THEN [rows EXCEPT ![RowNumber(rows, t.id)] = t] ELSE Append(rows, t)

\* On conflict only the mutable columns: here the status.
PostgresSaveThreat(rows, t) ==
  IF t.id \in IdsOf(rows) THEN [rows EXCEPT ![RowNumber(rows, t.id)].status = t.status]
                          ELSE Append(rows, t)

\* What _row_to_threat leaves of a row: methods outside the enumeration go.
KnownMethods == {"IOC_MATCH", "TEMPORAL", "ASSET_OVERLAP", "BEHAVIOUR", "CAMPAIGN",
                 "MANUAL", "COMPOSITE"}
RowToThreat(row) == [row EXCEPT !.methods = @ \cap KnownMethods]

MemorySaveScore(scores, s) ==
  [id \in DOMAIN scores \cup {s.id} |-> IF id = s.id THEN s ELSE scores[id]]

\* mission_impact_multiplier and degraded_missions are not stored.
ScoreRow(s) == [id |-> s.id, tier |-> s.tier, value |-> s.value]
RowToScore(row) == [id |-> row.id, tier |-> row.tier, value |-> row.value, mission |-> 1]

PostgresSaveScore(scores, s) == MemorySaveScore(scores, ScoreRow(s))

ScoreValue(scores, t) == IF t.id \in DOMAIN scores THEN scores[t.id].value ELSE 0
HasTier(scores, t, tier) == t.id \in DOMAIN scores /\ scores[t.id].tier = tier

\* The threats of a tier by descending score, equal ones as they are stored; a
\* threat without a score counts as 0 and is in no tier.
Higher(rows, scores) ==
  {e \in (DOMAIN rows) \X (DOMAIN rows) :
     LET v == ScoreValue(scores, rows[e[1]])
         u == ScoreValue(scores, rows[e[2]])
     IN v > u \/ (v = u /\ e[1] < e[2])}

MemoryByPriority(rows, scores, tier, limit, offset) ==
  LET chosen == {i \in DOMAIN rows : tier = AnyTier \/ HasTier(scores, rows[i], tier)}
      order == InOrder(chosen, Higher(rows, scores))
  IN Page([n \in DOMAIN order |-> rows[order[n]]], limit, offset)

\* The same by LEFT JOIN, ORDER BY COALESCE(final_score, 0) DESC, which leaves
\* the order of equal scores open: here as in memory.
PostgresByPriority(rows, scores, tier, limit, offset) ==
  LET page == MemoryByPriority(rows, scores, tier, limit, offset)
  IN [i \in DOMAIN page |-> RowToThreat(page[i])]

-----------------------------------------------------------------------------
(* Audit records, reports and verdicts *)

\* Mutant: the oldest records stay, and the newest are cut.
KeepOldest(records, new) ==
  LET longer == records \o new
  IN IF Len(longer) > MaxAudit THEN SubSeq(longer, 1, MaxAudit) ELSE longer

\* Appended one at a time, and cut to the newest MaxAudit each time: as if cut once.
MemoryAppendAudit(records, new) ==
  LET longer == records \o new
  IN IF Len(longer) > MaxAudit THEN SubSeq(longer, Len(longer) - MaxAudit + 1, Len(longer))
                               ELSE longer

PostgresAppendAudit(records, new) == records \o new

AuditOf(records, id) == Selected(records, {i \in DOMAIN records : records[i].threat = id})
RecentAudit(records, limit) ==
  Reverse(SubSeq(records, IF Len(records) > limit THEN Len(records) - limit + 1 ELSE 1, Len(records)))

MemorySaveReport(rows, r) == Append(rows, r)

\* campaign_narrative, adversary_objective and the mission fields of a report
\* have no column and come back as their defaults.
ReportRow(r) == [id |-> r.id, tier |-> r.tier]
RowToReport(row) == [id |-> row.id, tier |-> row.tier, narrative |-> FALSE]

\* bluf_reports.threat_id REFERENCES correlated_threats.
ForeignKeyHolds(threatRows, r) == r.id \in IdsOf(threatRows)
PostgresSaveReport(rows, r) == Append(rows, ReportRow(r))

ReportsFor(rows, id) == Selected(rows, {i \in DOMAIN rows : rows[i].id = id})

SaveFeedback(verdicts, v) == Append(verdicts, v)
FeedbackFor(verdicts, id) == Selected(verdicts, {i \in DOMAIN verdicts : verdicts[i].id = id})
=============================================================================
