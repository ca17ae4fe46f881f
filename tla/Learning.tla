-------------------------------- MODULE Learning --------------------------------
(***************************************************************************)
(* What analysts' verdicts teach: FeedbackStore and FeedbackAwareFPFilter  *)
(* of correlation/fp_learning.py, FeedQualityManager of                    *)
(* intel_quality/feed_quality.py.  Both keep counters under a lock and     *)
(* rewrite a file in place after each verdict, outside the lock: a save    *)
(* copies the records one by one while others count, saves overlap, a save *)
(* may fail or be cut short by a crash, and a start takes what it can read.*)
(*                                                                         *)
(* A step ends where a thread may be switched: at a call or the end of a   *)
(* loop's body.  So a counter's total is seen without its verdict, and a   *)
(* source's counters without its reliability, in memory and in the file.   *)
(*                                                                         *)
(* Rates and reliabilities are in ten-thousandths, rounded down at every   *)
(* step; the code keeps floats and rounds them when it saves.              *)
(***************************************************************************)
EXTENDS FpFilter

CONSTANTS
  Threads,
  Threats,       \* the threats analysts judge, each a sequence of its alerts
  MinSamples,    \* min_samples_for_rating
  LearningRate,  \* learning_rate, in thousandths
  MaxVerdicts,   \* bound: verdicts ever given
  MaxCrashes     \* bound: crashes and failed saves

ASSUME LearningAssumption ==
  /\ {MinSamples, LearningRate, MaxVerdicts, MaxCrashes} \subseteq Nat
  /\ \A threat \in Threats :
       Len(threat) \in Nat \ {0} /\ DOMAIN threat = 1 .. Len(threat)

Store == {"feedback", "quality"}
Parts == {"stats", "sources", "indicators"}
Verdict == {"TRUE_POSITIVE", "FALSE_POSITIVE", "BENIGN", "NEEDS_REVIEW"}
Torn == {}
Empty == <<>>
Nothing == [part \in Parts |-> Empty]

VARIABLES
  stats,       \* FeedbackStore._stats: tp, fp, benign and total of each key
  sources,     \* FeedQualityManager._sources
  indicators,  \* FeedQualityManager._indicators
  file,        \* what each file says: {the parts}, or Torn
  thread,      \* each thread: which store it is in, how far it is, what it has copied
  sound,       \* history: did the last save of each file end well, without another beside it?
  torn,        \* history: sources read from the file torn, and not rated since
  given,       \* verdicts so far
  crashes      \* crashes and failed saves so far

memory == <<stats, sources, indicators>>
bounds == <<given, crashes>>
vars == <<memory, file, thread, sound, torn, bounds>>

Idle == [at |-> "idle", store |-> "none", verdict |-> "none", key |-> Empty, todo |-> {},
         seen |-> Nothing]

Init ==
  /\ stats = Empty /\ sources = Empty /\ indicators = Empty
  /\ file = [s \in Store |-> {Nothing}]
  /\ thread = [t \in Threads |-> Idle]
  /\ sound = [s \in Store |-> TRUE]
  /\ torn = {} /\ given = 0 /\ crashes = 0

\* A dictionary with r at key.
With(f, key, r) == [k \in DOMAIN f \cup {key} |-> IF k = key THEN r ELSE f[k]]

\* The steps of a verdict, which holds the lock of its store.
Counting == {"count", "counted", "rate", "mark"}
Locked(s) == \E t \in Threads : thread[t].store = s /\ thread[t].at \in Counting

-----------------------------------------------------------------------------
(* FeedbackStore.record *)

NoStats == [tp |-> 0, fp |-> 0, benign |-> 0, total |-> 0]

\* The rule, the source and the source type of an alert have counters.
StatKeys(a) == <<<<"rule", a.rule>>, <<"source", a.source>>, <<"source_type", a.sourceType>>>>

StatOf(key) == IF key \in DOMAIN stats THEN stats[key] ELSE NoStats

\* One verdict counts once for every alert of the threat: the keys, each with
\* its place in the order of the loops.
Visits(threat) ==
  {<<3 * i + j, StatKeys(threat[i])[j]>> : i \in DOMAIN threat, j \in 1 .. 3}
  \ {<<3 * i + 1, <<"rule", None>>>> : i \in DOMAIN threat}

RecordFeedback(t, threat, verdict) ==
  /\ ~Locked("feedback")
  /\ thread' = [thread EXCEPT ![t] =
       [Idle EXCEPT !.at = "count", !.store = "feedback", !.verdict = verdict, !.todo = Visits(threat)]]
  /\ UNCHANGED memory

\* The next key has one more of the total.
CountTotal(t) ==
  /\ thread[t].at = "count"
  /\ \E visit \in thread[t].todo :
       LET key == visit[2] IN
       /\ \A other \in thread[t].todo : visit[1] <= other[1]
       /\ stats' = With(stats, key, [StatOf(key) EXCEPT !.total = @ + 1])
       /\ thread' = [thread EXCEPT ![t].at = "counted", ![t].key = key, ![t].todo = @ \ {visit}]
  /\ UNCHANGED <<sources, indicators, file, sound, torn, bounds>>

Count(s, verdict) ==
  [s EXCEPT !.tp = IF verdict = "TRUE_POSITIVE" THEN @ + 1 ELSE @,
            !.fp = IF verdict = "FALSE_POSITIVE" THEN @ + 1 ELSE @,
            !.benign = IF verdict = "BENIGN" THEN @ + 1 ELSE @]

\* Mutant: a verdict that is no decision is counted but not saved.
CountVerdictSaveDecided(t) ==
  /\ thread[t].at = "counted"
  /\ stats' = [stats EXCEPT ![thread[t].key] = Count(@, thread[t].verdict)]
  /\ thread' = IF thread[t].todo = {} /\ thread[t].verdict = "NEEDS_REVIEW"
               THEN [thread EXCEPT ![t] = Idle]
               ELSE [thread EXCEPT ![t].at = IF thread[t].todo = {} THEN "open" ELSE "count"]
  /\ UNCHANGED <<sources, indicators, file, sound, torn, bounds>>

\* The time is taken in between, then the key has one more of the verdict.
CountVerdict(t) ==
  /\ thread[t].at = "counted"
  /\ stats' = [stats EXCEPT ![thread[t].key] = Count(@, thread[t].verdict)]
  /\ thread' = [thread EXCEPT ![t].at = IF thread[t].todo = {} THEN "open" ELSE "count"]
  /\ UNCHANGED <<sources, indicators, file, sound, torn, bounds>>

-----------------------------------------------------------------------------
(* FeedQualityManager.record_verdict *)

NewSource == [tp |-> 0, fp |-> 0, total |-> 0, ema |-> 0, reliability |-> 8000]
SourceOf(id) == IF id \in DOMAIN sources THEN sources[id] ELSE NewSource

\* smoothing_alpha is a tenth.
CountSource(src, verdict) ==
  LET isTp == verdict = "TRUE_POSITIVE" IN
  [src EXCEPT !.total = @ + 1,
              !.tp = IF isTp THEN @ + 1 ELSE @,
              !.fp = IF isTp THEN @ ELSE @ + 1,
              !.ema = (IF isTp THEN 0 ELSE 1000) + (9 * @) \div 10]

IndicatorKeys(a) == {<<o.type, o.value>> : o \in a.observables}
NewIndicator == [tp |-> 0, fp |-> 0, retired |-> FALSE]

\* The counters of the source and its average; unknown indicators are passed over.
RecordVerdict(t, a, verdict) ==
  /\ ~Locked("quality")
  /\ sources' = With(sources, a.source, CountSource(SourceOf(a.source), verdict))
  /\ thread' = [thread EXCEPT ![t] =
       [Idle EXCEPT !.at = "rate", !.store = "quality", !.verdict = verdict, !.key = a.source,
                    !.todo = IndicatorKeys(a) \cap DOMAIN indicators]]
  /\ UNCHANGED <<stats, indicators>>

\* Mutant: the average is taken for the reliability, not for its complement.
RatedByAverage(src) ==
  IF src.total >= MinSamples THEN [src EXCEPT !.reliability = Max({1000, src.ema})] ELSE src

\* The reliability follows the moving average once there are enough samples.
Rated(src) ==
  IF src.total >= MinSamples THEN [src EXCEPT !.reliability = Max({1000, 10000 - src.ema})] ELSE src

\* Its reliability is the one its own counters give.
Whole(src) ==
  src.reliability = IF src.total >= MinSamples THEN Max({1000, 10000 - src.ema}) ELSE 8000

\* max() is called in between, then the source is rated.
Rate(t) ==
  /\ thread[t].at = "rate"
  /\ sources' = [sources EXCEPT ![thread[t].key] = Rated(@)]
  /\ torn' = {id \in torn : ~Whole(sources'[id])}
  /\ thread' = [thread EXCEPT ![t].at = IF thread[t].todo = {} THEN "open" ELSE "mark"]
  /\ UNCHANGED <<stats, indicators, file, sound, bounds>>

\* The indicators have the verdict too, one after the other.
MarkIndicator(t) ==
  /\ thread[t].at = "mark"
  /\ \E key \in thread[t].todo :
       /\ indicators' = IF thread[t].verdict = "TRUE_POSITIVE"
                        THEN [indicators EXCEPT ![key].tp = @ + 1]
                        ELSE [indicators EXCEPT ![key].fp = @ + 1]
       /\ thread' = [thread EXCEPT ![t].at = IF thread[t].todo = {key} THEN "open" ELSE "mark",
                                   ![t].todo = @ \ {key}]
  /\ UNCHANGED <<stats, sources, file, sound, torn, bounds>>

Judge(t, threat) ==
  /\ thread[t].at = "idle" /\ given < MaxVerdicts
  /\ given' = given + 1
  /\ \/ \E verdict \in Verdict : RecordFeedback(t, threat, verdict)
     \/ \E verdict \in {"TRUE_POSITIVE", "FALSE_POSITIVE"} : RecordVerdict(t, threat[1], verdict)
  /\ UNCHANGED <<file, sound, torn, crashes>>

\* record_alert_ingested: new indicators; nothing is saved.  One seen again is
\* fresh, but one that was retired stays so.
Ingest(a) ==
  /\ ~Locked("quality")
  /\ sources' = With(sources, a.source, SourceOf(a.source))
  /\ indicators' = [key \in DOMAIN indicators \cup IndicatorKeys(a) |->
       IF key \in DOMAIN indicators THEN indicators[key] ELSE NewIndicator]
  /\ UNCHANGED <<stats, file, thread, sound, torn, bounds>>

\* retire_stale_indicators: those no alert has named for max_staleness_days,
\* which may be any.
RetireStale ==
  /\ ~Locked("quality")
  /\ \E stale \in SUBSET DOMAIN indicators :
       indicators' = [key \in DOMAIN indicators |->
         [indicators[key] EXCEPT !.retired = @ \/ key \in stale]]
  /\ UNCHANGED <<stats, sources, file, thread, sound, torn, bounds>>

-----------------------------------------------------------------------------
(* The saves, without the lock, and the start *)

Memory(part) ==
  CASE part = "stats" -> stats [] part = "sources" -> sources [] part = "indicators" -> indicators

SaveSteps == Parts \cup {"reliability", "write"}
Saving(s, t) == thread[t].store = s /\ thread[t].at \in SaveSteps
Beside(t) == {u \in Threads \ {t} : Saving(thread[t].store, u)}

\* open(path, "w") empties the file; a save under way beside it is not sound.
OpenFile(t) ==
  LET s == thread[t].store
      part == IF s = "feedback" THEN "stats" ELSE "sources"
  IN /\ thread[t].at = "open"
     /\ file' = [file EXCEPT ![s] = Torn]
     /\ sound' = [sound EXCEPT ![s] = Beside(t) = {}]
     /\ thread' = [thread EXCEPT ![t] =
          [Idle EXCEPT !.at = part, !.store = s, !.todo = DOMAIN Memory(part)]]
     /\ UNCHANGED <<memory, torn, bounds>>

\* The dictionary has not grown since the loop over it began.
SameKeys(t) ==
  LET part == thread[t].at IN
  DOMAIN Memory(part) = thread[t].todo \cup DOMAIN thread[t].seen[part]

\* One record is copied: of a source, what comes before the call of round().
CopyRecord(t) ==
  LET part == thread[t].at IN
  /\ part \in Parts /\ SameKeys(t)
  /\ \E key \in thread[t].todo :
       thread' = [thread EXCEPT ![t].at = IF part = "sources" THEN "reliability" ELSE part,
                                ![t].key = key, ![t].todo = @ \ {key},
                                ![t].seen[part] = With(@, key, Memory(part)[key])]
  /\ UNCHANGED <<memory, file, sound, torn, bounds>>

\* What comes after it.
CopyReliability(t) ==
  LET key == thread[t].key IN
  /\ thread[t].at = "reliability"
  /\ thread' = [thread EXCEPT ![t].at = "sources",
                              ![t].seen.sources[key].reliability = sources[key].reliability]
  /\ UNCHANGED <<memory, file, sound, torn, bounds>>

\* The loop ends.
CopyNext(t) ==
  LET part == thread[t].at IN
  /\ part \in Parts /\ SameKeys(t) /\ thread[t].todo = {}
  /\ thread' = IF part = "sources"
               THEN [thread EXCEPT ![t].at = "indicators", ![t].todo = DOMAIN indicators]
               ELSE [thread EXCEPT ![t].at = "write"]
  /\ UNCHANGED <<memory, file, sound, torn, bounds>>

\* A dictionary that grew is an error; so may a write be.  The error is
\* logged and the file stays as it is.
SaveFails(t) ==
  LET s == thread[t].store IN
  /\ \/ /\ thread[t].at \in Parts /\ ~SameKeys(t)
        /\ UNCHANGED crashes
     \/ /\ thread[t].at \in {"open", "write"} /\ crashes < MaxCrashes
        /\ crashes' = crashes + 1
  /\ sound' = [sound EXCEPT ![s] = FALSE]
  /\ thread' = [thread EXCEPT ![t] = Idle]
  /\ UNCHANGED <<memory, file, torn, given>>

\* Two writers of one file write over each other.
Write(t) ==
  LET s == thread[t].store IN
  /\ thread[t].at = "write"
  /\ \/ file' = [file EXCEPT ![s] = {thread[t].seen}]
     \/ ~sound[s] /\ file' = [file EXCEPT ![s] = Torn]
  /\ thread' = [thread EXCEPT ![t] = Idle]
  /\ UNCHANGED <<memory, sound, torn, bounds>>

\* The process ends, in the middle of a verdict or a save too, and a new one
\* reads the files; what cannot be read is left out.
Restart ==
  /\ crashes < MaxCrashes
  /\ crashes' = crashes + 1
  /\ \E f \in IF file["feedback"] = Torn THEN {Nothing} ELSE file["feedback"] : stats' = f.stats
  /\ \E f \in IF file["quality"] = Torn THEN {Nothing} ELSE file["quality"] :
       sources' = f.sources /\ indicators' = f.indicators
  /\ torn' = {id \in DOMAIN sources' : ~Whole(sources'[id])}
  /\ sound' = [s \in Store |-> file[s] # Torn]
  /\ thread' = [t \in Threads |-> Idle]
  /\ UNCHANGED <<file, given>>

Next ==
  \/ \E t \in Threads, threat \in Threats : Judge(t, threat)
  \/ \E t \in Threads : CountTotal(t) \/ CountVerdict(t) \/ Rate(t) \/ MarkIndicator(t)
  \/ \E t \in Threads : OpenFile(t) \/ CopyRecord(t) \/ CopyReliability(t) \/ CopyNext(t)
  \/ \E t \in Threads : SaveFails(t) \/ Write(t)
  \/ \E threat \in Threats : Ingest(threat[1])
  \/ RetireStale \/ Restart

Spec == Init /\ [][Next]_vars

-----------------------------------------------------------------------------
(* FeedbackAwareFPFilter.compute_fp_probability *)

\* confidence_weight: 1 - exp(-n / 20), in thousandths; the table ends past
\* the learning rate, and so does what the runs count.
ConfidenceWeight(n) ==
  <<0, 49, 95, 139, 181, 221, 259, 295, 330, 362, 393, 423, 451>>[Min({n, 12}) + 1]

EnoughVerdicts == 3

FpRate(s) == (1000 * (s.fp + s.benign)) \div s.total

\* The counters that have enough verdicts, once for every alert that has them.
LearnedKeys(threat) == {visit \in Visits(threat) : StatOf(visit[2]).total >= EnoughVerdicts}

\* Mutant: the learned rates are not capped by the learning rate.
BlendUncapped(weight, n) == weight \div n

Blend(weight, n) == Min({LearningRate, weight \div n})

AdjustedFp(threat, confidence) ==
  LET heuristic == FpProbability(ToSet(threat), confidence)
      keys == LearnedKeys(threat)
      weight == MapThenSumSet(LAMBDA k : ConfidenceWeight(stats[k[2]].total), keys)
      learned == MapThenSumSet(LAMBDA k : FpRate(stats[k[2]]) * ConfidenceWeight(stats[k[2]].total), keys)
      blend == Blend(weight, Cardinality(keys))
  IN IF keys = {} THEN heuristic
     ELSE Min({MaxFp, ((1000 - blend) * heuristic + blend * (learned \div weight)) \div 1000})

-----------------------------------------------------------------------------
(* Properties *)

Nobody(s) == \A t \in Threads : thread[t].store # s

\* A file whose last save ran by itself and did not fail has every verdict
\* there is, once nobody is counting or saving: the saves of verdicts given in
\* between repair it.
SoundSaveIsComplete ==
  \A s \in Store : (sound[s] /\ Nobody(s)) =>
    \E f \in file[s] :
      /\ s = "feedback" => f.stats = stats
      /\ s = "quality" =>
           /\ \A id \in DOMAIN sources : sources[id].total > 0 =>
                id \in DOMAIN f.sources /\ f.sources[id] = sources[id]
           /\ \A key \in DOMAIN indicators :
                LET i == indicators[key] IN i.tp + i.fp > 0 =>
                  /\ key \in DOMAIN f.indicators
                  /\ f.indicators[key].tp = i.tp /\ f.indicators[key].fp = i.fp

Rating(t, id) == thread[t].at = "rate" /\ thread[t].key = id

\* What a save copied in the middle of a verdict misleads a start, and nothing
\* else does.  Where no verdict is under way the reliability of a source fits
\* its counters, unless its record was read torn and not rated since; a verdict
\* moves a source that was rated the way it says; and a start tears nothing if
\* the last save was sound and nobody was judging or saving.
VerdictsMoveReliability ==
  [][/\ \A id \in DOMAIN sources' \ torn' :
          (\E t \in Threads : Rating(t, id)') \/ Whole(sources'[id])
     /\ \A id \in (DOMAIN sources \cap DOMAIN sources') \ torn, t \in Threads :
          (Rating(t, id) /\ thread'[t].at # "idle" /\ sources[id].total > MinSamples) =>
            IF thread[t].verdict = "TRUE_POSITIVE"
            THEN sources'[id].reliability >= sources[id].reliability
            ELSE sources'[id].reliability <= sources[id].reliability
     /\ (sound["quality"] /\ Nobody("quality")) => torn' \subseteq torn]_vars

\* Learned rates move the heuristic by at most the learning rate of the way to
\* the most extreme of them, also when the probability is asked for while a
\* verdict is being counted, or the counters were torn.  What makes a rate
\* count is three alerts, not three verdicts.
LearnedShiftBounded ==
  \A threat \in Threats, confidence \in {300, 700} :
    LET heuristic == FpProbability(ToSet(threat), confidence)
        ends == {heuristic} \cup {FpRate(stats[k[2]]) : k \in LearnedKeys(threat)}
        shift == AdjustedFp(threat, confidence) - heuristic
    IN /\ 1000 * shift <= LearningRate * (Max(ends) - heuristic)
       /\ 1000 * shift >= LearningRate * (Min(ends) - heuristic) - 2000
=============================================================================
