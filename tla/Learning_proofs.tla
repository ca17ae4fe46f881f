----------------------------- MODULE Learning_proofs -----------------------------
(***************************************************************************)
(* Proofs about Learning: that a save which ran by itself has every        *)
(* verdict, that verdicts move the reliability of a source the way they    *)
(* say, and that they move the false-positive probability no further than  *)
(* the learning rate.                                                      *)
(*                                                                         *)
(* The invariant has three parts.  DataInv says what the counters and      *)
(* their copies are, in memory, in the files and in the saves under way,   *)
(* and that one thread holds a store's lock.  SoundInv follows a save: if  *)
(* the last save of a file is sound and nobody is counting or about to     *)
(* open it, the only save under way has copied the memory as it is, as far *)
(* as it has come; once nobody saves, the file has it all.  WholeInv       *)
(* follows a verdict: what is rated was whole before it was counted,       *)
(* unless it was read torn.                                                *)
(*                                                                         *)
(* For the probability it is enough that in every copy of the counters,    *)
(* torn or not, no more was judged false or benign than was judged; the    *)
(* rest is arithmetic of sums over a finite set of keys and of their mean. *)
(***************************************************************************)
EXTENDS Learning, FiniteSetTheorems, WellFoundedInduction, TLAPS

SourceFields == {"tp", "fp", "total", "ema", "reliability"}
IndicatorFields == {"tp", "fp", "retired"}
StatFields == {"tp", "fp", "benign", "total"}
ThreadFields == {"at", "store", "verdict", "key", "todo", "seen"}

IsFunction(f) == f = [x \in DOMAIN f |-> f[x]]

SourceOk(src) ==
  /\ src = [x \in SourceFields |-> src[x]]
  /\ src.tp \in Nat /\ src.fp \in Nat /\ src.total \in Nat
  /\ src.ema \in Nat /\ src.ema <= 10000

IndicatorOk(i) ==
  /\ i = [x \in IndicatorFields |-> i[x]]
  /\ i.tp \in Nat /\ i.fp \in Nat

\* What was judged a false positive or benign was judged.
StatOk(s) ==
  /\ s = [x \in StatFields |-> s[x]]
  /\ s.tp \in Nat /\ s.fp \in Nat /\ s.benign \in Nat /\ s.total \in Nat
  /\ s.fp + s.benign <= s.total

SourcesOk(f) == IsFunction(f) /\ \A id \in DOMAIN f : SourceOk(f[id])
IndicatorsOk(f) == IsFunction(f) /\ \A key \in DOMAIN f : IndicatorOk(f[key])
StatsOk(f) == IsFunction(f) /\ \A key \in DOMAIN f : StatOk(f[key])

\* The sources of a copy, or of an earlier state, are known, and those nobody
\* judged are as they were.
Earlier(old, new) ==
  \A id \in DOMAIN old : id \in DOMAIN new /\ (new[id].total = 0 => old[id] = new[id])

\* What a file or a save of store s holds, the memory having the sources so.
CopyOk(s, f, so) ==
  /\ f = [part \in Parts |-> f[part]]
  /\ StatsOk(f.stats) /\ SourcesOk(f.sources) /\ IndicatorsOk(f.indicators)
  /\ s = "feedback" => f.sources = Empty
  /\ Earlier(f.sources, so)

\* Where a thread of each store may be.
PlaceOk(at, store) ==
  \/ at = "idle" /\ store = "none"
  \/ at \in {"count", "counted", "stats", "open", "write"} /\ store = "feedback"
  \/ at \in {"rate", "mark", "sources", "reliability", "indicators", "open", "write"}
     /\ store = "quality"

\* What a thread is doing, and what the memory has of it.
ThreadOk(r, st, so) ==
  /\ r = [x \in ThreadFields |-> r[x]]
  /\ PlaceOk(r.at, r.store)
  /\ CopyOk(r.store, r.seen, so)
  /\ r.at = "counted" => r.key \in DOMAIN st /\ st[r.key].fp + st[r.key].benign < st[r.key].total
  /\ r.at = "rate" => r.key \in DOMAIN so /\ so[r.key].total > 0
  /\ r.at = "reliability" => r.key \in DOMAIN r.seen.sources

Holds(r, s) == r.store = s /\ r.at \in Counting

FilesOk(fl, so) ==
  /\ DOMAIN fl = Store
  /\ \A s \in Store : \A f, g \in fl[s] : CopyOk(s, f, so) /\ f = g

ThreadsOk(th, st, so) ==
  /\ DOMAIN th = Threads
  /\ \A t \in Threads : ThreadOk(th[t], st, so)
  /\ \A s \in Store : \A t, u \in Threads : Holds(th[t], s) /\ Holds(th[u], s) => t = u

MemoryOk(st, so, ind) == StatsOk(st) /\ SourcesOk(so) /\ IndicatorsOk(ind)

DataInv ==
  /\ MemoryOk(stats, sources, indicators)
  /\ ThreadsOk(thread, stats, sources)
  /\ FilesOk(file, sources)
  /\ DOMAIN sound = Store

-----------------------------------------------------------------------------
(* Records *)

\* The greater of two integers.
LEMMA MaxOfTwo ==
  ASSUME NEW x \in Int, NEW y \in Int
  PROVE  Max({x, y}) = IF x < y THEN y ELSE x
<1>1. \E m \in {x, y} : \A n \in {x, y} : m >= n
  OBVIOUS
<1> QED
  BY <1>1 DEF Max

\* The reliability the rating gives an average.
Complement(ema) == IF ema > 9000 THEN 1000 ELSE 10000 - ema

\* The complement of an average, no less than a tenth.
LEMMA MaxIsComplement ==
  ASSUME NEW ema \in Nat
  PROVE  Max({1000, 10000 - ema}) = Complement(ema)
<1>1. 1000 \in Int /\ 10000 - ema \in Int /\ (1000 < 10000 - ema <=> ema < 9000)
  OBVIOUS
<1> DEFINE x == 10000 - ema
<1>2. Max({1000, x}) = IF 1000 < x THEN x ELSE 1000
  BY <1>1, MaxOfTwo
<1> QED
  BY <1>1, <1>2 DEF Complement

\* The moving average stays in range, falls with a true positive and does not
\* fall with a false one.
LEMMA AverageMoves ==
  ASSUME NEW ema \in Nat, ema <= 10000
  PROVE  /\ (9 * ema) \div 10 \in Nat
         /\ (9 * ema) \div 10 <= ema
         /\ 1000 + ((9 * ema) \div 10) <= 10000
         /\ 1000 + ((9 * ema) \div 10) >= ema
  OBVIOUS

\* A verdict is one sample more, and moves the average to its side.
LEMMA VerdictCounts ==
  ASSUME NEW old, SourceOk(old), NEW verdict
  PROVE  LET new == CountSource(old, verdict) IN
         /\ SourceOk(new)
         /\ new.total = old.total + 1 /\ new.total > 0
         /\ new.reliability = old.reliability
         /\ verdict = "TRUE_POSITIVE" => new.ema <= old.ema
         /\ verdict # "TRUE_POSITIVE" => new.ema >= old.ema
<1> DEFINE isTp == verdict = "TRUE_POSITIVE"
           down == (9 * old.ema) \div 10
           ema == (IF isTp THEN 0 ELSE 1000) + down
           tp == IF isTp THEN old.tp + 1 ELSE old.tp
           fp == IF isTp THEN old.fp ELSE old.fp + 1
           new == [old EXCEPT !.total = old.total + 1, !.tp = tp, !.fp = fp, !.ema = ema]
<1>1. CountSource(old, verdict) = new
  BY DEF CountSource, SourceOk, SourceFields
<1>2. /\ DOMAIN old = SourceFields
      /\ old.tp \in Nat /\ old.fp \in Nat /\ old.total \in Nat
      /\ old.ema \in Nat /\ old.ema <= 10000
  BY DEF SourceOk
<1>3. /\ down \in Nat /\ down <= old.ema
      /\ 1000 + down <= 10000 /\ 1000 + down >= old.ema
  BY <1>2, AverageMoves
<1> HIDE DEF down
<1>4. /\ ema \in Nat /\ ema <= 10000
      /\ isTp => ema <= old.ema
      /\ ~isTp => ema >= old.ema
  BY <1>2, <1>3
<1> HIDE DEF ema
<1>5. tp \in Nat /\ fp \in Nat
  BY <1>2
<1> HIDE DEF tp, fp
<1>6. new = [x \in SourceFields |-> new[x]]
  <2>1. DOMAIN old = SourceFields
    BY <1>2
  <2> QED
    BY <2>1
<1>7. /\ new.total = old.total + 1 /\ new.ema = ema /\ new.reliability = old.reliability
      /\ new.tp = tp /\ new.fp = fp
  BY <1>2 DEF SourceFields
<1> HIDE DEF new
<1> QED
  BY <1>1, <1>2, <1>4, <1>5, <1>6, <1>7 DEF SourceOk

\* A rating keeps the counters; with enough samples it makes the record whole.
LEMMA RatingIsComplement ==
  ASSUME NEW src, SourceOk(src)
  PROVE  /\ SourceOk(Rated(src)) /\ Rated(src).total = src.total
         /\ src.total >= MinSamples => /\ Rated(src).reliability = Complement(src.ema)
                                       /\ Whole(Rated(src))
         /\ ~(src.total >= MinSamples) => Rated(src) = src
<1>1. Max({1000, 10000 - src.ema}) = Complement(src.ema)
  BY MaxIsComplement DEF SourceOk
<1>2. CASE src.total >= MinSamples
  <2> DEFINE new == [src EXCEPT !.reliability = Complement(src.ema)]
  <2>1. Rated(src) = new
    BY <1>1, <1>2 DEF Rated
  <2>2. /\ new = [x \in SourceFields |-> new[x]]
        /\ new.tp = src.tp /\ new.fp = src.fp /\ new.total = src.total /\ new.ema = src.ema
        /\ new.reliability = Complement(src.ema)
    BY DEF SourceOk, SourceFields
  <2> HIDE DEF new
  <2>3. SourceOk(new) /\ Whole(new)
    BY <1>1, <1>2, <2>2 DEF SourceOk, Whole
  <2> QED
    BY <1>2, <2>1, <2>2, <2>3
<1>3. CASE ~(src.total >= MinSamples)
  BY <1>3 DEF Rated
<1> QED
  BY <1>2, <1>3

\* A verdict makes of a whole record, once it is rated, a whole one, and moves
\* one that was rated before to its side.
LEMMA VerdictMoves ==
  ASSUME MinSamples > 0, NEW old, SourceOk(old), Whole(old), NEW verdict,
         NEW src, src = CountSource(old, verdict)
  PROVE  /\ Whole(Rated(src))
         /\ src.total > MinSamples =>
              IF verdict = "TRUE_POSITIVE" THEN Rated(src).reliability >= src.reliability
                                           ELSE Rated(src).reliability <= src.reliability
<1>1. /\ SourceOk(src) /\ src.total = old.total + 1
      /\ src.reliability = old.reliability
      /\ verdict = "TRUE_POSITIVE" => src.ema <= old.ema
      /\ verdict # "TRUE_POSITIVE" => src.ema >= old.ema
  BY VerdictCounts
<1>2. /\ old.total \in Nat /\ old.ema \in Nat /\ src.total \in Nat /\ src.ema \in Nat
      /\ MinSamples \in Nat
  BY <1>1, LearningAssumption DEF SourceOk
<1>3. old.total >= MinSamples => old.reliability = Complement(old.ema)
  BY <1>2, MaxIsComplement DEF Whole
<1>4. ~(old.total >= MinSamples) => old.reliability = 8000
  BY DEF Whole
<1>5. Whole(Rated(src))
  <2>1. CASE src.total >= MinSamples
    BY <1>1, <2>1, RatingIsComplement
  <2>2. CASE ~(src.total >= MinSamples)
    <3>1. Rated(src) = src /\ ~(old.total >= MinSamples)
      BY <1>1, <1>2, <2>2, RatingIsComplement
    <3> QED
      BY <1>1, <1>4, <2>2, <3>1 DEF Whole
  <2> QED
    BY <2>1, <2>2
<1>6. ASSUME src.total > MinSamples
      PROVE  IF verdict = "TRUE_POSITIVE" THEN Rated(src).reliability >= src.reliability
                                          ELSE Rated(src).reliability <= src.reliability
  <2>1. old.total >= MinSamples /\ src.total >= MinSamples
    BY <1>1, <1>2, <1>6
  <2>2. src.reliability = Complement(old.ema) /\ Rated(src).reliability = Complement(src.ema)
    BY <1>1, <1>3, <2>1, RatingIsComplement
  <2>3. /\ src.ema <= old.ema => Complement(src.ema) >= Complement(old.ema)
        /\ src.ema >= old.ema => Complement(src.ema) <= Complement(old.ema)
    BY <1>2 DEF Complement
  <2> QED
    BY <1>1, <2>2, <2>3
<1> QED
  BY <1>5, <1>6

\* Records nobody has judged.
LEMMA NewRecordsOk ==
  /\ SourceOk(NewSource) /\ IndicatorOk(NewIndicator) /\ StatOk(NoStats)
  /\ NewSource.total = 0 /\ (MinSamples > 0 => Whole(NewSource))
<1>1. SourceOk(NewSource) /\ NewSource.total = 0
  BY DEF NewSource, SourceOk, SourceFields
<1>2. IndicatorOk(NewIndicator)
  BY DEF IndicatorOk, IndicatorFields, NewIndicator
<1>3. StatOk(NoStats)
  BY DEF StatOk, NoStats, StatFields
<1>4. MinSamples > 0 => Whole(NewSource)
  BY LearningAssumption DEF NewSource, Whole
<1> QED
  BY <1>1, <1>2, <1>3, <1>4

\* Every source and every key, known or not, has counters.
LEMMA KnownOrNew ==
  /\ SourcesOk(sources) => \A id : SourceOk(SourceOf(id))
  /\ StatsOk(stats) => \A key : StatOk(StatOf(key))
  BY NewRecordsOk DEF SourceOf, SourcesOk, StatOf, StatsOk

\* A judgement is counted in the total first, and as itself then.
LEMMA CountsOk ==
  ASSUME NEW s, StatOk(s), NEW verdict
  PROVE  /\ LET new == [s EXCEPT !.total = @ + 1] IN StatOk(new) /\ new.fp + new.benign < new.total
         /\ s.fp + s.benign < s.total => StatOk(Count(s, verdict))
<1>1. /\ DOMAIN s = StatFields
      /\ s.tp \in Nat /\ s.fp \in Nat /\ s.benign \in Nat /\ s.total \in Nat
      /\ s.fp + s.benign <= s.total
  BY DEF StatOk
<1>2. LET new == [s EXCEPT !.total = @ + 1] IN StatOk(new) /\ new.fp + new.benign < new.total
  <2> DEFINE new == [s EXCEPT !.total = @ + 1]
  <2>1. new = [x \in StatFields |-> new[x]]
    BY <1>1
  <2>2. /\ new.tp = s.tp /\ new.fp = s.fp /\ new.benign = s.benign
        /\ new.total = s.total + 1
    BY <1>1 DEF StatFields
  <2> HIDE DEF new
  <2>3. StatOk(new) /\ new.fp + new.benign < new.total
    BY <1>1, <2>1, <2>2 DEF StatOk
  <2> QED
    BY <2>3 DEF new
<1>3. ASSUME s.fp + s.benign < s.total
      PROVE  StatOk(Count(s, verdict))
  <2> DEFINE new == Count(s, verdict)
  <2>1. new = [x \in StatFields |-> new[x]]
    BY <1>1 DEF Count
  <2>2. new.total = s.total
    BY <1>1 DEF Count, StatFields
  <2>3. new.tp = IF verdict = "TRUE_POSITIVE" THEN s.tp + 1 ELSE s.tp
    BY <1>1 DEF Count, StatFields
  <2>4. new.fp = IF verdict = "FALSE_POSITIVE" THEN s.fp + 1 ELSE s.fp
    BY <1>1 DEF Count, StatFields
  <2>5. new.benign = IF verdict = "BENIGN" THEN s.benign + 1 ELSE s.benign
    BY <1>1 DEF Count, StatFields
  <2> HIDE DEF new
  <2>6. verdict = "FALSE_POSITIVE" => verdict # "BENIGN"
    OBVIOUS
  <2> QED
    BY <1>1, <1>3, <2>1, <2>2, <2>3, <2>4, <2>5, <2>6 DEF StatOk, new
<1> QED
  BY <1>2, <1>3

\* Dictionaries stay in order when a record in order is set.
LEMMA WithOk ==
  ASSUME NEW f, NEW key, NEW r
  PROVE  /\ SourcesOk(f) /\ SourceOk(r) => SourcesOk(With(f, key, r))
         /\ IndicatorsOk(f) /\ IndicatorOk(r) => IndicatorsOk(With(f, key, r))
         /\ StatsOk(f) /\ StatOk(r) => StatsOk(With(f, key, r))
<1> DEFINE g == With(f, key, r)
<1>1. IsFunction(g) /\ \A k \in DOMAIN g : (k \in DOMAIN f /\ g[k] = f[k]) \/ g[k] = r
  BY DEF With, IsFunction
<1> HIDE DEF g
<1>2. SourcesOk(f) /\ SourceOk(r) => SourcesOk(g)
  BY <1>1 DEF SourcesOk
<1>3. IndicatorsOk(f) /\ IndicatorOk(r) => IndicatorsOk(g)
  BY <1>1 DEF IndicatorsOk
<1>4. StatsOk(f) /\ StatOk(r) => StatsOk(g)
  BY <1>1 DEF StatsOk
<1> QED
  BY <1>2, <1>3, <1>4 DEF g

-----------------------------------------------------------------------------
(* What a step changes *)

\* Only thread t moves, to where these say.
Moved(t, at, store, verdict, key, todo, seen) ==
  /\ DOMAIN thread' = Threads
  /\ \A u \in Threads \ {t} : thread'[u] = thread[u]
  /\ thread'[t] = [x \in ThreadFields |-> thread'[t][x]]
  /\ thread'[t].at = at /\ thread'[t].store = store /\ thread'[t].verdict = verdict
  /\ thread'[t].key = key /\ thread'[t].todo = todo /\ thread'[t].seen = seen

\* Each thread is a record of where it is.
ThreadsShaped ==
  /\ DOMAIN thread = Threads
  /\ \A t \in Threads : thread[t] = [x \in ThreadFields |-> thread[t][x]]

\* A thread that is doing nothing.
LEMMA IdleFacts ==
  /\ Idle = [x \in ThreadFields |-> Idle[x]]
  /\ Idle.at = "idle" /\ Idle.store = "none" /\ Idle.verdict = "none" /\ Idle.key = Empty
  /\ Idle.todo = {} /\ Idle.seen = Nothing
  BY DEF Idle, ThreadFields

\* Setting one thread's record moves that thread only.
LEMMA MovedTo ==
  ASSUME ThreadsShaped, NEW t \in Threads, NEW r, r = [x \in ThreadFields |-> r[x]],
         thread' = [thread EXCEPT ![t] = r]
  PROVE  Moved(t, r.at, r.store, r.verdict, r.key, r.todo, r.seen)
  BY DEF Moved, ThreadsShaped

\* A verdict on a threat starts in FeedbackStore.
LEMMA RecordFeedbackMoves ==
  ASSUME ThreadsShaped, NEW t \in Threads, NEW threat, NEW verdict, RecordFeedback(t, threat, verdict)
  PROVE  Moved(t, "count", "feedback", verdict, Empty, Visits(threat), Nothing)
<1> DEFINE r == [Idle EXCEPT !.at = "count", !.store = "feedback", !.verdict = verdict, !.todo = Visits(threat)]
<1>1. /\ r = [x \in ThreadFields |-> r[x]]
      /\ r.at = "count" /\ r.store = "feedback" /\ r.verdict = verdict /\ r.key = Empty
      /\ r.todo = Visits(threat) /\ r.seen = Nothing
  BY DEF Idle, ThreadFields
<1>2. thread' = [thread EXCEPT ![t] = r]
  BY DEF RecordFeedback
<1> HIDE DEF r
<1>3. Moved(t, r.at, r.store, r.verdict, r.key, r.todo, r.seen)
  BY <1>1, <1>2, MovedTo
<1> QED
  BY <1>1, <1>3

\* One of the keys is counted in the total.
LEMMA CountTotalMoves ==
  ASSUME ThreadsShaped, NEW t \in Threads, CountTotal(t)
  PROVE  \E visit \in thread[t].todo :
           /\ Moved(t, "counted", thread[t].store, thread[t].verdict, visit[2],
                    thread[t].todo \ {visit}, thread[t].seen)
           /\ stats' = With(stats, visit[2], [StatOf(visit[2]) EXCEPT !.total = @ + 1])
<1>1. PICK visit \in thread[t].todo :
        /\ stats' = With(stats, visit[2], [StatOf(visit[2]) EXCEPT !.total = @ + 1])
        /\ thread' = [thread EXCEPT ![t].at = "counted", ![t].key = visit[2], ![t].todo = @ \ {visit}]
  BY DEF CountTotal
<1> DEFINE r == [thread[t] EXCEPT !.at = "counted", !.key = visit[2], !.todo = @ \ {visit}]
<1>2. DOMAIN thread[t] = ThreadFields /\ DOMAIN thread = Threads
  BY DEF ThreadsShaped
<1>3. thread' = [thread EXCEPT ![t] = r]
  BY <1>1, <1>2
<1>4. r = [x \in ThreadFields |-> r[x]]
  BY <1>2
<1>5. /\ r.at = "counted" /\ r.store = thread[t].store /\ r.verdict = thread[t].verdict
      /\ r.key = visit[2] /\ r.todo = thread[t].todo \ {visit} /\ r.seen = thread[t].seen
  BY <1>2 DEF ThreadFields
<1> HIDE DEF r
<1>6. Moved(t, r.at, r.store, r.verdict, r.key, r.todo, r.seen)
  BY <1>3, <1>4, MovedTo
<1> QED
  BY <1>1, <1>5, <1>6

\* The verdict itself.
LEMMA CountVerdictMoves ==
  ASSUME ThreadsShaped, NEW t \in Threads, CountVerdict(t)
  PROVE  Moved(t, IF thread[t].todo = {} THEN "open" ELSE "count", thread[t].store,
               thread[t].verdict, thread[t].key, thread[t].todo, thread[t].seen)
<1> DEFINE at == IF thread[t].todo = {} THEN "open" ELSE "count"
           r == [thread[t] EXCEPT !.at = at]
<1>2. DOMAIN thread[t] = ThreadFields /\ DOMAIN thread = Threads
  BY DEF ThreadsShaped
<1>3. thread' = [thread EXCEPT ![t] = r]
  BY <1>2 DEF CountVerdict
<1> HIDE DEF at
<1>4. r = [x \in ThreadFields |-> r[x]]
  BY <1>2
<1>5. /\ r.at = at /\ r.store = thread[t].store /\ r.verdict = thread[t].verdict
      /\ r.key = thread[t].key /\ r.todo = thread[t].todo /\ r.seen = thread[t].seen
  BY <1>2 DEF ThreadFields
<1> HIDE DEF r
<1>6. Moved(t, r.at, r.store, r.verdict, r.key, r.todo, r.seen)
  BY <1>3, <1>4, MovedTo
<1> QED
  BY <1>5, <1>6 DEF at

\* A verdict on an alert starts in FeedQualityManager.
LEMMA RecordVerdictMoves ==
  ASSUME ThreadsShaped, NEW t \in Threads, NEW a, NEW verdict, RecordVerdict(t, a, verdict)
  PROVE  Moved(t, "rate", "quality", verdict, a.source, IndicatorKeys(a) \cap DOMAIN indicators, Nothing)
<1> DEFINE todo == IndicatorKeys(a) \cap DOMAIN indicators
           r == [Idle EXCEPT !.at = "rate", !.store = "quality", !.verdict = verdict, !.key = a.source,
                             !.todo = todo]
<1>2. thread' = [thread EXCEPT ![t] = r]
  BY DEF RecordVerdict
<1> HIDE DEF todo
<1>1. /\ r = [x \in ThreadFields |-> r[x]]
      /\ r.at = "rate" /\ r.store = "quality" /\ r.verdict = verdict /\ r.key = a.source
      /\ r.todo = todo /\ r.seen = Nothing
  BY DEF Idle, ThreadFields
<1> HIDE DEF r
<1>3. Moved(t, r.at, r.store, r.verdict, r.key, r.todo, r.seen)
  BY <1>1, <1>2, MovedTo
<1> QED
  BY <1>1, <1>3 DEF todo

\* The source is rated.
LEMMA RateMoves ==
  ASSUME ThreadsShaped, NEW t \in Threads, Rate(t)
  PROVE  Moved(t, IF thread[t].todo = {} THEN "open" ELSE "mark", thread[t].store,
               thread[t].verdict, thread[t].key, thread[t].todo, thread[t].seen)
<1> DEFINE at == IF thread[t].todo = {} THEN "open" ELSE "mark"
           r == [thread[t] EXCEPT !.at = at]
<1>2. DOMAIN thread[t] = ThreadFields /\ DOMAIN thread = Threads
  BY DEF ThreadsShaped
<1>3. thread' = [thread EXCEPT ![t] = r]
  BY <1>2 DEF Rate
<1> HIDE DEF at
<1>4. r = [x \in ThreadFields |-> r[x]]
  BY <1>2
<1>5. /\ r.at = at /\ r.store = thread[t].store /\ r.verdict = thread[t].verdict
      /\ r.key = thread[t].key /\ r.todo = thread[t].todo /\ r.seen = thread[t].seen
  BY <1>2 DEF ThreadFields
<1> HIDE DEF r
<1>6. Moved(t, r.at, r.store, r.verdict, r.key, r.todo, r.seen)
  BY <1>3, <1>4, MovedTo
<1> QED
  BY <1>5, <1>6 DEF at

\* What a verdict makes of an indicator.
Marked(i, verdict) ==
  IF verdict = "TRUE_POSITIVE" THEN [i EXCEPT !.tp = @ + 1] ELSE [i EXCEPT !.fp = @ + 1]

\* One of the indicators has the verdict.
LEMMA MarkIndicatorMoves ==
  ASSUME ThreadsShaped, NEW t \in Threads, MarkIndicator(t)
  PROVE  \E key \in thread[t].todo :
           /\ Moved(t, IF thread[t].todo = {key} THEN "open" ELSE "mark", thread[t].store,
                    thread[t].verdict, thread[t].key, thread[t].todo \ {key}, thread[t].seen)
           /\ indicators' = [indicators EXCEPT ![key] = Marked(@, thread[t].verdict)]
<1>1. PICK key \in thread[t].todo :
       /\ indicators' = IF thread[t].verdict = "TRUE_POSITIVE"
                        THEN [indicators EXCEPT ![key].tp = @ + 1]
                        ELSE [indicators EXCEPT ![key].fp = @ + 1]
       /\ thread' = [thread EXCEPT ![t].at = IF thread[t].todo = {key} THEN "open" ELSE "mark",
                                   ![t].todo = @ \ {key}]
  BY DEF MarkIndicator
<1> DEFINE at == IF thread[t].todo = {key} THEN "open" ELSE "mark"
           r == [thread[t] EXCEPT !.at = at, !.todo = @ \ {key}]
<1>2. DOMAIN thread[t] = ThreadFields /\ DOMAIN thread = Threads
  BY DEF ThreadsShaped
<1>3. thread' = [thread EXCEPT ![t] = r]
  BY <1>1, <1>2
<1> HIDE DEF at
<1>4. r = [x \in ThreadFields |-> r[x]]
  BY <1>2
<1>5. /\ r.at = at /\ r.store = thread[t].store /\ r.verdict = thread[t].verdict
      /\ r.key = thread[t].key /\ r.todo = thread[t].todo \ {key} /\ r.seen = thread[t].seen
  BY <1>2 DEF ThreadFields
<1> HIDE DEF r
<1>6. Moved(t, r.at, r.store, r.verdict, r.key, r.todo, r.seen)
  BY <1>3, <1>4, MovedTo
<1>7. indicators' = [indicators EXCEPT ![key] = Marked(@, thread[t].verdict)]
  BY <1>1 DEF Marked
<1> QED
  BY <1>5, <1>6, <1>7 DEF at

\* The file is opened.
LEMMA OpenFileMoves ==
  ASSUME ThreadsShaped, NEW t \in Threads, OpenFile(t)
  PROVE  LET part == IF thread[t].store = "feedback" THEN "stats" ELSE "sources"
         IN Moved(t, part, thread[t].store, "none", Empty, DOMAIN Memory(part), Nothing)
<1> DEFINE s == thread[t].store
           part == IF s = "feedback" THEN "stats" ELSE "sources"
           todo == DOMAIN Memory(part)
           r == [Idle EXCEPT !.at = part, !.store = s, !.todo = todo]
<1>2. thread' = [thread EXCEPT ![t] = r]
  BY DEF OpenFile
<1> HIDE DEF todo, part, s
<1>1. /\ r = [x \in ThreadFields |-> r[x]]
      /\ r.at = part /\ r.store = s /\ r.verdict = "none" /\ r.key = Empty
      /\ r.todo = todo /\ r.seen = Nothing
  BY DEF Idle, ThreadFields
<1> HIDE DEF r
<1>3. Moved(t, r.at, r.store, r.verdict, r.key, r.todo, r.seen)
  BY <1>1, <1>2, MovedTo
<1>4. Moved(t, part, s, "none", Empty, todo, Nothing)
  BY <1>1, <1>3
<1> QED
  BY <1>4 DEF todo, part, s

\* One record is copied.
LEMMA CopyRecordMoves ==
  ASSUME ThreadsShaped, NEW t \in Threads, CopyRecord(t),
         DOMAIN thread[t].seen = Parts
  PROVE  LET part == thread[t].at IN
         \E key \in thread[t].todo :
           Moved(t, IF part = "sources" THEN "reliability" ELSE part, thread[t].store, thread[t].verdict,
                 key, thread[t].todo \ {key},
                 [thread[t].seen EXCEPT ![part] = With(@, key, Memory(part)[key])])
<1> DEFINE part == thread[t].at
           at == IF part = "sources" THEN "reliability" ELSE part
<1>1. PICK key \in thread[t].todo :
        thread' = [thread EXCEPT ![t].at = IF part = "sources" THEN "reliability" ELSE part,
                                ![t].key = key, ![t].todo = @ \ {key},
                                ![t].seen[part] = With(@, key, Memory(part)[key])]
  BY DEF CopyRecord
<1> DEFINE seen == [thread[t].seen EXCEPT ![part] = With(@, key, Memory(part)[key])]
           r == [thread[t] EXCEPT !.at = at, !.key = key, !.todo = @ \ {key}, !.seen = seen]
<1>2. DOMAIN thread[t] = ThreadFields /\ DOMAIN thread = Threads
  BY DEF ThreadsShaped
<1>3. thread' = [thread EXCEPT ![t] = r]
  BY <1>1, <1>2 DEF ThreadFields
<1> HIDE DEF at, seen
<1>4. r = [x \in ThreadFields |-> r[x]]
  BY <1>2
<1>5. /\ r.at = at /\ r.store = thread[t].store /\ r.verdict = thread[t].verdict
      /\ r.key = key /\ r.todo = thread[t].todo \ {key} /\ r.seen = seen
  BY <1>2 DEF ThreadFields
<1> HIDE DEF r
<1>6. Moved(t, r.at, r.store, r.verdict, r.key, r.todo, r.seen)
  BY <1>3, <1>4, MovedTo
<1> QED
  BY <1>5, <1>6 DEF at, seen

\* The rest of a source's record is copied.
LEMMA CopyReliabilityMoves ==
  ASSUME ThreadsShaped, NEW t \in Threads, CopyReliability(t)
  PROVE  LET key == thread[t].key IN
         Moved(t, "sources", thread[t].store, thread[t].verdict, key, thread[t].todo,
               [thread[t].seen EXCEPT !.sources[key].reliability = sources[key].reliability])
<1> DEFINE key == thread[t].key
           seen == [thread[t].seen EXCEPT !.sources[key].reliability = sources[key].reliability]
           r == [thread[t] EXCEPT !.at = "sources", !.seen = seen]
<1>2. DOMAIN thread[t] = ThreadFields /\ DOMAIN thread = Threads
  BY DEF ThreadsShaped
<1>3. thread' = [thread EXCEPT ![t] = r]
  BY <1>2 DEF CopyReliability, ThreadFields
<1> HIDE DEF seen
<1>4. r = [x \in ThreadFields |-> r[x]]
  BY <1>2
<1>5. /\ r.at = "sources" /\ r.store = thread[t].store /\ r.verdict = thread[t].verdict
      /\ r.key = key /\ r.todo = thread[t].todo /\ r.seen = seen
  BY <1>2 DEF ThreadFields
<1> HIDE DEF r
<1>6. Moved(t, r.at, r.store, r.verdict, r.key, r.todo, r.seen)
  BY <1>3, <1>4, MovedTo
<1> QED
  BY <1>5, <1>6 DEF seen

\* A loop over a dictionary ends.
LEMMA CopyNextMoves ==
  ASSUME ThreadsShaped, NEW t \in Threads, CopyNext(t)
  PROVE  Moved(t, IF thread[t].at = "sources" THEN "indicators" ELSE "write", thread[t].store,
               thread[t].verdict, thread[t].key,
               IF thread[t].at = "sources" THEN DOMAIN indicators ELSE thread[t].todo, thread[t].seen)
<1> DEFINE at == IF thread[t].at = "sources" THEN "indicators" ELSE "write"
           todo == IF thread[t].at = "sources" THEN DOMAIN indicators ELSE thread[t].todo
           r == [thread[t] EXCEPT !.at = at, !.todo = todo]
<1>2. DOMAIN thread[t] = ThreadFields /\ DOMAIN thread = Threads
  BY DEF ThreadsShaped
<1>3. thread' = [thread EXCEPT ![t] = r]
  <2>1. CASE thread[t].at = "sources"
    BY <1>2, <2>1 DEF CopyNext
  <2>2. CASE thread[t].at # "sources"
    <3>1. thread' = [thread EXCEPT ![t].at = "write"]
      BY <2>2 DEF CopyNext
    <3>2. r = [thread[t] EXCEPT !.at = "write", !.todo = thread[t].todo]
      BY <2>2
    <3>3. thread[t] = [x \in ThreadFields |-> thread[t][x]]
      BY DEF ThreadsShaped
    <3>4. r = [thread[t] EXCEPT !.at = "write"]
      BY <3>2, <3>3 DEF ThreadFields
    <3> QED
      BY <1>2, <3>1, <3>4
  <2> QED
    BY <2>1, <2>2
<1> HIDE DEF at, todo
<1>4. r = [x \in ThreadFields |-> r[x]]
  BY <1>2
<1>5. /\ r.at = at /\ r.store = thread[t].store /\ r.verdict = thread[t].verdict
      /\ r.key = thread[t].key /\ r.todo = todo /\ r.seen = thread[t].seen
  BY <1>2 DEF ThreadFields
<1> HIDE DEF r
<1>6. Moved(t, r.at, r.store, r.verdict, r.key, r.todo, r.seen)
  BY <1>3, <1>4, MovedTo
<1> QED
  BY <1>5, <1>6 DEF at, todo

\* A save ends, well or not.
LEMMA SaveEndsMoves ==
  ASSUME ThreadsShaped, NEW t \in Threads, SaveFails(t) \/ Write(t)
  PROVE  Moved(t, "idle", "none", "none", Empty, {}, Nothing)
<1>1. thread' = [thread EXCEPT ![t] = Idle]
  BY DEF SaveFails, Write
<1> DEFINE r == Idle
<1>2. /\ r = [x \in ThreadFields |-> r[x]]
      /\ r.at = "idle" /\ r.store = "none" /\ r.verdict = "none" /\ r.key = Empty
      /\ r.todo = {} /\ r.seen = Nothing
  BY IdleFacts
<1> HIDE DEF r
<1>3. Moved(t, r.at, r.store, r.verdict, r.key, r.todo, r.seen)
  BY <1>1, <1>2, MovedTo DEF r
<1> QED
  BY <1>2, <1>3

-----------------------------------------------------------------------------
(* The data stay in order *)

\* Copies made of an earlier memory are copies made earlier still.
LEMMA CopiesStay ==
  ASSUME NEW s, NEW f, NEW so, NEW so2, CopyOk(s, f, so), Earlier(so, so2)
  PROVE  CopyOk(s, f, so2)
  BY DEF CopyOk, Earlier

\* What a thread knows stays so while the sources only move on.
LEMMA OthersStay ==
  ASSUME NEW r, NEW st, NEW so, NEW st2, NEW so2, ThreadOk(r, st, so),
         Earlier(so, so2), SourcesOk(so2), st2 = st \/ r.at # "counted"
  PROVE  ThreadOk(r, st2, so2)
<1>1. CopyOk(r.store, r.seen, so2)
  BY CopiesStay DEF ThreadOk
<1>2. r.at = "rate" => r.key \in DOMAIN so2 /\ so2[r.key].total > 0
  <2>1. SUFFICES ASSUME r.at = "rate"
                 PROVE  r.key \in DOMAIN so2 /\ so2[r.key].total > 0
    OBVIOUS
  <2>2. r.key \in DOMAIN so /\ so[r.key].total > 0
    BY <2>1 DEF ThreadOk
  <2>3. r.key \in DOMAIN so2 /\ (so2[r.key].total = 0 => so[r.key] = so2[r.key])
    BY <2>2 DEF Earlier
  <2>4. so2[r.key].total \in Nat
    BY <2>3 DEF SourcesOk, SourceOk
  <2> QED
    BY <2>2, <2>3, <2>4
<1> QED
  BY <1>1, <1>2 DEF ThreadOk

\* A dictionary changes nothing for a memory that stays.
LEMMA EarlierStays ==
  ASSUME NEW so PROVE Earlier(so, so)
  BY DEF Earlier

\* The threads are where they may be.
LEMMA DataFacts ==
  ASSUME DataInv
  PROVE  /\ ThreadsShaped
         /\ \A t \in Threads : ThreadOk(thread[t], stats, sources)
         /\ \A t \in Threads, s \in Store : CopyOk(thread[t].store, thread[t].seen, sources)
         /\ \A t \in Threads : PlaceOk(thread[t].at, thread[t].store)
         /\ \A s \in Store : \A t, u \in Threads : Holds(thread[t], s) /\ Holds(thread[u], s) => t = u
  BY DEF DataInv, ThreadsOk, ThreadOk, ThreadsShaped

\* A step of one thread keeps the data in order if what it leaves is, if it
\* only adds to the sources, and if it takes no lock another holds.
LEMMA StepKeepsData ==
  ASSUME DataInv, NEW t \in Threads,
         NEW at, NEW store, NEW verdict, NEW key, NEW todo, NEW seen,
         Moved(t, at, store, verdict, key, todo, seen),
         ThreadOk(thread'[t], stats', sources'),
         Earlier(sources, sources'),
         MemoryOk(stats', sources', indicators'),
         stats' = stats \/ \A u \in Threads \ {t} : thread[u].at # "counted",
         \A s \in Store : (store = s /\ at \in Counting) =>
           Holds(thread[t], s) \/ ~Locked(s),
         FilesOk(file', sources), DOMAIN sound' = Store
  PROVE  DataInv'
<1>1. DOMAIN thread' = Threads /\ \A u \in Threads \ {t} : thread'[u] = thread[u]
  BY DEF Moved
<1>2. SourcesOk(sources')
  BY DEF MemoryOk
<1>3. \A u \in Threads : ThreadOk(thread'[u], stats', sources')
  <2> SUFFICES ASSUME NEW u \in Threads PROVE ThreadOk(thread'[u], stats', sources')
    OBVIOUS
  <2>1. CASE u = t
    BY <2>1
  <2>2. CASE u # t
    <3>1. ThreadOk(thread[u], stats, sources) /\ (stats' = stats \/ thread[u].at # "counted")
      BY <2>2, DataFacts
    <3>2. ThreadOk(thread[u], stats', sources')
      BY <1>2, <3>1, OthersStay
    <3> QED
      BY <1>1, <2>2, <3>2
  <2> QED
    BY <2>1, <2>2
<1>4. \A s \in Store : \A u, v \in Threads : Holds(thread'[u], s) /\ Holds(thread'[v], s) => u = v
  <2> SUFFICES ASSUME NEW s \in Store, NEW u \in Threads, NEW v \in Threads,
                      Holds(thread'[u], s), Holds(thread'[v], s)
               PROVE  u = v
    OBVIOUS
  <2>1. ASSUME Holds(thread'[t], s) PROVE Holds(thread[t], s) \/ \A w \in Threads : ~Holds(thread[w], s)
    <3>1. store = s /\ at \in Counting
      BY <2>1 DEF Moved, Holds
    <3> QED
      BY <3>1 DEF Locked, Holds
  <2>2. CASE u # t /\ v # t
    BY <1>1, <2>2, DataFacts
  <2>3. CASE u = t /\ v # t
    BY <1>1, <2>1, <2>3, DataFacts
  <2>4. CASE u # t /\ v = t
    BY <1>1, <2>1, <2>4, DataFacts
  <2> QED
    BY <2>2, <2>3, <2>4
<1>5. FilesOk(file', sources')
  BY CopiesStay DEF FilesOk
<1>6. ThreadsOk(thread', stats', sources')
  BY <1>1, <1>3, <1>4 DEF ThreadsOk
<1> QED
  BY <1>5, <1>6 DEF DataInv

\* A step of no thread keeps the data in order if it only adds to the sources.
LEMMA StayKeepsData ==
  ASSUME DataInv, UNCHANGED <<stats, thread, file, sound>>,
         Earlier(sources, sources'), MemoryOk(stats', sources', indicators')
  PROVE  DataInv'
<1>1. SourcesOk(sources')
  BY DEF MemoryOk
<1>2. \A u \in Threads : ThreadOk(thread[u], stats, sources')
  BY <1>1, DataFacts, OthersStay
<1>3. FilesOk(file, sources')
  BY CopiesStay DEF FilesOk, DataInv
<1>4. ThreadsOk(thread, stats, sources')
  BY <1>2 DEF ThreadsOk, DataInv
<1> QED
  BY <1>3, <1>4 DEF DataInv

\* A thread that has copied nothing yet has copied nothing wrong.
LEMMA NothingOk ==
  ASSUME NEW s, NEW so
  PROVE  CopyOk(s, Nothing, so)
<1>1. /\ Nothing.stats = Empty /\ Nothing.sources = Empty /\ Nothing.indicators = Empty
      /\ Nothing = [part \in Parts |-> Nothing[part]]
  BY DEF Nothing, Parts
<1>2. IsFunction(Empty) /\ DOMAIN Empty = {}
  BY DEF Empty, IsFunction
<1> QED
  BY <1>1, <1>2 DEF CopyOk, StatsOk, SourcesOk, IndicatorsOk, Earlier

\* The thread that moved is in order if its place and its copy are.
LEMMA MovedOk ==
  ASSUME NEW t, NEW at, NEW store, NEW verdict, NEW key, NEW todo, NEW seen,
         Moved(t, at, store, verdict, key, todo, seen),
         NEW st, NEW so, PlaceOk(at, store), CopyOk(store, seen, so),
         at = "counted" => key \in DOMAIN st /\ st[key].fp + st[key].benign < st[key].total,
         at = "rate" => key \in DOMAIN so /\ so[key].total > 0,
         at = "reliability" => key \in DOMAIN seen.sources
  PROVE  ThreadOk(thread'[t], st, so)
  BY DEF Moved, ThreadOk

\* The store of a place.
LEMMA PlaceFacts ==
  ASSUME NEW at, NEW store, PlaceOk(at, store)
  PROVE  /\ at \in {"count", "counted", "stats"} => store = "feedback"
         /\ at \in {"rate", "mark", "sources", "reliability", "indicators"} => store = "quality"
         /\ at \in {"open", "write"} => store \in Store
         /\ store = "none" <=> at = "idle"
         /\ store \in Store \cup {"none"}
  BY DEF PlaceOk, Store

\* The first states are in order.
LEMMA InitDataInv ==
  Init => DataInv
<1> SUFFICES ASSUME Init PROVE DataInv
  OBVIOUS
<1>1. MemoryOk(stats, sources, indicators)
  BY DEF Init, MemoryOk, StatsOk, SourcesOk, IndicatorsOk, IsFunction, Empty
<1>2. FilesOk(file, sources) /\ DOMAIN sound = Store
  <2>1. \A s \in Store : file[s] = {Nothing}
    BY DEF Init
  <2> QED
    BY <2>1, NothingOk DEF Init, FilesOk
<1>3. ThreadsOk(thread, stats, sources)
  <2>1. ThreadOk(Idle, stats, sources)
    BY IdleFacts, NothingOk DEF ThreadOk, PlaceOk
  <2>2. \A t \in Threads : thread[t] = Idle
    BY DEF Init
  <2>3. \A s \in Store : ~Holds(Idle, s)
    BY IdleFacts DEF Holds, Store
  <2> QED
    BY <2>1, <2>2, <2>3 DEF ThreadsOk, Init
<1> QED
  BY <1>1, <1>2, <1>3 DEF DataInv

-----------------------------------------------------------------------------
(* Each action keeps the data in order *)

\* A file loses its copy or has another one; the others stay.
LEMMA FileChanges ==
  ASSUME NEW fl, NEW so, FilesOk(fl, so), NEW s \in Store, NEW fl2, NEW copies,
         fl2 = [fl EXCEPT ![s] = copies],
         \A f, g \in copies : CopyOk(s, f, so) /\ f = g
  PROVE  FilesOk(fl2, so)
<1>1. DOMAIN fl2 = Store /\ fl2[s] = copies /\ \A s2 \in Store \ {s} : fl2[s2] = fl[s2]
  BY DEF FilesOk
<1> QED
  BY <1>1 DEF FilesOk

\* The threads beside one that holds a lock are not counting there.
LEMMA LockIsMine ==
  ASSUME DataInv, NEW t \in Threads, NEW s \in Store, Holds(thread[t], s)
  PROVE  \A u \in Threads \ {t} : ~Holds(thread[u], s)
  BY DataFacts

\* Counting is in feedback_store's lock.
LEMMA CountedHolds ==
  ASSUME DataInv, NEW t \in Threads
  PROVE  /\ thread[t].at \in {"count", "counted"} => Holds(thread[t], "feedback")
         /\ thread[t].at \in {"rate", "mark"} => Holds(thread[t], "quality")
  BY DataFacts, PlaceFacts DEF Holds, Counting

\* Starting a verdict in FeedbackStore keeps the data in order.
LEMMA RecordFeedbackKeeps ==
  ASSUME DataInv, NEW t \in Threads, NEW threat, NEW verdict,
         RecordFeedback(t, threat, verdict), UNCHANGED <<file, sound>>
  PROVE  DataInv'
<1>1. Moved(t, "count", "feedback", verdict, Empty, Visits(threat), Nothing)
  BY DataFacts, RecordFeedbackMoves
<1>2. UNCHANGED <<stats, sources, indicators>> /\ ~Locked("feedback")
  BY DEF RecordFeedback, memory
<1>3. ThreadOk(thread'[t], stats, sources)
  BY <1>1, MovedOk, NothingOk DEF PlaceOk
<1>4. Earlier(sources, sources)
  BY EarlierStays
<1> QED
  BY <1>1, <1>2, <1>3, <1>4, StepKeepsData DEF DataInv

\* Counting in a total keeps the data in order.
LEMMA CountTotalKeeps ==
  ASSUME DataInv, NEW t \in Threads, CountTotal(t)
  PROVE  DataInv'
<1>1. PICK visit \in thread[t].todo :
        /\ Moved(t, "counted", thread[t].store, thread[t].verdict, visit[2],
                 thread[t].todo \ {visit}, thread[t].seen)
        /\ stats' = With(stats, visit[2], [StatOf(visit[2]) EXCEPT !.total = @ + 1])
  BY DataFacts, CountTotalMoves
<1>2. UNCHANGED <<sources, indicators, file, sound>> /\ thread[t].at = "count"
  BY DEF CountTotal
<1> DEFINE key == visit[2]
           old == StatOf(key)
           new == [old EXCEPT !.total = @ + 1]
<1> HIDE DEF key
<1>3. StatOk(old)
  BY KnownOrNew DEF DataInv, MemoryOk
<1> HIDE DEF old
<1>4. StatOk(new) /\ new.fp + new.benign < new.total
  BY <1>3, CountsOk
<1> HIDE DEF new
<1>5. stats' = With(stats, key, new)
  BY <1>1 DEF key, old, new
<1>6. StatsOk(stats') /\ key \in DOMAIN stats' /\ stats'[key] = new
  <2>1. StatsOk(stats')
    BY <1>4, <1>5, WithOk DEF DataInv, MemoryOk
  <2>2. key \in DOMAIN stats' /\ stats'[key] = new
    BY <1>5 DEF With
  <2> QED
    BY <2>1, <2>2
<1>7. Holds(thread[t], "feedback") /\ thread[t].store = "feedback"
  BY <1>2, CountedHolds DEF Holds
<1>8. \A u \in Threads \ {t} : thread[u].at # "counted"
  BY <1>7, LockIsMine, CountedHolds DEF Store
<1>9. Moved(t, "counted", "feedback", thread[t].verdict, key, thread[t].todo \ {visit}, thread[t].seen)
  BY <1>1, <1>7 DEF key
<1>10. CopyOk("feedback", thread[t].seen, sources)
  BY <1>7, DataFacts DEF Store
<1>11. ThreadOk(thread'[t], stats', sources')
  BY <1>2, <1>4, <1>6, <1>9, <1>10, MovedOk DEF PlaceOk
<1>12. Earlier(sources, sources')
  BY <1>2, EarlierStays
<1>13. MemoryOk(stats', sources', indicators')
  BY <1>2, <1>6 DEF DataInv, MemoryOk
<1>14. FilesOk(file', sources) /\ DOMAIN sound' = Store
  BY <1>2 DEF DataInv
<1>15. \A s \in Store : "feedback" = s => Holds(thread[t], s)
  BY <1>7
<1> QED
  BY <1>8, <1>9, <1>11, <1>12, <1>13, <1>14, <1>15, StepKeepsData

\* Counting the verdict itself does.
LEMMA CountVerdictKeeps ==
  ASSUME DataInv, NEW t \in Threads, CountVerdict(t)
  PROVE  DataInv'
<1> DEFINE at == IF thread[t].todo = {} THEN "open" ELSE "count"
           key == thread[t].key
           new == Count(stats[key], thread[t].verdict)
<1>1. Moved(t, at, thread[t].store, thread[t].verdict, key, thread[t].todo, thread[t].seen)
  BY DataFacts, CountVerdictMoves
<1>2. /\ UNCHANGED <<sources, indicators, file, sound>> /\ thread[t].at = "counted"
      /\ stats' = [stats EXCEPT ![key] = new]
  BY DEF CountVerdict
<1>3. /\ Holds(thread[t], "feedback") /\ thread[t].store = "feedback"
      /\ key \in DOMAIN stats /\ stats[key].fp + stats[key].benign < stats[key].total
  BY <1>2, CountedHolds, DataFacts DEF Holds, ThreadOk
<1>4. StatOk(new)
  BY <1>3, CountsOk DEF DataInv, MemoryOk, StatsOk
<1>5. at \in {"open", "count"}
  OBVIOUS
<1> HIDE DEF at, key, new
<1>6. StatsOk(stats')
  BY <1>2, <1>3, <1>4 DEF DataInv, MemoryOk, StatsOk, IsFunction
<1>8. \A u \in Threads \ {t} : thread[u].at # "counted"
  BY <1>3, LockIsMine, CountedHolds DEF Store
<1>10. CopyOk("feedback", thread[t].seen, sources) /\ PlaceOk(at, "feedback")
  BY <1>3, <1>5, DataFacts DEF Store, PlaceOk
<1>9. Moved(t, at, "feedback", thread[t].verdict, key, thread[t].todo, thread[t].seen)
  BY <1>1, <1>3
<1>11. ThreadOk(thread'[t], stats', sources')
  BY <1>2, <1>5, <1>9, <1>10, MovedOk
<1>12. Earlier(sources, sources')
  BY <1>2, EarlierStays
<1>13. MemoryOk(stats', sources', indicators')
  BY <1>2, <1>6 DEF DataInv, MemoryOk
<1>14. FilesOk(file', sources) /\ DOMAIN sound' = Store
  BY <1>2 DEF DataInv
<1>15. \A s \in Store : "feedback" = s => Holds(thread[t], s)
  BY <1>3
<1> QED
  BY <1>8, <1>9, <1>11, <1>12, <1>13, <1>14, <1>15, StepKeepsData

\* A source with one more verdict, or none, is a later one.
LEMMA CountedLater ==
  ASSUME NEW so, SourcesOk(so), NEW id, NEW new, SourceOk(new),
         id \in DOMAIN so => new.total > 0 \/ new = so[id]
  PROVE  SourcesOk(With(so, id, new)) /\ Earlier(so, With(so, id, new))
<1>1. SourcesOk(With(so, id, new))
  BY WithOk
<1>2. new.total \in Nat
  BY DEF SourceOk
<1>3. Earlier(so, With(so, id, new))
  <2> DEFINE g == With(so, id, new)
  <2>1. DOMAIN g = DOMAIN so \cup {id} /\ g[id] = new /\ \A k \in DOMAIN so \ {id} : g[k] = so[k]
    BY DEF With
  <2> HIDE DEF g
  <2> QED
    BY <1>2, <2>1 DEF Earlier, g
<1> QED
  BY <1>1, <1>3

\* Counting a verdict of FeedQualityManager does.
LEMMA RecordVerdictKeeps ==
  ASSUME DataInv, NEW t \in Threads, NEW a, NEW verdict,
         RecordVerdict(t, a, verdict), UNCHANGED <<file, sound>>
  PROVE  DataInv'
<1> DEFINE id == a.source
           old == SourceOf(id)
           new == CountSource(old, verdict)
           todo == IndicatorKeys(a) \cap DOMAIN indicators
<1>1. Moved(t, "rate", "quality", verdict, id, todo, Nothing)
  BY DataFacts, RecordVerdictMoves
<1>2. /\ UNCHANGED <<stats, indicators>> /\ ~Locked("quality")
      /\ sources' = With(sources, id, new)
  BY DEF RecordVerdict
<1> HIDE DEF id, todo
<1>3. SourceOk(old)
  BY KnownOrNew DEF DataInv, MemoryOk
<1> HIDE DEF old
<1>4. SourceOk(new) /\ new.total > 0
  BY <1>3, VerdictCounts
<1> HIDE DEF new
<1>5. SourcesOk(sources') /\ Earlier(sources, sources')
  BY <1>2, <1>4, CountedLater DEF DataInv, MemoryOk
<1>6. id \in DOMAIN sources' /\ sources'[id] = new
  BY <1>2 DEF With
<1>7. ThreadOk(thread'[t], stats', sources')
  BY <1>1, <1>4, <1>6, MovedOk, NothingOk DEF PlaceOk
<1>8. MemoryOk(stats', sources', indicators')
  BY <1>2, <1>5 DEF DataInv, MemoryOk
<1>9. FilesOk(file', sources) /\ DOMAIN sound' = Store
  BY DEF DataInv
<1> QED
  BY <1>1, <1>2, <1>5, <1>7, <1>8, <1>9, StepKeepsData

\* What rating changes.
LEMMA RateChanges ==
  ASSUME DataInv, NEW t \in Threads, Rate(t)
  PROVE  /\ Holds(thread[t], "quality") /\ thread[t].store = "quality"
         /\ thread[t].key \in DOMAIN sources /\ sources[thread[t].key].total > 0
         /\ DOMAIN sources' = DOMAIN sources /\ IsFunction(sources')
         /\ sources'[thread[t].key] = Rated(sources[thread[t].key])
         /\ \A id \in DOMAIN sources \ {thread[t].key} : sources'[id] = sources[id]
         /\ UNCHANGED <<stats, indicators, file, sound>>
<1> DEFINE id == thread[t].key
<1>1. /\ UNCHANGED <<stats, indicators, file, sound>> /\ thread[t].at = "rate"
      /\ sources' = [sources EXCEPT ![id] = Rated(@)]
  BY DEF Rate
<1>2. /\ Holds(thread[t], "quality") /\ thread[t].store = "quality"
      /\ id \in DOMAIN sources /\ sources[id].total > 0
  BY <1>1, CountedHolds, DataFacts DEF Holds, ThreadOk
<1> HIDE DEF id
<1>3. /\ DOMAIN sources' = DOMAIN sources /\ IsFunction(sources')
      /\ sources'[id] = Rated(sources[id])
      /\ \A k \in DOMAIN sources \ {id} : sources'[k] = sources[k]
  BY <1>1, <1>2 DEF DataInv, MemoryOk, SourcesOk, IsFunction
<1> QED
  BY <1>1, <1>2, <1>3 DEF id

\* Rating a source does.
LEMMA RateKeeps ==
  ASSUME DataInv, NEW t \in Threads, Rate(t)
  PROVE  DataInv'
<1> DEFINE at == IF thread[t].todo = {} THEN "open" ELSE "mark"
           id == thread[t].key
<1>1. Moved(t, at, thread[t].store, thread[t].verdict, id, thread[t].todo, thread[t].seen)
  BY DataFacts, RateMoves
<1>2. /\ Holds(thread[t], "quality") /\ thread[t].store = "quality"
      /\ id \in DOMAIN sources /\ sources[id].total > 0
      /\ DOMAIN sources' = DOMAIN sources /\ IsFunction(sources')
      /\ sources'[id] = Rated(sources[id])
      /\ \A k \in DOMAIN sources \ {id} : sources'[k] = sources[k]
      /\ UNCHANGED <<stats, indicators, file, sound>>
  BY RateChanges
<1>5. at \in {"open", "mark"}
  OBVIOUS
<1> HIDE DEF at, id
<1>3. SourceOk(Rated(sources[id])) /\ Rated(sources[id]).total = sources[id].total
  BY <1>2, RatingIsComplement DEF DataInv, MemoryOk, SourcesOk
<1>4. SourcesOk(sources')
  BY <1>2, <1>3 DEF DataInv, MemoryOk, SourcesOk
<1>6. Earlier(sources, sources')
  BY <1>2, <1>3 DEF Earlier
<1>7. CopyOk("quality", thread[t].seen, sources')
  BY <1>2, <1>6, DataFacts, CopiesStay DEF Store
<1>8. Moved(t, at, "quality", thread[t].verdict, id, thread[t].todo, thread[t].seen)
  BY <1>1, <1>2
<1>9. ThreadOk(thread'[t], stats', sources') /\ \A s \in Store : "quality" = s => Holds(thread[t], s)
  BY <1>2, <1>5, <1>7, <1>8, MovedOk DEF PlaceOk
<1>10. MemoryOk(stats', sources', indicators')
  BY <1>2, <1>4 DEF DataInv, MemoryOk
<1>11. FilesOk(file', sources) /\ DOMAIN sound' = Store /\ stats' = stats
  BY <1>2 DEF DataInv
<1> QED
  BY <1>6, <1>8, <1>9, <1>10, <1>11, StepKeepsData

\* A marked indicator is one.
LEMMA MarkedOk ==
  ASSUME NEW i, IndicatorOk(i), NEW verdict
  PROVE  /\ IndicatorOk(Marked(i, verdict))
         /\ Marked(i, verdict).tp + Marked(i, verdict).fp > 0
<1>1. CASE verdict = "TRUE_POSITIVE"
  <2> DEFINE j == [i EXCEPT !.tp = @ + 1]
  <2>1. j = [x \in IndicatorFields |-> j[x]] /\ j.tp = i.tp + 1 /\ j.fp = i.fp
    BY DEF IndicatorOk, IndicatorFields
  <2> HIDE DEF j
  <2>2. IndicatorOk(j) /\ j.tp + j.fp > 0
    BY <2>1 DEF IndicatorOk
  <2> QED
    BY <1>1, <2>2 DEF Marked, j
<1>2. CASE verdict # "TRUE_POSITIVE"
  <2> DEFINE j == [i EXCEPT !.fp = @ + 1]
  <2>1. j = [x \in IndicatorFields |-> j[x]] /\ j.tp = i.tp /\ j.fp = i.fp + 1
    BY DEF IndicatorOk, IndicatorFields
  <2> HIDE DEF j
  <2>2. IndicatorOk(j) /\ j.tp + j.fp > 0
    BY <2>1 DEF IndicatorOk
  <2> QED
    BY <1>2, <2>2 DEF Marked, j
<1> QED
  BY <1>1, <1>2

\* Marking an indicator does.
LEMMA MarkIndicatorKeeps ==
  ASSUME DataInv, NEW t \in Threads, MarkIndicator(t)
  PROVE  DataInv'
<1>1. PICK key \in thread[t].todo :
        /\ Moved(t, IF thread[t].todo = {key} THEN "open" ELSE "mark", thread[t].store,
                 thread[t].verdict, thread[t].key, thread[t].todo \ {key}, thread[t].seen)
        /\ indicators' = [indicators EXCEPT ![key] = Marked(@, thread[t].verdict)]
  BY DataFacts, MarkIndicatorMoves
<1> DEFINE at == IF thread[t].todo = {key} THEN "open" ELSE "mark"
<1>2. /\ UNCHANGED <<stats, sources, file, sound>> /\ thread[t].at = "mark"
  BY DEF MarkIndicator
<1>3. Holds(thread[t], "quality") /\ thread[t].store = "quality"
  BY <1>2, CountedHolds DEF Holds
<1>4. IndicatorsOk(indicators')
  <2> DEFINE new == Marked(indicators[key], thread[t].verdict)
  <2>1. indicators' = [indicators EXCEPT ![key] = new]
    BY <1>1
  <2>2. key \in DOMAIN indicators => IndicatorOk(new)
    BY MarkedOk DEF DataInv, MemoryOk, IndicatorsOk
  <2> HIDE DEF new
  <2> QED
    BY <2>1, <2>2 DEF DataInv, MemoryOk, IndicatorsOk, IsFunction
<1>5. at \in {"open", "mark"}
  OBVIOUS
<1>6. CopyOk("quality", thread[t].seen, sources)
  BY <1>3, DataFacts DEF Store
<1>7. Moved(t, at, "quality", thread[t].verdict, thread[t].key, thread[t].todo \ {key}, thread[t].seen)
  BY <1>1, <1>3
<1> HIDE DEF at
<1>8. ThreadOk(thread'[t], stats', sources') /\ \A s \in Store : "quality" = s => Holds(thread[t], s)
  BY <1>2, <1>3, <1>5, <1>6, <1>7, MovedOk DEF PlaceOk
<1>9. MemoryOk(stats', sources', indicators') /\ Earlier(sources, sources')
  BY <1>2, <1>4, EarlierStays DEF DataInv, MemoryOk
<1>10. FilesOk(file', sources) /\ DOMAIN sound' = Store /\ stats' = stats
  BY <1>2 DEF DataInv
<1> QED
  BY <1>7, <1>8, <1>9, <1>10, StepKeepsData

\* A new alert adds sources and indicators nobody has judged.
LEMMA IngestKeeps ==
  ASSUME DataInv, NEW a, Ingest(a)
  PROVE  DataInv'
<1> DEFINE id == a.source
           old == SourceOf(id)
           keys == IndicatorKeys(a)
<1>1. /\ UNCHANGED <<stats, thread, file, sound>>
      /\ sources' = With(sources, id, old)
      /\ indicators' = [key \in DOMAIN indicators \cup keys |->
           IF key \in DOMAIN indicators THEN indicators[key] ELSE NewIndicator]
  BY DEF Ingest
<1>2. SourceOk(old) /\ (id \in DOMAIN sources => old = sources[id])
  BY KnownOrNew DEF DataInv, MemoryOk, SourceOf
<1> HIDE DEF id, old, keys
<1>3. SourcesOk(sources') /\ Earlier(sources, sources')
  BY <1>1, <1>2, CountedLater DEF DataInv, MemoryOk
<1>4. IndicatorsOk(indicators')
  <2>1. IsFunction(indicators')
    BY <1>1 DEF IsFunction
  <2>2. \A key \in DOMAIN indicators' : IndicatorOk(indicators'[key])
    BY <1>1, NewRecordsOk DEF DataInv, MemoryOk, IndicatorsOk
  <2> QED
    BY <2>1, <2>2 DEF IndicatorsOk
<1>5. MemoryOk(stats', sources', indicators')
  BY <1>1, <1>3, <1>4 DEF DataInv, MemoryOk
<1> QED
  BY <1>1, <1>3, <1>5, StayKeepsData

\* Retiring indicators changes no counter.
LEMMA RetireChanges ==
  ASSUME DataInv, RetireStale
  PROVE  /\ UNCHANGED <<stats, sources, thread, file, sound>>
         /\ DOMAIN indicators' = DOMAIN indicators /\ IndicatorsOk(indicators')
         /\ \A key \in DOMAIN indicators : /\ indicators'[key].tp = indicators[key].tp
                                           /\ indicators'[key].fp = indicators[key].fp
<1>1. PICK stale \in SUBSET DOMAIN indicators :
        indicators' = [key \in DOMAIN indicators |->
          [indicators[key] EXCEPT !.retired = @ \/ key \in stale]]
  BY DEF RetireStale
<1>2. \A key \in DOMAIN indicators :
        /\ IndicatorOk(indicators'[key])
        /\ indicators'[key].tp = indicators[key].tp /\ indicators'[key].fp = indicators[key].fp
  <2> SUFFICES ASSUME NEW key \in DOMAIN indicators
               PROVE  /\ IndicatorOk(indicators'[key])
                      /\ indicators'[key].tp = indicators[key].tp
                      /\ indicators'[key].fp = indicators[key].fp
    OBVIOUS
  <2> DEFINE i == indicators[key]
             gone == i.retired \/ key \in stale
             j == [i EXCEPT !.retired = gone]
  <2>1. indicators'[key] = j /\ IndicatorOk(i)
    BY <1>1 DEF DataInv, MemoryOk, IndicatorsOk
  <2> HIDE DEF i, gone
  <2>2. j = [x \in IndicatorFields |-> j[x]] /\ j.tp = i.tp /\ j.fp = i.fp
    BY <2>1 DEF IndicatorOk, IndicatorFields
  <2> HIDE DEF j
  <2>3. IndicatorOk(j)
    BY <2>1, <2>2 DEF IndicatorOk
  <2> QED
    BY <2>1, <2>2, <2>3 DEF i
<1>3. DOMAIN indicators' = DOMAIN indicators /\ IsFunction(indicators')
  BY <1>1 DEF IsFunction
<1> QED
  BY <1>2, <1>3 DEF RetireStale, IndicatorsOk

\* Retiring indicators keeps the data in order.
LEMMA RetireStaleKeeps ==
  ASSUME DataInv, RetireStale
  PROVE  DataInv'
<1>1. MemoryOk(stats', sources', indicators') /\ Earlier(sources, sources')
  BY RetireChanges, EarlierStays DEF DataInv, MemoryOk
<1> QED
  BY <1>1, RetireChanges, StayKeepsData

-----------------------------------------------------------------------------
(* Saves and restarts *)

\* What a file or a save holds, part by part.
LEMMA CopyParts ==
  ASSUME NEW s, NEW f, NEW so, CopyOk(s, f, so)
  PROVE  /\ DOMAIN f = Parts
         /\ StatsOk(f.stats) /\ SourcesOk(f.sources) /\ IndicatorsOk(f.indicators)
         /\ s = "feedback" => f.sources = Empty
         /\ Earlier(f.sources, so)
  BY DEF CopyOk

\* A copy with another part in order is in order.
LEMMA PartChanges ==
  ASSUME NEW s, NEW f, NEW so, CopyOk(s, f, so), NEW part, NEW g
  PROVE  /\ part = "stats" /\ StatsOk(g) => CopyOk(s, [f EXCEPT ![part] = g], so)
         /\ part = "indicators" /\ IndicatorsOk(g) => CopyOk(s, [f EXCEPT ![part] = g], so)
         /\ part = "sources" /\ s # "feedback" /\ SourcesOk(g) /\ Earlier(g, so) =>
              CopyOk(s, [f EXCEPT ![part] = g], so)
<1> DEFINE new == [f EXCEPT ![part] = g]
<1>1. DOMAIN f = Parts
  BY CopyParts
<1>2. new = [p \in Parts |-> new[p]]
  BY <1>1
<1>3. /\ part = "stats" => new.stats = g /\ new.sources = f.sources /\ new.indicators = f.indicators
      /\ part = "indicators" => new.stats = f.stats /\ new.sources = f.sources /\ new.indicators = g
      /\ part = "sources" => new.stats = f.stats /\ new.sources = g /\ new.indicators = f.indicators
  BY <1>1 DEF Parts
<1> HIDE DEF new
<1>4. part = "stats" /\ StatsOk(g) => CopyOk(s, new, so)
  BY <1>2, <1>3, CopyParts DEF CopyOk
<1>5. part = "indicators" /\ IndicatorsOk(g) => CopyOk(s, new, so)
  BY <1>2, <1>3, CopyParts DEF CopyOk
<1>6. part = "sources" /\ s # "feedback" /\ SourcesOk(g) /\ Earlier(g, so) => CopyOk(s, new, so)
  BY <1>2, <1>3, CopyParts DEF CopyOk
<1> QED
  BY <1>4, <1>5, <1>6 DEF new

\* Opening a file keeps the data in order.
LEMMA OpenFileKeeps ==
  ASSUME DataInv, NEW t \in Threads, OpenFile(t)
  PROVE  DataInv'
<1> DEFINE s == thread[t].store
           part == IF s = "feedback" THEN "stats" ELSE "sources"
           todo == DOMAIN Memory(part)
<1>1. Moved(t, part, s, "none", Empty, todo, Nothing)
  BY DataFacts, OpenFileMoves
<1>2. /\ UNCHANGED <<stats, sources, indicators>> /\ thread[t].at = "open"
      /\ file' = [file EXCEPT ![s] = {}] /\ DOMAIN sound' = DOMAIN sound
  BY DEF OpenFile, memory, Torn
<1>3. s \in Store
  BY <1>2, DataFacts, PlaceFacts
<1>4. PlaceOk(part, s) /\ part \in {"stats", "sources"}
  BY <1>3 DEF PlaceOk, Store
<1> HIDE DEF s, part, todo
<1>5. ThreadOk(thread'[t], stats', sources')
  BY <1>1, <1>4, MovedOk, NothingOk
<1>6. FilesOk(file', sources)
  BY <1>2, <1>3, FileChanges DEF DataInv
<1>7. MemoryOk(stats', sources', indicators') /\ Earlier(sources, sources')
  BY <1>2, EarlierStays DEF DataInv
<1>8. ~(part \in Counting) /\ stats' = stats /\ DOMAIN sound' = Store
  BY <1>2, <1>4 DEF Counting, DataInv
<1> QED
  BY <1>1, <1>5, <1>6, <1>7, <1>8, StepKeepsData

\* What of the memory a save copies.
LEMMA MemoryFacts ==
  ASSUME DataInv, NEW part
  PROVE  /\ part = "stats" => StatsOk(Memory(part)) /\ Memory(part) = stats
         /\ part = "sources" => SourcesOk(Memory(part)) /\ Memory(part) = sources
         /\ part = "indicators" => IndicatorsOk(Memory(part)) /\ Memory(part) = indicators
  BY DEF Memory, DataInv, MemoryOk

\* A record copied as it is keeps the copy in order.
LEMMA CopyOfRecord ==
  ASSUME DataInv, NEW t \in Threads, CopyRecord(t), NEW key \in thread[t].todo,
         NEW part, part = thread[t].at
  PROVE  CopyOk(thread[t].store, [thread[t].seen EXCEPT ![part] = With(@, key, Memory(part)[key])], sources)
<1> DEFINE s == thread[t].store
           seen == thread[t].seen
           old == seen[part]
           mem == Memory(part)
           rec == mem[key]
           g == With(old, key, rec)
<1>1. part \in Parts /\ DOMAIN mem = thread[t].todo \cup DOMAIN seen[part]
  BY DEF CopyRecord, SameKeys
<1>2. CopyOk(s, seen, sources)
  BY DataFacts DEF Store
<1>3. key \in DOMAIN mem
  BY <1>1
<1>4. part \in {"sources", "indicators"} => s = "quality"
  BY DataFacts, PlaceFacts
<1>5. StatsOk(seen.stats) /\ SourcesOk(seen.sources) /\ IndicatorsOk(seen.indicators) /\ Earlier(seen.sources, sources)
  BY <1>2, CopyParts
<1>6. /\ part = "stats" => StatsOk(mem)
      /\ part = "sources" => SourcesOk(mem) /\ mem = sources
      /\ part = "indicators" => IndicatorsOk(mem)
  BY MemoryFacts
<1>7. CASE part = "stats"
  <2>1. StatOk(rec) /\ StatsOk(old)
    BY <1>3, <1>5, <1>6, <1>7 DEF StatsOk
  <2>2. StatsOk(g)
    BY <2>1, WithOk
  <2> HIDE DEF g, s, seen
  <2>3. CopyOk(s, [seen EXCEPT ![part] = g], sources)
    BY <1>2, <1>7, <2>2, PartChanges
  <2> QED
    BY <2>3 DEF g, s, seen
<1>8. CASE part = "indicators"
  <2>1. IndicatorOk(rec) /\ IndicatorsOk(old)
    BY <1>3, <1>5, <1>6, <1>8 DEF IndicatorsOk
  <2>2. IndicatorsOk(g)
    BY <2>1, WithOk
  <2> HIDE DEF g, s, seen
  <2>3. CopyOk(s, [seen EXCEPT ![part] = g], sources)
    BY <1>2, <1>8, <2>2, PartChanges
  <2> QED
    BY <2>3 DEF g, s, seen
<1>9. CASE part = "sources"
  <2>1. SourceOk(rec) /\ SourcesOk(old) /\ Earlier(old, sources)
        /\ key \in DOMAIN sources /\ rec = sources[key]
    BY <1>3, <1>5, <1>6, <1>9 DEF SourcesOk
  <2>2. SourcesOk(g)
    BY <2>1, WithOk
  <2> HIDE DEF rec, old, mem, s, seen
  <2>3. Earlier(g, sources)
    BY <2>1 DEF Earlier, With
  <2> HIDE DEF g
  <2>4. CopyOk(s, [seen EXCEPT ![part] = g], sources)
    BY <1>2, <1>4, <1>9, <2>2, <2>3, PartChanges
  <2> QED
    BY <2>4 DEF g, s, seen, old, mem, rec
<1> QED
  BY <1>1, <1>7, <1>8, <1>9 DEF Parts

\* The thread that copies changes nothing else.
LEMMA CopyingKeeps ==
  ASSUME DataInv, NEW t \in Threads, UNCHANGED <<stats, sources, indicators>>,
         NEW at, NEW verdict, NEW key, NEW todo, NEW seen,
         Moved(t, at, thread[t].store, verdict, key, todo, seen),
         PlaceOk(at, thread[t].store), at \notin Counting,
         CopyOk(thread[t].store, seen, sources),
         at = "reliability" => key \in DOMAIN seen.sources,
         FilesOk(file', sources), DOMAIN sound' = Store
  PROVE  DataInv'
<1> DEFINE s == thread[t].store
<1> HIDE DEF s
<1>1. Moved(t, at, s, verdict, key, todo, seen) /\ PlaceOk(at, s) /\ CopyOk(s, seen, sources)
  BY DEF s
<1>2. ThreadOk(thread'[t], stats', sources')
  BY <1>1, MovedOk DEF Counting
<1>3. MemoryOk(stats', sources', indicators') /\ Earlier(sources, sources')
  BY EarlierStays DEF DataInv
<1> QED
  BY <1>1, <1>2, <1>3, StepKeepsData

\* Copying a record keeps the data in order.
LEMMA CopyRecordKeeps ==
  ASSUME DataInv, NEW t \in Threads, CopyRecord(t)
  PROVE  DataInv'
<1> DEFINE part == thread[t].at
           at == IF part = "sources" THEN "reliability" ELSE part
<1>1. DOMAIN thread[t].seen = Parts
  BY DataFacts, CopyParts DEF Store
<1>2. PICK key \in thread[t].todo :
        Moved(t, at, thread[t].store, thread[t].verdict, key, thread[t].todo \ {key},
              [thread[t].seen EXCEPT ![part] = With(@, key, Memory(part)[key])])
  BY <1>1, DataFacts, CopyRecordMoves
<1> DEFINE seen == [thread[t].seen EXCEPT ![part] = With(@, key, Memory(part)[key])]
<1>3. part \in Parts /\ UNCHANGED <<stats, sources, indicators, file, sound>>
  BY DEF CopyRecord, memory
<1>4. CopyOk(thread[t].store, seen, sources)
  BY CopyOfRecord
<1>5. PlaceOk(part, thread[t].store)
  BY DataFacts
<1>6. PlaceOk(at, thread[t].store) /\ at \notin Counting
  BY <1>3, <1>5 DEF PlaceOk, Counting, Parts
<1>7. part = "sources" => key \in DOMAIN seen.sources
  BY <1>1 DEF With, Parts
<1>8. at = "reliability" => part = "sources"
  BY <1>3 DEF Parts
<1>9. FilesOk(file', sources) /\ DOMAIN sound' = Store
  BY <1>3 DEF DataInv
<1>10. Moved(t, at, thread[t].store, thread[t].verdict, key, thread[t].todo \ {key}, seen)
  BY <1>2
<1> HIDE DEF seen, at, part
<1> QED
  BY <1>3, <1>4, <1>6, <1>7, <1>8, <1>9, <1>10, CopyingKeeps

\* Copying the rest of a source's record does.
LEMMA CopyReliabilityKeeps ==
  ASSUME DataInv, NEW t \in Threads, CopyReliability(t)
  PROVE  DataInv'
<1> DEFINE key == thread[t].key
           seen == thread[t].seen
           old == seen.sources
           rec == [old[key] EXCEPT !.reliability = sources[key].reliability]
           g == [old EXCEPT ![key] = rec]
           new == [seen EXCEPT !["sources"] = g]
<1>1. Moved(t, "sources", thread[t].store, thread[t].verdict, key, thread[t].todo,
            [seen EXCEPT !.sources[key].reliability = sources[key].reliability])
  BY DataFacts, CopyReliabilityMoves
<1>2. thread[t].at = "reliability" /\ UNCHANGED <<stats, sources, indicators, file, sound>>
  BY DEF CopyReliability, memory
<1>3. thread[t].store = "quality" /\ CopyOk("quality", seen, sources)
  BY <1>2, DataFacts, PlaceFacts DEF Store
<1>4. key \in DOMAIN old /\ SourcesOk(old) /\ Earlier(old, sources)
  BY <1>2, <1>3, DataFacts, CopyParts DEF ThreadOk
<1>5. SourceOk(old[key]) /\ key \in DOMAIN sources
      /\ (sources[key].total = 0 => old[key] = sources[key])
  BY <1>4 DEF SourcesOk, Earlier
<1>6. /\ SourceOk(rec) /\ rec.total = old[key].total
      /\ sources[key].total = 0 => rec = sources[key]
  <2> DEFINE o == old[key]
             x == sources[key].reliability
             n == [o EXCEPT !.reliability = x]
  <2>0. SourceOk(o)
    BY <1>5
  <2>1. o = [f \in SourceFields |-> o[f]]
    BY <2>0 DEF SourceOk
  <2>2. sources[key].total = 0 => o = sources[key]
    BY <1>5
  <2>3. sources[key].total = 0 => n = sources[key]
    BY <2>1, <2>2
  <2> HIDE DEF o
  <2> HIDE DEF x
  <2>4. n = [f \in SourceFields |-> n[f]]
    BY <2>1
  <2>5. n.tp = o.tp /\ n.fp = o.fp /\ n.total = o.total /\ n.ema = o.ema
    BY <2>1 DEF SourceFields
  <2> HIDE DEF n
  <2>6. SourceOk(n)
    BY <2>0, <2>4, <2>5 DEF SourceOk
  <2> QED
    BY <2>3, <2>5, <2>6 DEF n, o, x
<1>7. [seen EXCEPT !.sources[key].reliability = sources[key].reliability] = new
  BY <1>3, <1>4, CopyParts DEF Parts
<1> HIDE DEF old, rec, key
<1>8. DOMAIN g = DOMAIN old /\ g[key] = rec /\ \A k \in DOMAIN old \ {key} : g[k] = old[k]
  BY <1>4
<1>9. IsFunction(g)
  BY <1>4 DEF SourcesOk, IsFunction
<1> HIDE DEF g
<1>10. SourcesOk(g) /\ Earlier(g, sources)
  BY <1>4, <1>5, <1>6, <1>8, <1>9 DEF SourcesOk, Earlier
<1> HIDE DEF seen
<1>11. CopyOk("quality", new, sources)
  BY <1>3, <1>10, PartChanges
<1> HIDE DEF new
<1>12. Moved(t, "sources", thread[t].store, thread[t].verdict, key, thread[t].todo, new)
  BY <1>1, <1>7 DEF key, seen
<1>13. PlaceOk("sources", "quality") /\ "sources" \notin Counting
  BY DEF PlaceOk, Counting
<1>14. FilesOk(file', sources) /\ DOMAIN sound' = Store
  BY <1>2 DEF DataInv
<1> QED
  BY <1>2, <1>3, <1>11, <1>12, <1>13, <1>14, CopyingKeeps

\* Ending a loop does.
LEMMA CopyNextKeeps ==
  ASSUME DataInv, NEW t \in Threads, CopyNext(t)
  PROVE  DataInv'
<1> DEFINE at == IF thread[t].at = "sources" THEN "indicators" ELSE "write"
           todo == IF thread[t].at = "sources" THEN DOMAIN indicators ELSE thread[t].todo
<1>1. Moved(t, at, thread[t].store, thread[t].verdict, thread[t].key, todo, thread[t].seen)
  BY DataFacts, CopyNextMoves
<1>2. thread[t].at \in Parts /\ UNCHANGED <<stats, sources, indicators, file, sound>>
  BY DEF CopyNext, memory
<1>3. PlaceOk(thread[t].at, thread[t].store) /\ CopyOk(thread[t].store, thread[t].seen, sources)
  BY DataFacts DEF Store
<1>4. PlaceOk(at, thread[t].store) /\ at \notin Counting /\ at # "reliability"
  BY <1>2, <1>3 DEF PlaceOk, Counting, Parts
<1>5. FilesOk(file', sources) /\ DOMAIN sound' = Store
  BY <1>2 DEF DataInv
<1> HIDE DEF at, todo
<1> QED
  BY <1>1, <1>2, <1>3, <1>4, <1>5, CopyingKeeps

\* A save that ends, and the file it leaves, do.
LEMMA SaveEnds ==
  ASSUME DataInv, NEW t \in Threads, SaveFails(t) \/ Write(t),
         FilesOk(file', sources), DOMAIN sound' = Store, UNCHANGED <<stats, sources, indicators>>
  PROVE  DataInv'
<1>1. Moved(t, "idle", "none", "none", Empty, {}, Nothing)
  BY DataFacts, SaveEndsMoves
<1>2. ThreadOk(thread'[t], stats', sources')
  BY <1>1, MovedOk, NothingOk DEF PlaceOk
<1>3. MemoryOk(stats', sources', indicators') /\ Earlier(sources, sources')
  BY EarlierStays DEF DataInv
<1>4. "idle" \notin Counting
  BY DEF Counting
<1> QED
  BY <1>1, <1>2, <1>3, <1>4, StepKeepsData

\* A save that fails keeps the data in order.
LEMMA SaveFailsKeeps ==
  ASSUME DataInv, NEW t \in Threads, SaveFails(t)
  PROVE  DataInv'
<1>1. UNCHANGED <<stats, sources, indicators, file>> /\ DOMAIN sound' = DOMAIN sound
  BY DEF SaveFails, memory
<1> QED
  BY <1>1, SaveEnds DEF DataInv

\* What is written in a file keeps the data in order.
LEMMA WriteKeeps ==
  ASSUME DataInv, NEW t \in Threads, Write(t)
  PROVE  DataInv'
<1> DEFINE s == thread[t].store
           seen == thread[t].seen
<1>1. /\ UNCHANGED <<stats, sources, indicators, sound>> /\ thread[t].at = "write"
      /\ \E copies \in {{seen}, {}} : file' = [file EXCEPT ![s] = copies]
  BY DEF Write, memory, Torn
<1>2. s \in Store /\ CopyOk(s, seen, sources)
  BY <1>1, DataFacts, PlaceFacts
<1>3. FilesOk(file', sources)
  <2> HIDE DEF s, seen
  <2>1. PICK copies \in {{seen}, {}} : file' = [file EXCEPT ![s] = copies]
    BY <1>1
  <2>2. \A f, g \in copies : CopyOk(s, f, sources) /\ f = g
    BY <1>2, <2>1
  <2> QED
    BY <1>2, <2>1, <2>2, FileChanges DEF DataInv
<1> QED
  BY <1>1, <1>3, SaveEnds DEF DataInv

\* What a start reads from a file.
Read(s, f) == f \in (IF file[s] = Torn THEN {Nothing} ELSE file[s])

\* What a start finds in the memory: what the files say, or nothing.
LEMMA RestartReads ==
  ASSUME DataInv, Restart
  PROVE  \E f, g :
           /\ Read("feedback", f) /\ Read("quality", g)
           /\ CopyOk("feedback", f, sources) /\ CopyOk("quality", g, sources)
           /\ stats' = f.stats /\ sources' = g.sources /\ indicators' = g.indicators
<1>1. PICK f \in IF file["feedback"] = Torn THEN {Nothing} ELSE file["feedback"] : stats' = f.stats
  BY DEF Restart
<1>2. PICK g \in IF file["quality"] = Torn THEN {Nothing} ELSE file["quality"] :
        sources' = g.sources /\ indicators' = g.indicators
  BY DEF Restart
<1>3. CopyOk("feedback", f, sources)
  BY <1>1, NothingOk DEF DataInv, FilesOk, Store
<1>4. CopyOk("quality", g, sources)
  BY <1>2, NothingOk DEF DataInv, FilesOk, Store
<1> QED
  BY <1>1, <1>2, <1>3, <1>4 DEF Read

\* A start keeps the data in order.
LEMMA RestartKeeps ==
  ASSUME DataInv, Restart
  PROVE  DataInv'
<1>1. PICK f, g :
        /\ Read("feedback", f) /\ Read("quality", g)
        /\ CopyOk("feedback", f, sources) /\ CopyOk("quality", g, sources)
        /\ stats' = f.stats /\ sources' = g.sources /\ indicators' = g.indicators
  BY RestartReads
<1>2. file' = file /\ DOMAIN sound' = Store /\ thread' = [t \in Threads |-> Idle]
  BY DEF Restart
<1>3. MemoryOk(stats', sources', indicators')
  BY <1>1, CopyParts DEF MemoryOk
<1>4. ThreadsOk(thread', stats', sources')
  <2>1. ThreadOk(Idle, stats', sources')
    BY IdleFacts, NothingOk DEF ThreadOk, PlaceOk
  <2>2. \A s \in Store : ~Holds(Idle, s)
    BY IdleFacts DEF Holds, Store
  <2> QED
    BY <1>2, <2>1, <2>2 DEF ThreadsOk
<1>5. FilesOk(file, sources')
  <2> SUFFICES ASSUME NEW s \in Store, NEW h \in file[s], NEW i \in file[s]
               PROVE  CopyOk(s, h, sources') /\ h = i
    BY DEF FilesOk, DataInv
  <2>1. CopyOk(s, h, sources) /\ h = i
    BY DEF FilesOk, DataInv
  <2>2. CASE s = "feedback"
    <3>1. h.sources = Empty
      BY <2>1, <2>2, CopyParts
    <3>2. Earlier(h.sources, sources')
      BY <3>1 DEF Earlier, Empty
    <3> QED
      BY <2>1, <3>2 DEF CopyOk
  <2>3. CASE s = "quality"
    <3>1. g \in file["quality"]
      BY <1>1, <2>3 DEF Read, Torn
    <3>2. h = g
      BY <2>3, <3>1 DEF FilesOk, DataInv
    <3>3. Earlier(h.sources, sources')
      BY <1>1, <3>2, EarlierStays
    <3> QED
      BY <2>1, <3>3 DEF CopyOk
  <2> QED
    BY <2>1, <2>2, <2>3 DEF Store
<1> QED
  BY <1>2, <1>3, <1>4, <1>5 DEF DataInv

\* Every step keeps the data in order.
LEMMA NextKeepsData ==
  DataInv /\ [Next]_vars => DataInv'
<1> SUFFICES ASSUME DataInv, [Next]_vars PROVE DataInv'
  OBVIOUS
<1>1. CASE UNCHANGED vars
  BY <1>1 DEF vars, memory, bounds, DataInv
<1>2. ASSUME NEW t \in Threads, NEW threat \in Threats, Judge(t, threat) PROVE DataInv'
  <2>1. UNCHANGED <<file, sound>>
    BY <1>2 DEF Judge
  <2>2. (\E verdict \in Verdict : RecordFeedback(t, threat, verdict))
        \/ (\E verdict \in {"TRUE_POSITIVE", "FALSE_POSITIVE"} : RecordVerdict(t, threat[1], verdict))
    BY <1>2 DEF Judge
  <2> QED
    BY <2>1, <2>2, RecordFeedbackKeeps, RecordVerdictKeeps
<1>3. ASSUME NEW t \in Threads, CountTotal(t) \/ CountVerdict(t) \/ Rate(t) \/ MarkIndicator(t)
      PROVE  DataInv'
  BY <1>3, CountTotalKeeps, CountVerdictKeeps, RateKeeps, MarkIndicatorKeeps
<1>4. ASSUME NEW t \in Threads,
             OpenFile(t) \/ CopyRecord(t) \/ CopyReliability(t) \/ CopyNext(t) \/ SaveFails(t) \/ Write(t)
      PROVE  DataInv'
  BY <1>4, OpenFileKeeps, CopyRecordKeeps, CopyReliabilityKeeps, CopyNextKeeps, SaveFailsKeeps, WriteKeeps
<1>5. ASSUME NEW threat \in Threats, Ingest(threat[1]) PROVE DataInv'
  BY <1>5, IngestKeeps
<1> QED
  BY <1>1, <1>2, <1>3, <1>4, <1>5, RetireStaleKeeps, RestartKeeps DEF Next

\* In every reachable state the data are in order.
THEOREM DataInvariance == Spec => []DataInv
<1> QED
  BY InitDataInv, NextKeepsData, PTL DEF Spec

-----------------------------------------------------------------------------
(* A sound save has every verdict *)

\* Some records of the memory are in the copy f: all but those still to do.
StatsSaved(f, todo, st) ==
  \A key \in DOMAIN st \ todo : key \in DOMAIN f.stats /\ f.stats[key] = st[key]

SourcesSaved(f, todo, so) ==
  \A id \in DOMAIN so \ todo : so[id].total > 0 =>
    id \in DOMAIN f.sources /\ f.sources[id] = so[id]

IndicatorsSaved(f, todo, ind) ==
  \A key \in DOMAIN ind \ todo : ind[key].tp + ind[key].fp > 0 =>
    /\ key \in DOMAIN f.indicators
    /\ f.indicators[key].tp = ind[key].tp /\ f.indicators[key].fp = ind[key].fp

\* The copy f has everything store s has to save.
Fresh(s, f, st, so, ind) ==
  /\ s = "feedback" => f.stats = st
  /\ s = "quality" => SourcesSaved(f, {}, so) /\ IndicatorsSaved(f, {}, ind)

\* What a save has copied, as far as it is.
Progress(r, st, so, ind) ==
  /\ r.at = "stats" => StatsSaved(r.seen, r.todo, st)
  /\ r.at \in {"sources", "reliability"} => SourcesSaved(r.seen, r.todo, so)
  /\ r.at = "indicators" => SourcesSaved(r.seen, {}, so) /\ IndicatorsSaved(r.seen, r.todo, ind)
  /\ r.at = "write" => Fresh(r.store, r.seen, st, so, ind)

\* A thread that counts in store s, or is about to save it.
Pending(s, r) == r.store = s /\ r.at \in Counting \cup {"open"}
Saves(s, r) == r.store = s /\ r.at \in SaveSteps

Quiet(s, th) == \A t \in Threads : ~Pending(s, th[t])

SoundSave(s, th, copies, st, so, ind) ==
  /\ \A t, u \in Threads : Saves(s, th[t]) /\ Saves(s, th[u]) => t = u
  /\ Quiet(s, th) =>
       /\ \A t \in Threads : Saves(s, th[t]) => Progress(th[t], st, so, ind)
       /\ (\A t \in Threads : ~Saves(s, th[t])) => \E f \in copies : Fresh(s, f, st, so, ind)

SoundInv ==
  \A s \in Store : sound[s] => SoundSave(s, thread, file[s], stats, sources, indicators)

\* What is saved of store s stays saved when the memory changes so.
MemoryStays(s, st, so, ind, st2, so2, ind2) ==
  /\ s = "feedback" => st2 = st
  /\ s = "quality" =>
       /\ \A f, todo : SourcesSaved(f, todo, so) => SourcesSaved(f, todo, so2)
       /\ \A f, todo : IndicatorsSaved(f, todo, ind) => IndicatorsSaved(f, todo, ind2)

\* Progress in saving store s stays when the memory changes so.
LEMMA ProgressStays ==
  ASSUME NEW s, NEW r, NEW st, NEW so, NEW ind, NEW st2, NEW so2, NEW ind2,
         MemoryStays(s, st, so, ind, st2, so2, ind2), r.store = s, PlaceOk(r.at, r.store)
  PROVE  /\ Progress(r, st, so, ind) => Progress(r, st2, so2, ind2)
         /\ \A f : Fresh(s, f, st, so, ind) => Fresh(s, f, st2, so2, ind2)
<1>1. \A f : Fresh(s, f, st, so, ind) => Fresh(s, f, st2, so2, ind2)
  BY DEF Fresh, MemoryStays
<1>2. ASSUME Progress(r, st, so, ind) PROVE Progress(r, st2, so2, ind2)
  <2>1. r.at = "stats" => StatsSaved(r.seen, r.todo, st2)
    BY <1>2, PlaceFacts DEF Progress, MemoryStays
  <2>2. r.at \in {"sources", "reliability"} => SourcesSaved(r.seen, r.todo, so2)
    BY <1>2, PlaceFacts DEF Progress, MemoryStays
  <2>3. r.at = "indicators" => SourcesSaved(r.seen, {}, so2) /\ IndicatorsSaved(r.seen, r.todo, ind2)
    BY <1>2, PlaceFacts DEF Progress, MemoryStays
  <2>4. r.at = "write" => Fresh(r.store, r.seen, st2, so2, ind2)
    BY <1>1, <1>2 DEF Progress
  <2> QED
    BY <2>1, <2>2, <2>3, <2>4 DEF Progress
<1> QED
  BY <1>1, <1>2

\* A step in which no thread moves in store s leaves its save sound.
LEMMA SoundStays ==
  ASSUME DataInv, NEW s \in Store,
         SoundSave(s, thread, file[s], stats, sources, indicators),
         \A u \in Threads : thread'[u] = thread[u] \/ (thread[u].store # s /\ thread'[u].store # s),
         file'[s] = file[s],
         MemoryStays(s, stats, sources, indicators, stats', sources', indicators')
  PROVE  SoundSave(s, thread', file'[s], stats', sources', indicators')
<1>1. \A u \in Threads : /\ Saves(s, thread'[u]) <=> Saves(s, thread[u])
                         /\ Pending(s, thread'[u]) <=> Pending(s, thread[u])
                         /\ Saves(s, thread'[u]) => thread'[u] = thread[u]
  BY DEF Saves, Pending
<1>2. ASSUME Quiet(s, thread'), NEW u \in Threads, Saves(s, thread'[u])
      PROVE  Progress(thread'[u], stats', sources', indicators')
  <2>1. Quiet(s, thread) /\ Saves(s, thread[u]) /\ thread'[u] = thread[u]
    BY <1>1, <1>2 DEF Quiet
  <2>2. Progress(thread[u], stats, sources, indicators)
    BY <2>1 DEF SoundSave
  <2>3. PlaceOk(thread[u].at, thread[u].store) /\ thread[u].store = s
    BY <2>1, DataFacts DEF Saves
  <2>4. Progress(thread[u], stats', sources', indicators')
    BY <2>2, <2>3, ProgressStays
  <2> QED
    BY <2>1, <2>4
<1>3. ASSUME Quiet(s, thread'), \A u \in Threads : ~Saves(s, thread'[u])
      PROVE  \E f \in file'[s] : Fresh(s, f, stats', sources', indicators')
  <2>1. Quiet(s, thread) /\ \A u \in Threads : ~Saves(s, thread[u])
    BY <1>1, <1>3 DEF Quiet
  <2>2. PICK f \in file[s] : Fresh(s, f, stats, sources, indicators)
    BY <2>1 DEF SoundSave
  <2>3. Fresh(s, f, stats', sources', indicators')
    BY <2>2 DEF MemoryStays, Fresh
  <2> QED
    BY <2>2, <2>3
<1>4. \A t, u \in Threads : Saves(s, thread'[t]) /\ Saves(s, thread'[u]) => t = u
  BY <1>1 DEF SoundSave
<1> QED
  BY <1>2, <1>3, <1>4 DEF SoundSave

\* A thread that is counting has still to save.
LEMMA PendingStep ==
  ASSUME NEW s \in Store, NEW t \in Threads,
         SoundSave(s, thread, file[s], stats, sources, indicators),
         \A u \in Threads \ {t} : thread'[u] = thread[u],
         Pending(s, thread'[t]), ~Saves(s, thread[t]), NEW copies
  PROVE  SoundSave(s, thread', copies, stats', sources', indicators')
<1>1. ~Quiet(s, thread')
  BY DEF Quiet
<1>2. ~Saves(s, thread'[t])
  BY DEF Pending, Saves, Counting, SaveSteps, Parts
<1>3. \A u, v \in Threads : Saves(s, thread'[u]) /\ Saves(s, thread'[v]) => u = v
  BY <1>2 DEF SoundSave
<1> QED
  BY <1>1, <1>3 DEF SoundSave

\* A save that copies what it says it does stays sound.
LEMMA CopyStep ==
  ASSUME NEW s \in Store, NEW t \in Threads,
         SoundSave(s, thread, file[s], stats, sources, indicators),
         \A u \in Threads \ {t} : thread'[u] = thread[u],
         Saves(s, thread[t]), Saves(s, thread'[t]),
         Progress(thread[t], stats, sources, indicators) =>
           Progress(thread'[t], stats, sources, indicators),
         NEW copies
  PROVE  SoundSave(s, thread', copies, stats, sources, indicators)
<1>1. \A u \in Threads : Saves(s, thread'[u]) <=> Saves(s, thread[u])
  OBVIOUS
<1>2. Quiet(s, thread') => Quiet(s, thread)
  <2>1. ~Pending(s, thread[t])
    BY DEF Pending, Saves, Counting, SaveSteps, Parts
  <2> QED
    BY <2>1 DEF Quiet
<1>3. ASSUME Quiet(s, thread'), NEW u \in Threads, Saves(s, thread'[u])
      PROVE  Progress(thread'[u], stats, sources, indicators)
  <2>1. u = t
    BY <1>1, <1>3 DEF SoundSave
  <2>2. Progress(thread[t], stats, sources, indicators)
    BY <1>2, <1>3 DEF SoundSave
  <2> QED
    BY <2>1, <2>2
<1>4. \A u, v \in Threads : Saves(s, thread'[u]) /\ Saves(s, thread'[v]) => u = v
  BY <1>1 DEF SoundSave
<1> QED
  BY <1>3, <1>4 DEF SoundSave

\* What is saved of a memory stays saved if it stays as it is.
LEMMA SameMemory ==
  ASSUME NEW s, NEW st, NEW so, NEW ind, NEW st2, NEW so2, NEW ind2,
         s = "feedback" => st2 = st,
         s = "quality" => so2 = so /\ ind2 = ind
  PROVE  MemoryStays(s, st, so, ind, st2, so2, ind2)
  BY DEF MemoryStays

\* A step of one thread that was and is in store s, or in none, does nothing
\* to the save of another store.
LEMMA OtherStore ==
  ASSUME DataInv, SoundInv, NEW t \in Threads, NEW s, NEW s2 \in Store \ {s}, sound[s2],
         \A u \in Threads \ {t} : thread'[u] = thread[u],
         thread[t].store \in {s, "none"}, thread'[t].store \in {s, "none"},
         file'[s2] = file[s2],
         s2 = "feedback" => stats' = stats,
         s2 = "quality" => sources' = sources /\ indicators' = indicators
  PROVE  SoundSave(s2, thread', file'[s2], stats', sources', indicators')
<1>1. SoundSave(s2, thread, file[s2], stats, sources, indicators)
  BY DEF SoundInv
<1>2. MemoryStays(s2, stats, sources, indicators, stats', sources', indicators')
  BY SameMemory
<1>3. \A u \in Threads : thread'[u] = thread[u] \/ (thread[u].store # s2 /\ thread'[u].store # s2)
  BY DEF Store
<1> QED
  BY <1>1, <1>2, <1>3, SoundStays

-----------------------------------------------------------------------------
(* Each action keeps the saves sound *)

\* A verdict under way in store s keeps the saves sound.
LEMMA VerdictStep ==
  ASSUME DataInv, SoundInv, NEW s \in Store, NEW t \in Threads,
         thread[t].store \in {s, "none"}, ~Saves(s, thread[t]),
         \A u \in Threads \ {t} : thread'[u] = thread[u],
         Pending(s, thread'[t]),
         s = "quality" => stats' = stats,
         s = "feedback" => sources' = sources /\ indicators' = indicators,
         UNCHANGED <<file, sound>>
  PROVE  SoundInv'
<1> SUFFICES ASSUME NEW s2 \in Store, sound'[s2]
             PROVE  SoundSave(s2, thread', file'[s2], stats', sources', indicators')
  BY DEF SoundInv
<1>1. CASE s2 = s
  <2>1. SoundSave(s, thread, file[s], stats, sources, indicators)
    BY <1>1 DEF SoundInv
  <2> QED
    BY <1>1, <2>1, PendingStep
<1>2. CASE s2 # s
  <2>1. thread'[t].store = s
    BY DEF Pending
  <2> QED
    BY <1>2, <2>1, OtherStore DEF Store
<1> QED
  BY <1>1, <1>2

\* Starting a verdict, in either store, does.
LEMMA JudgeSound ==
  ASSUME DataInv, SoundInv, NEW t \in Threads, NEW threat, Judge(t, threat)
  PROVE  SoundInv'
<1>1. thread[t].at = "idle" /\ UNCHANGED <<file, sound>>
  BY DEF Judge
<1>2. thread[t].store = "none"
  BY <1>1, DataFacts, PlaceFacts
<1>3. ASSUME NEW verdict, RecordFeedback(t, threat, verdict) PROVE SoundInv'
  <2>1. Moved(t, "count", "feedback", verdict, Empty, Visits(threat), Nothing)
    BY <1>3, DataFacts, RecordFeedbackMoves
  <2>2. \A u \in Threads \ {t} : thread'[u] = thread[u]
    BY <2>1 DEF Moved
  <2>3. Pending("feedback", thread'[t])
    BY <2>1 DEF Moved, Pending, Counting
  <2>4. ~Saves("feedback", thread[t])
    BY <1>2 DEF Saves
  <2>5. UNCHANGED <<stats, sources, indicators>>
    BY <1>3 DEF RecordFeedback, memory
  <2> QED
    BY <1>1, <1>2, <2>2, <2>3, <2>4, <2>5, VerdictStep DEF Store
<1>4. ASSUME NEW verdict, RecordVerdict(t, threat[1], verdict) PROVE SoundInv'
  <2> DEFINE a == threat[1]
             todo == IndicatorKeys(a) \cap DOMAIN indicators
  <2>1. Moved(t, "rate", "quality", verdict, a.source, todo, Nothing)
    BY <1>4, DataFacts, RecordVerdictMoves
  <2>2. \A u \in Threads \ {t} : thread'[u] = thread[u]
    BY <2>1 DEF Moved
  <2>3. Pending("quality", thread'[t])
    BY <2>1 DEF Moved, Pending, Counting
  <2>4. ~Saves("quality", thread[t])
    BY <1>2 DEF Saves
  <2>5. UNCHANGED <<stats, indicators>>
    BY <1>4 DEF RecordVerdict
  <2> QED
    BY <1>1, <1>2, <2>2, <2>3, <2>4, <2>5, VerdictStep DEF Store
<1>5. (\E verdict \in Verdict : RecordFeedback(t, threat, verdict))
      \/ (\E verdict \in {"TRUE_POSITIVE", "FALSE_POSITIVE"} : RecordVerdict(t, threat[1], verdict))
  BY DEF Judge
<1> QED
  BY <1>3, <1>4, <1>5

\* Counting a key's total or verdict does.
LEMMA CountSound ==
  ASSUME DataInv, SoundInv, NEW t \in Threads, CountTotal(t) \/ CountVerdict(t)
  PROVE  SoundInv'
<1>1. /\ thread[t].at \in {"count", "counted"} /\ UNCHANGED <<sources, indicators, file, sound>>
  BY DEF CountTotal, CountVerdict
<1>2. thread[t].store = "feedback" /\ ~Saves("feedback", thread[t])
  BY <1>1, DataFacts, PlaceFacts DEF Saves, SaveSteps, Parts
<1>3. /\ \A u \in Threads \ {t} : thread'[u] = thread[u]
      /\ thread'[t].store = "feedback" /\ thread'[t].at \in {"count", "counted", "open"}
  <2>1. CASE CountTotal(t)
    BY <1>2, <2>1, DataFacts, CountTotalMoves DEF Moved
  <2>2. CASE CountVerdict(t)
    BY <1>2, <2>2, DataFacts, CountVerdictMoves DEF Moved
  <2> QED
    BY <2>1, <2>2
<1>4. Pending("feedback", thread'[t])
  BY <1>3 DEF Pending, Counting
<1> QED
  BY <1>1, <1>2, <1>3, <1>4, VerdictStep DEF Store

\* Rating a source or marking its indicators does.
LEMMA RateSound ==
  ASSUME DataInv, SoundInv, NEW t \in Threads, Rate(t) \/ MarkIndicator(t)
  PROVE  SoundInv'
<1>1. /\ thread[t].at \in {"rate", "mark"} /\ UNCHANGED <<stats, file, sound>>
  BY DEF Rate, MarkIndicator
<1>2. thread[t].store = "quality" /\ ~Saves("quality", thread[t])
  BY <1>1, DataFacts, PlaceFacts DEF Saves, SaveSteps, Parts
<1>3. /\ \A u \in Threads \ {t} : thread'[u] = thread[u]
      /\ thread'[t].store = "quality" /\ thread'[t].at \in {"mark", "open"}
  <2>1. CASE Rate(t)
    BY <1>2, <2>1, DataFacts, RateMoves DEF Moved
  <2>2. CASE MarkIndicator(t)
    BY <1>2, <2>2, DataFacts, MarkIndicatorMoves DEF Moved
  <2> QED
    BY <2>1, <2>2
<1>4. Pending("quality", thread'[t])
  BY <1>3 DEF Pending, Counting
<1> QED
  BY <1>1, <1>2, <1>3, <1>4, VerdictStep DEF Store

\* A step that moves no thread, and changes the memory where nothing has been
\* judged or saved, does.
LEMMA MemoryStep ==
  ASSUME DataInv, SoundInv, UNCHANGED <<thread, file, sound>>,
         \A s \in Store : MemoryStays(s, stats, sources, indicators, stats', sources', indicators')
  PROVE  SoundInv'
  BY SoundStays DEF SoundInv

\* A new alert does.
LEMMA IngestSound ==
  ASSUME DataInv, SoundInv, NEW a, Ingest(a)
  PROVE  SoundInv'
<1> DEFINE id == a.source
           old == SourceOf(id)
           keys == IndicatorKeys(a)
<1>1. /\ UNCHANGED <<stats, thread, file, sound>>
      /\ sources' = With(sources, id, old)
      /\ indicators' = [key \in DOMAIN indicators \cup keys |->
           IF key \in DOMAIN indicators THEN indicators[key] ELSE NewIndicator]
  BY DEF Ingest
<1>2. IF id \in DOMAIN sources THEN old = sources[id] ELSE old.total = 0
  BY NewRecordsOk DEF SourceOf
<1> HIDE DEF id, old, keys
<1>3. /\ DOMAIN sources \subseteq DOMAIN sources'
      /\ \A k \in DOMAIN sources' : IF k \in DOMAIN sources THEN sources'[k] = sources[k]
                                                            ELSE sources'[k].total = 0
  BY <1>1, <1>2 DEF With
<1>4. /\ DOMAIN indicators \subseteq DOMAIN indicators'
      /\ \A k \in DOMAIN indicators' : IF k \in DOMAIN indicators THEN indicators'[k] = indicators[k]
                                                            ELSE indicators'[k].tp + indicators'[k].fp = 0
  <2>1. NewIndicator.tp + NewIndicator.fp = 0
    BY DEF NewIndicator
  <2> QED
    BY <1>1, <2>1
<1>5. \A f, todo : SourcesSaved(f, todo, sources) => SourcesSaved(f, todo, sources')
  BY <1>3 DEF SourcesSaved
<1>6. \A f, todo : IndicatorsSaved(f, todo, indicators) => IndicatorsSaved(f, todo, indicators')
  BY <1>4 DEF IndicatorsSaved
<1>7. \A s \in Store : MemoryStays(s, stats, sources, indicators, stats', sources', indicators')
  BY <1>1, <1>5, <1>6 DEF MemoryStays
<1> QED
  BY <1>1, <1>7, MemoryStep

\* Retiring indicators does: what it retires is not counted.
LEMMA RetireStaleSound ==
  ASSUME DataInv, SoundInv, RetireStale
  PROVE  SoundInv'
<1>1. \A f, todo : IndicatorsSaved(f, todo, indicators) => IndicatorsSaved(f, todo, indicators')
  BY RetireChanges DEF IndicatorsSaved
<1>2. \A s \in Store : MemoryStays(s, stats, sources, indicators, stats', sources', indicators')
  BY <1>1, RetireChanges DEF MemoryStays
<1> QED
  BY <1>2, RetireChanges, MemoryStep

\* A step of a save leaves the other store's as it is.
LEMMA SaveOfOther ==
  ASSUME DataInv, SoundInv, NEW t \in Threads, NEW s2 \in Store \ {thread[t].store}, sound[s2],
         \A u \in Threads \ {t} : thread'[u] = thread[u],
         thread'[t].store \in {thread[t].store, "none"},
         file'[s2] = file[s2], UNCHANGED <<stats, sources, indicators>>
  PROVE  SoundSave(s2, thread', file'[s2], stats', sources', indicators')
<1> DEFINE s == thread[t].store
<1>1. s2 \in Store \ {s} /\ thread[t].store \in {s, "none"} /\ thread'[t].store \in {s, "none"}
  OBVIOUS
<1> HIDE DEF s
<1> QED
  BY <1>1, OtherStore

\* Opening a file does: its save is sound if no other is under way.
LEMMA OpenFileSound ==
  ASSUME DataInv, SoundInv, NEW t \in Threads, OpenFile(t)
  PROVE  SoundInv'
<1> DEFINE s == thread[t].store
           part == IF s = "feedback" THEN "stats" ELSE "sources"
           todo == DOMAIN Memory(part)
<1>1. Moved(t, part, s, "none", Empty, todo, Nothing)
  BY DataFacts, OpenFileMoves
<1>2. /\ UNCHANGED <<stats, sources, indicators>> /\ thread[t].at = "open"
      /\ file' = [file EXCEPT ![s] = Torn] /\ sound' = [sound EXCEPT ![s] = Beside(t) = {}]
  BY DEF OpenFile, memory
<1>3. s \in Store
  BY <1>2, DataFacts, PlaceFacts
<1>4. /\ \A u \in Threads \ {t} : thread'[u] = thread[u]
      /\ thread'[t].at = part /\ thread'[t].store = s /\ thread'[t].todo = todo
  BY <1>1 DEF Moved
<1> SUFFICES ASSUME NEW s2 \in Store, sound'[s2]
             PROVE  SoundSave(s2, thread', file'[s2], stats', sources', indicators')
  BY DEF SoundInv
<1>5. CASE s2 # s
  <2>1. sound[s2] /\ file'[s2] = file[s2]
    BY <1>2, <1>3, <1>5 DEF DataInv, FilesOk
  <2> QED
    BY <1>2, <1>4, <1>5, <2>1, SaveOfOther
<1>6. CASE s2 = s
  <2>1. Beside(t) = {}
    BY <1>2, <1>3, <1>6 DEF DataInv
  <2>2. \A u \in Threads \ {t} : ~Saves(s, thread'[u])
    BY <1>4, <2>1 DEF Beside, Saving, Saves
  <2>3. Progress(thread'[t], stats', sources', indicators')
    <3>1. part = "stats" => todo = DOMAIN stats
      BY DEF Memory
    <3>2. part = "sources" => todo = DOMAIN sources
      BY DEF Memory
    <3>3. part \in {"stats", "sources"}
      OBVIOUS
    <3> HIDE DEF part, todo
    <3> QED
      BY <1>2, <1>4, <3>1, <3>2, <3>3 DEF Progress, StatsSaved, SourcesSaved
  <2>4. Saves(s, thread'[t])
    BY <1>4 DEF Saves, SaveSteps, Parts
  <2> HIDE DEF s
  <2>5. \A u, v \in Threads : Saves(s, thread'[u]) /\ Saves(s, thread'[v]) => u = v
    BY <2>2
  <2>6. \A u \in Threads : Saves(s, thread'[u]) => Progress(thread'[u], stats', sources', indicators')
    BY <2>2, <2>3
  <2>7. SoundSave(s, thread', file'[s2], stats', sources', indicators')
    BY <2>4, <2>5, <2>6 DEF SoundSave
  <2> QED
    BY <1>6, <2>7
<1> QED
  BY <1>5, <1>6

\* A save that copies on stays sound.
LEMMA CopyingSound ==
  ASSUME DataInv, SoundInv, NEW t \in Threads, thread[t].store \in Store,
         \A u \in Threads \ {t} : thread'[u] = thread[u],
         thread'[t].store = thread[t].store,
         thread[t].at \in SaveSteps, thread'[t].at \in SaveSteps,
         UNCHANGED <<stats, sources, indicators, file, sound>>,
         Progress(thread[t], stats, sources, indicators) =>
           Progress(thread'[t], stats, sources, indicators)
  PROVE  SoundInv'
<1> SUFFICES ASSUME NEW s2 \in Store, sound'[s2]
             PROVE  SoundSave(s2, thread', file'[s2], stats', sources', indicators')
  BY DEF SoundInv
<1>1. CASE s2 # thread[t].store
  BY <1>1, SaveOfOther
<1>2. CASE s2 = thread[t].store
  <2>1. SoundSave(s2, thread, file[s2], stats, sources, indicators)
    BY DEF SoundInv
  <2>2. Saves(s2, thread[t]) /\ Saves(s2, thread'[t])
    BY <1>2 DEF Saves
  <2>3. SoundSave(s2, thread', file[s2], stats, sources, indicators)
    BY <2>1, <2>2, CopyStep
  <2> QED
    BY <2>3
<1> QED
  BY <1>1, <1>2

\* The thread that saves is in a store.
LEMMA SaverFacts ==
  ASSUME DataInv, NEW t \in Threads, thread[t].at \in SaveSteps \cup {"open"}
  PROVE  thread[t].store \in Store
  BY DataFacts, PlaceFacts DEF SaveSteps, Parts, Store

-----------------------------------------------------------------------------
\* Copying a record keeps the saves sound.
LEMMA CopyRecordSound ==
  ASSUME DataInv, SoundInv, NEW t \in Threads, CopyRecord(t)
  PROVE  SoundInv'
<1> DEFINE part == thread[t].at
           at == IF part = "sources" THEN "reliability" ELSE part
           seen == thread[t].seen
<1>1. DOMAIN seen = Parts
  BY DataFacts, CopyParts DEF Store
<1>2. PICK key \in thread[t].todo :
        Moved(t, at, thread[t].store, thread[t].verdict, key, thread[t].todo \ {key},
              [thread[t].seen EXCEPT ![part] = With(@, key, Memory(part)[key])])
  BY <1>1, DataFacts, CopyRecordMoves
<1> DEFINE rec == Memory(part)[key]
           g == With(seen[part], key, rec)
           new == [seen EXCEPT ![part] = g]
<1>3. part \in Parts /\ UNCHANGED <<stats, sources, indicators, file, sound>>
  BY DEF CopyRecord, memory
<1>4. /\ \A u \in Threads \ {t} : thread'[u] = thread[u]
      /\ thread'[t].at = at /\ thread'[t].store = thread[t].store
      /\ thread'[t].todo = thread[t].todo \ {key} /\ thread'[t].seen = new
  BY <1>2 DEF Moved
<1>5. /\ part = "stats" => rec = stats[key]
      /\ part = "sources" => rec = sources[key]
      /\ part = "indicators" => rec = indicators[key]
  BY MemoryFacts
<1>6. part \in SaveSteps /\ at \in SaveSteps /\ thread[t].store \in Store
  BY <1>3, SaverFacts DEF SaveSteps, Parts
<1> HIDE DEF rec
<1>7. g[key] = rec /\ DOMAIN g = DOMAIN seen[part] \cup {key} /\ \A k \in DOMAIN seen[part] \ {key} : g[k] = seen[part][k]
  BY DEF With
<1> HIDE DEF g
<1>8. /\ part = "stats" => new.stats = g
      /\ part = "sources" => new.sources = g
      /\ part = "indicators" => new.indicators = g /\ new.sources = seen.sources
  BY <1>1, <1>3 DEF Parts
<1> HIDE DEF new
<1>9. ASSUME Progress(thread[t], stats, sources, indicators)
      PROVE  Progress(thread'[t], stats, sources, indicators)
  <2>1. CASE part = "stats"
    <3>1. StatsSaved(seen, thread[t].todo, stats)
      BY <1>9, <2>1 DEF Progress
    <3>2. StatsSaved(new, thread[t].todo \ {key}, stats)
      BY <1>5, <1>7, <1>8, <2>1, <3>1 DEF StatsSaved
    <3> QED
      BY <1>4, <2>1, <3>2 DEF Progress
  <2>2. CASE part = "sources"
    <3>1. SourcesSaved(seen, thread[t].todo, sources)
      BY <1>9, <2>2 DEF Progress
    <3>2. SourcesSaved(new, thread[t].todo \ {key}, sources)
      BY <1>5, <1>7, <1>8, <2>2, <3>1 DEF SourcesSaved
    <3> QED
      BY <1>4, <2>2, <3>2 DEF Progress
  <2>3. CASE part = "indicators"
    <3>1. SourcesSaved(seen, {}, sources) /\ IndicatorsSaved(seen, thread[t].todo, indicators)
      BY <1>9, <2>3 DEF Progress
    <3>2. SourcesSaved(new, {}, sources)
      BY <1>8, <2>3, <3>1 DEF SourcesSaved
    <3>3. IndicatorsSaved(new, thread[t].todo \ {key}, indicators)
      BY <1>5, <1>7, <1>8, <2>3, <3>1 DEF IndicatorsSaved
    <3> QED
      BY <1>4, <2>3, <3>2, <3>3 DEF Progress
  <2> QED
    BY <1>3, <2>1, <2>2, <2>3 DEF Parts
<1> QED
  BY <1>3, <1>4, <1>6, <1>9, CopyingSound

\* Copying the rest of a source's record does.
LEMMA CopyReliabilitySound ==
  ASSUME DataInv, SoundInv, NEW t \in Threads, CopyReliability(t)
  PROVE  SoundInv'
<1> DEFINE key == thread[t].key
           seen == thread[t].seen
           rec == [seen.sources[key] EXCEPT !.reliability = sources[key].reliability]
           new == [seen EXCEPT !.sources[key].reliability = sources[key].reliability]
<1>1. Moved(t, "sources", thread[t].store, thread[t].verdict, key, thread[t].todo, new)
  BY DataFacts, CopyReliabilityMoves
<1>2. thread[t].at = "reliability" /\ UNCHANGED <<stats, sources, indicators, file, sound>>
  BY DEF CopyReliability, memory
<1>3. /\ DOMAIN seen = Parts /\ SourcesOk(seen.sources) /\ Earlier(seen.sources, sources)
      /\ key \in DOMAIN seen.sources
  BY <1>2, DataFacts, CopyParts DEF Store, ThreadOk
<1>4. /\ \A u \in Threads \ {t} : thread'[u] = thread[u]
      /\ thread'[t].at = "sources" /\ thread'[t].store = thread[t].store
      /\ thread'[t].todo = thread[t].todo /\ thread'[t].seen = new
  BY <1>1 DEF Moved
<1>5. new.sources = [seen.sources EXCEPT ![key] = rec]
  BY <1>3 DEF Parts
<1>6. seen.sources[key] = sources[key] => rec = seen.sources[key]
  <2>1. SourceOk(seen.sources[key])
    BY <1>3 DEF SourcesOk
  <2> DEFINE o == seen.sources[key]
             x == sources[key].reliability
  <2>2. o = [f \in SourceFields |-> o[f]]
    BY <2>1 DEF SourceOk
  <2>3. o = sources[key] => x = o.reliability
    OBVIOUS
  <2> HIDE DEF o
  <2> HIDE DEF x
  <2>4. x = o.reliability => [o EXCEPT !.reliability = x] = o
    BY <2>2
  <2> QED
    BY <2>3, <2>4 DEF o, x
<1> HIDE DEF new, rec
<1>7. ASSUME Progress(thread[t], stats, sources, indicators)
      PROVE  Progress(thread'[t], stats, sources, indicators)
  <2>1. SourcesSaved(seen, thread[t].todo, sources)
    BY <1>2, <1>7 DEF Progress
  <2> HIDE DEF seen, key
  <2>2. SourcesSaved(new, thread[t].todo, sources)
    BY <1>3, <1>5, <1>6, <2>1 DEF SourcesSaved
  <2> QED
    BY <1>4, <2>2 DEF Progress
<1>8. thread[t].store \in Store /\ "sources" \in SaveSteps /\ thread[t].at \in SaveSteps
  BY <1>2, SaverFacts DEF SaveSteps, Parts
<1> QED
  BY <1>2, <1>4, <1>7, <1>8, CopyingSound

\* A dictionary whose every record is copied is copied.
LEMMA AllCopied ==
  ASSUME NEW f, NEW st, StatsOk(f.stats), StatsOk(st), DOMAIN st = DOMAIN f.stats,
         StatsSaved(f, {}, st)
  PROVE  f.stats = st
<1>1. f.stats = [k \in DOMAIN st |-> f.stats[k]] /\ st = [k \in DOMAIN st |-> st[k]]
  BY DEF StatsOk, IsFunction
<1>2. \A k \in DOMAIN st : f.stats[k] = st[k]
  BY DEF StatsSaved
<1> QED
  BY <1>1, <1>2

\* Ending a loop does.
LEMMA CopyNextSound ==
  ASSUME DataInv, SoundInv, NEW t \in Threads, CopyNext(t)
  PROVE  SoundInv'
<1> DEFINE at == IF thread[t].at = "sources" THEN "indicators" ELSE "write"
           todo == IF thread[t].at = "sources" THEN DOMAIN indicators ELSE thread[t].todo
           seen == thread[t].seen
<1>1. Moved(t, at, thread[t].store, thread[t].verdict, thread[t].key, todo, seen)
  BY DataFacts, CopyNextMoves
<1>2. /\ thread[t].at \in Parts /\ UNCHANGED <<stats, sources, indicators, file, sound>>
      /\ thread[t].todo = {} /\ DOMAIN Memory(thread[t].at) = thread[t].todo \cup DOMAIN seen[thread[t].at]
  BY DEF CopyNext, SameKeys, memory
<1>3. /\ \A u \in Threads \ {t} : thread'[u] = thread[u]
      /\ thread'[t].at = at /\ thread'[t].store = thread[t].store
      /\ thread'[t].todo = todo /\ thread'[t].seen = seen
  BY <1>1 DEF Moved
<1>4. at \in SaveSteps /\ thread[t].at \in SaveSteps
  BY <1>2 DEF SaveSteps, Parts
<1>5. thread[t].store \in Store
  BY <1>4, SaverFacts
<1>6. ASSUME Progress(thread[t], stats, sources, indicators)
      PROVE  Progress(thread'[t], stats, sources, indicators)
  <2>1. CASE thread[t].at = "stats"
    <3>1. StatsSaved(seen, {}, stats) /\ thread[t].store = "feedback"
      BY <1>2, <1>6, <2>1, DataFacts, PlaceFacts DEF Progress
    <3>2. DOMAIN stats = DOMAIN seen.stats
      BY <1>2, <2>1 DEF Memory
    <3>3. StatsOk(seen.stats) /\ StatsOk(stats)
      BY DataFacts, CopyParts DEF Store, DataInv, MemoryOk
    <3>4. seen.stats = stats
      BY <3>1, <3>2, <3>3, AllCopied
    <3>5. Fresh("feedback", seen, stats, sources, indicators)
      BY <3>4 DEF Fresh
    <3> QED
      BY <1>3, <2>1, <3>1, <3>5 DEF Progress
  <2>2. CASE thread[t].at = "sources"
    <3>1. SourcesSaved(seen, {}, sources)
      BY <1>2, <1>6, <2>2 DEF Progress
    <3>2. IndicatorsSaved(seen, DOMAIN indicators, indicators)
      BY DEF IndicatorsSaved
    <3>3. thread'[t].at = "indicators" /\ thread'[t].todo = DOMAIN indicators /\ thread'[t].seen = seen
      BY <1>3, <2>2
    <3> HIDE DEF seen
    <3> QED
      BY <3>1, <3>2, <3>3 DEF Progress
  <2>3. CASE thread[t].at = "indicators"
    <3>1. SourcesSaved(seen, {}, sources) /\ IndicatorsSaved(seen, {}, indicators)
      BY <1>2, <1>6, <2>3 DEF Progress
    <3>2. thread[t].store = "quality"
      BY <2>3, DataFacts, PlaceFacts
    <3>3. Fresh("quality", seen, stats, sources, indicators)
      BY <3>1 DEF Fresh
    <3> QED
      BY <1>3, <2>3, <3>2, <3>3 DEF Progress
  <2> QED
    BY <1>2, <2>1, <2>2, <2>3 DEF Parts
<1> QED
  BY <1>2, <1>3, <1>4, <1>5, <1>6, CopyingSound

\* A save that fails is not sound, and leaves the other store's as it is.
LEMMA SaveFailsSound ==
  ASSUME DataInv, SoundInv, NEW t \in Threads, SaveFails(t)
  PROVE  SoundInv'
<1>1. /\ UNCHANGED <<stats, sources, indicators, file>>
      /\ sound' = [sound EXCEPT ![thread[t].store] = FALSE]
      /\ thread[t].at \in SaveSteps \cup {"open"}
  BY DEF SaveFails, memory, SaveSteps
<1>2. Moved(t, "idle", "none", "none", Empty, {}, Nothing)
  BY DataFacts, SaveEndsMoves
<1>3. thread[t].store \in Store
  BY <1>1, SaverFacts
<1> SUFFICES ASSUME NEW s2 \in Store, sound'[s2]
             PROVE  SoundSave(s2, thread', file'[s2], stats', sources', indicators')
  BY DEF SoundInv
<1>4. s2 # thread[t].store /\ sound[s2]
  BY <1>1, <1>3 DEF DataInv
<1>5. (\A u \in Threads \ {t} : thread'[u] = thread[u]) /\ thread'[t].store = "none"
  BY <1>2 DEF Moved
<1> QED
  BY <1>1, <1>4, <1>5, SaveOfOther

\* What a sound save writes is all there is.
LEMMA WriteSound ==
  ASSUME DataInv, SoundInv, NEW t \in Threads, Write(t)
  PROVE  SoundInv'
<1> DEFINE s == thread[t].store
           seen == thread[t].seen
<1>1. /\ UNCHANGED <<stats, sources, indicators, sound>> /\ thread[t].at = "write"
      /\ \/ file' = [file EXCEPT ![s] = {seen}]
         \/ ~sound[s] /\ file' = [file EXCEPT ![s] = Torn]
  BY DEF Write, memory
<1>2. Moved(t, "idle", "none", "none", Empty, {}, Nothing)
  BY DataFacts, SaveEndsMoves
<1>3. s \in Store /\ thread[t].at \in SaveSteps
  BY <1>1, SaverFacts DEF SaveSteps
<1>4. /\ \A u \in Threads \ {t} : thread'[u] = thread[u]
      /\ thread'[t].at = "idle" /\ thread'[t].store = "none"
  BY <1>2 DEF Moved
<1> SUFFICES ASSUME NEW s2 \in Store, sound'[s2]
             PROVE  SoundSave(s2, thread', file'[s2], stats', sources', indicators')
  BY DEF SoundInv
<1>5. CASE s2 # s
  <2>1. sound[s2] /\ file'[s2] = file[s2]
    BY <1>1, <1>3, <1>5 DEF DataInv, FilesOk
  <2> QED
    BY <1>1, <1>4, <1>5, <2>1, SaveOfOther
<1>6. CASE s2 = s
  <2>1. file'[s] = {seen} /\ sound[s]
    BY <1>1, <1>3, <1>6 DEF DataInv, FilesOk
  <2>2. SoundSave(s, thread, file[s], stats, sources, indicators) /\ Saves(s, thread[t])
    BY <1>3, <2>1 DEF SoundInv, Saves
  <2>3. \A u \in Threads : ~Saves(s, thread'[u])
    BY <1>3, <1>4, <2>2 DEF SoundSave, Saves, Store
  <2>4. ASSUME Quiet(s, thread') PROVE Fresh(s, seen, stats, sources, indicators)
    <3>1. ~Pending(s, thread[t])
      BY <1>1 DEF Pending, Counting
    <3>2. Quiet(s, thread)
      BY <1>4, <2>4, <3>1 DEF Quiet
    <3>3. Progress(thread[t], stats, sources, indicators)
      BY <2>2, <3>2 DEF SoundSave
    <3> QED
      BY <1>1, <3>3 DEF Progress
  <2> HIDE DEF s, seen
  <2>5. SoundSave(s, thread', file'[s], stats, sources, indicators)
    BY <2>1, <2>3, <2>4 DEF SoundSave
  <2> QED
    BY <1>1, <1>6, <2>5
<1> QED
  BY <1>5, <1>6

\* After a start the files that could be read are what there is.
LEMMA RestartSound ==
  ASSUME DataInv, SoundInv, Restart
  PROVE  SoundInv'
<1>1. PICK f, g :
        /\ Read("feedback", f) /\ Read("quality", g)
        /\ CopyOk("feedback", f, sources) /\ CopyOk("quality", g, sources)
        /\ stats' = f.stats /\ sources' = g.sources /\ indicators' = g.indicators
  BY RestartReads
<1>2. /\ file' = file /\ sound' = [s \in Store |-> file[s] # Torn]
      /\ \A t \in Threads : thread'[t] = Idle
  BY DEF Restart
<1> SUFFICES ASSUME NEW s \in Store, sound'[s]
             PROVE  SoundSave(s, thread', file'[s], stats', sources', indicators')
  BY DEF SoundInv
<1>3. \A t \in Threads : ~Saves(s, thread'[t])
  BY <1>2, IdleFacts DEF Saves, Store
<1>4. file[s] # Torn
  BY <1>2
<1>5. \E h \in file[s] : Fresh(s, h, stats', sources', indicators')
  <2>1. CASE s = "feedback"
    BY <1>1, <1>4, <2>1 DEF Read, Fresh
  <2>2. CASE s = "quality"
    <3>1. g \in file[s]
      BY <1>1, <1>4, <2>2 DEF Read
    <3>2. Fresh(s, g, stats', sources', indicators')
      BY <1>1, <2>2 DEF Fresh, SourcesSaved, IndicatorsSaved
    <3> QED
      BY <3>1, <3>2
  <2> QED
    BY <2>1, <2>2 DEF Store
<1> QED
  BY <1>2, <1>3, <1>5 DEF SoundSave

\* At first the files have nothing, which is all there is.
LEMMA InitSoundInv ==
  Init => SoundInv
<1> SUFFICES ASSUME Init, NEW s \in Store
             PROVE  SoundSave(s, thread, file[s], stats, sources, indicators)
  BY DEF SoundInv
<1>1. \A t \in Threads : ~Saves(s, thread[t])
  BY IdleFacts DEF Init, Saves, Store
<1>2. Nothing \in file[s] /\ Fresh(s, Nothing, stats, sources, indicators)
  BY DEF Init, Nothing, Parts, Empty, Fresh, SourcesSaved, IndicatorsSaved
<1> QED
  BY <1>1, <1>2 DEF SoundSave

\* Every step keeps the saves sound.
LEMMA NextKeepsSound ==
  DataInv /\ SoundInv /\ [Next]_vars => SoundInv'
<1> SUFFICES ASSUME DataInv, SoundInv, [Next]_vars PROVE SoundInv'
  OBVIOUS
<1>1. CASE UNCHANGED vars
  BY <1>1 DEF vars, memory, bounds, SoundInv
<1>2. ASSUME NEW t \in Threads, CountTotal(t) \/ CountVerdict(t) \/ Rate(t) \/ MarkIndicator(t)
      PROVE  SoundInv'
  BY <1>2, CountSound, RateSound
<1>3. ASSUME NEW t \in Threads,
             OpenFile(t) \/ CopyRecord(t) \/ CopyReliability(t) \/ CopyNext(t) \/ SaveFails(t) \/ Write(t)
      PROVE  SoundInv'
  BY <1>3, OpenFileSound, CopyRecordSound, CopyReliabilitySound, CopyNextSound, SaveFailsSound, WriteSound
<1>4. ASSUME NEW t \in Threads, NEW threat \in Threats, Judge(t, threat) PROVE SoundInv'
  BY <1>4, JudgeSound
<1>5. ASSUME NEW threat \in Threats, Ingest(threat[1]) PROVE SoundInv'
  BY <1>5, IngestSound
<1> QED
  BY <1>1, <1>2, <1>3, <1>4, <1>5, RetireStaleSound, RestartSound DEF Next

\* Once nobody counts or saves, the file of a sound save has every verdict.
LEMMA SoundIsComplete ==
  SoundInv => SoundSaveIsComplete
<1> SUFFICES ASSUME SoundInv, NEW s \in Store, sound[s], Nobody(s)
             PROVE  \E f \in file[s] : Fresh(s, f, stats, sources, indicators)
  <2>1. ASSUME NEW s \in Store, NEW f, Fresh(s, f, stats, sources, indicators)
        PROVE  /\ s = "feedback" => f.stats = stats
               /\ s = "quality" =>
                    /\ \A id \in DOMAIN sources : sources[id].total > 0 =>
                         id \in DOMAIN f.sources /\ f.sources[id] = sources[id]
                    /\ \A key \in DOMAIN indicators :
                         LET i == indicators[key] IN i.tp + i.fp > 0 =>
                           /\ key \in DOMAIN f.indicators
                           /\ f.indicators[key].tp = i.tp /\ f.indicators[key].fp = i.fp
    BY <2>1 DEF Fresh, SourcesSaved, IndicatorsSaved
  <2> QED
    BY <2>1 DEF SoundSaveIsComplete
<1>1. Quiet(s, thread) /\ \A t \in Threads : ~Saves(s, thread[t])
  BY DEF Nobody, Quiet, Pending, Saves
<1> QED
  BY <1>1 DEF SoundInv, SoundSave

\* The inductive invariant of the saves.
LearningInv == DataInv /\ SoundInv

\* In every reachable state the counters and their copies are in order, one
\* thread has a store's lock, and a sound save has copied what it says.
THEOREM LearningInvariance == Spec => []LearningInv
<1>1. Init => LearningInv
  BY InitDataInv, InitSoundInv DEF LearningInv
<1>2. LearningInv /\ [Next]_vars => LearningInv'
  BY NextKeepsData, NextKeepsSound DEF LearningInv
<1> QED
  BY <1>1, <1>2, PTL DEF Spec

\* A file whose last save ran by itself and did not fail has every verdict
\* once nobody counts or saves, whatever was judged, torn or restarted before.
THEOREM SoundSavesAreComplete == Spec => []SoundSaveIsComplete
<1>1. LearningInv => SoundSaveIsComplete
  BY SoundIsComplete DEF LearningInv
<1> QED
  BY <1>1, LearningInvariance, PTL

-----------------------------------------------------------------------------
(* Verdicts move sources the way they say *)

\* Where no verdict is under way, the reliability fits the counters, unless
\* the record was read torn.
RatedOrTorn ==
  \A id \in DOMAIN sources \ torn : (\E t \in Threads : Rating(t, id)) \/ Whole(sources[id])

\* A source that is to be rated was whole before the verdict was counted.
Judged(src, verdict) == \E old : SourceOk(old) /\ Whole(old) /\ src = CountSource(old, verdict)

JudgedOk(r, so, tn) == r.at = "rate" => r.key \in tn \/ Judged(so[r.key], r.verdict)

WholeInv == RatedOrTorn /\ \A t \in Threads : JudgedOk(thread[t], sources, torn)

\* A verdict rates what was whole so that it is whole, and moves it to its side.
LEMMA RatingMoves ==
  ASSUME MinSamples > 0, NEW verdict, NEW src, Judged(src, verdict)
  PROVE  /\ Whole(Rated(src)) /\ src.reliability \in Int
         /\ src.total > MinSamples =>
              IF verdict = "TRUE_POSITIVE" THEN Rated(src).reliability >= src.reliability
                                           ELSE Rated(src).reliability <= src.reliability
<1>1. PICK old : SourceOk(old) /\ Whole(old) /\ src = CountSource(old, verdict)
  BY DEF Judged
<1>2. src.reliability = old.reliability
  BY <1>1, VerdictCounts
<1>3. old.ema \in Nat /\ Max({1000, 10000 - old.ema}) = Complement(old.ema)
  BY <1>1, MaxIsComplement DEF SourceOk
<1>4. old.reliability \in Int
  <2>1. Complement(old.ema) \in Int
    BY <1>3 DEF Complement
  <2>2. old.reliability = IF old.total >= MinSamples THEN Complement(old.ema) ELSE 8000
    BY <1>1, <1>3 DEF Whole
  <2> QED
    BY <2>1, <2>2
<1> QED
  BY <1>1, <1>2, <1>4, VerdictMoves

\* The threads that rate hold the lock of the store.
LEMMA RaterHolds ==
  ASSUME DataInv, NEW t \in Threads, thread[t].at = "rate"
  PROVE  Holds(thread[t], "quality") /\ Locked("quality")
<1>1. Holds(thread[t], "quality")
  BY CountedHolds
<1> QED
  BY <1>1 DEF Holds, Locked

\* Nothing is torn, and nothing rated, by a step that leaves the sources.
LEMMA SourcesStay ==
  ASSUME WholeInv, UNCHANGED <<sources, torn>>,
         \A u \in Threads : thread'[u] = thread[u] \/ (thread[u].at # "rate" /\ thread'[u].at # "rate")
  PROVE  WholeInv'
<1>1. \A u \in Threads : JudgedOk(thread'[u], sources, torn)
  BY DEF WholeInv, JudgedOk
<1>2. \A u \in Threads : \A id : (Rating(u, id) <=> Rating(u, id)')
  BY DEF Rating
<1>3. RatedOrTorn'
  BY <1>2 DEF RatedOrTorn, WholeInv
<1> QED
  BY <1>1, <1>3 DEF WholeInv

\* A verdict that is counted is to be rated.
LEMMA RecordVerdictWhole ==
  ASSUME MinSamples > 0, DataInv, WholeInv, NEW t \in Threads, NEW a, NEW verdict,
         RecordVerdict(t, a, verdict), torn' = torn
  PROVE  WholeInv'
<1> DEFINE id == a.source
           old == SourceOf(id)
           new == CountSource(old, verdict)
           todo == IndicatorKeys(a) \cap DOMAIN indicators
<1>1. Moved(t, "rate", "quality", verdict, id, todo, Nothing)
  BY DataFacts, RecordVerdictMoves
<1>2. ~Locked("quality") /\ sources' = With(sources, id, new)
  BY DEF RecordVerdict
<1>3. \A u \in Threads : thread[u].at # "rate"
  BY <1>2, RaterHolds
<1>4. \A k \in DOMAIN sources \ torn : Whole(sources[k])
  BY <1>3 DEF WholeInv, RatedOrTorn, Rating
<1>5. SourceOk(old) /\ (id \notin torn => Whole(old))
  BY <1>4, KnownOrNew, NewRecordsOk DEF DataInv, MemoryOk, SourceOf
<1>6. /\ \A u \in Threads \ {t} : thread'[u] = thread[u]
      /\ thread'[t].at = "rate" /\ thread'[t].key = id /\ thread'[t].verdict = verdict
  BY <1>1 DEF Moved
<1> HIDE DEF old, id
<1>7. id \in torn \/ Judged(new, verdict)
  BY <1>5 DEF Judged
<1> HIDE DEF new
<1>8. /\ DOMAIN sources' = DOMAIN sources \cup {id} /\ sources'[id] = new
      /\ \A k \in DOMAIN sources \ {id} : sources'[k] = sources[k]
  BY <1>2 DEF With
<1>9. \A u \in Threads : JudgedOk(thread'[u], sources', torn')
  BY <1>3, <1>6, <1>7, <1>8 DEF JudgedOk
<1>10. RatedOrTorn'
  <2> SUFFICES ASSUME NEW k \in DOMAIN sources', k \notin torn
               PROVE  (\E u \in Threads : Rating(u, k)') \/ Whole(sources'[k])
    BY DEF RatedOrTorn
  <2>1. CASE k = id
    BY <1>6, <2>1 DEF Rating
  <2>2. CASE k # id
    BY <1>4, <1>8, <2>2
  <2> QED
    BY <2>1, <2>2
<1> QED
  BY <1>9, <1>10 DEF WholeInv

\* A source is rated as its verdict says.
LEMMA RateWhole ==
  ASSUME MinSamples > 0, DataInv, WholeInv, NEW t \in Threads, Rate(t)
  PROVE  /\ WholeInv' /\ torn' \subseteq torn
         /\ LET id == thread[t].key IN
            (id \notin torn /\ sources[id].total > MinSamples) =>
              IF thread[t].verdict = "TRUE_POSITIVE"
              THEN sources'[id].reliability >= sources[id].reliability
              ELSE sources'[id].reliability <= sources[id].reliability
<1> DEFINE id == thread[t].key
           at == IF thread[t].todo = {} THEN "open" ELSE "mark"
<1>1. Moved(t, at, thread[t].store, thread[t].verdict, id, thread[t].todo, thread[t].seen)
  BY DataFacts, RateMoves
<1>2. /\ Holds(thread[t], "quality") /\ id \in DOMAIN sources
      /\ DOMAIN sources' = DOMAIN sources
      /\ sources'[id] = Rated(sources[id])
      /\ \A k \in DOMAIN sources \ {id} : sources'[k] = sources[k]
  BY RateChanges
<1>3. thread[t].at = "rate" /\ torn' = {k \in torn : ~Whole(sources'[k])}
  BY DEF Rate
<1>4. \A u \in Threads \ {t} : ~Holds(thread[u], "quality")
  BY <1>2, LockIsMine DEF Store
<1>5. \A u \in Threads \ {t} : thread[u].at # "rate"
  BY <1>4, RaterHolds
<1>6. /\ \A u \in Threads \ {t} : thread'[u] = thread[u]
      /\ thread'[t].at # "rate"
  BY <1>1 DEF Moved
<1>7. \A u \in Threads : JudgedOk(thread'[u], sources', torn')
  BY <1>5, <1>6 DEF JudgedOk
<1>8. id \in torn \/ Judged(sources[id], thread[t].verdict)
  BY <1>3 DEF WholeInv, JudgedOk
<1> HIDE DEF id
<1>9. RatedOrTorn'
  <2> SUFFICES ASSUME NEW k \in DOMAIN sources', k \notin torn'
               PROVE  Whole(sources'[k])
    BY DEF RatedOrTorn
  <2>1. CASE k \in torn
    BY <1>3, <2>1
  <2>2. CASE k \notin torn /\ k # id
    <3>1. \A u \in Threads : ~Rating(u, k)
      BY <1>5, <2>2 DEF Rating, id
    <3> QED
      BY <1>2, <2>2, <3>1 DEF WholeInv, RatedOrTorn
  <2>3. CASE k \notin torn /\ k = id
    BY <1>2, <1>8, <2>3, RatingMoves
  <2> QED
    BY <2>1, <2>2, <2>3
<1>10. ASSUME id \notin torn, sources[id].total > MinSamples
       PROVE  IF thread[t].verdict = "TRUE_POSITIVE"
              THEN sources'[id].reliability >= sources[id].reliability
              ELSE sources'[id].reliability <= sources[id].reliability
  BY <1>2, <1>8, <1>10, RatingMoves
<1> QED
  BY <1>3, <1>7, <1>9, <1>10 DEF WholeInv, id

\* A new alert leaves known sources as they are.
LEMMA IngestWhole ==
  ASSUME MinSamples > 0, DataInv, WholeInv, NEW a, Ingest(a)
  PROVE  WholeInv'
<1> DEFINE id == a.source
           new == SourceOf(id)
<1>1. /\ ~Locked("quality") /\ sources' = With(sources, id, new) /\ UNCHANGED <<thread, torn>>
  BY DEF Ingest
<1>2. \A u \in Threads : thread[u].at # "rate"
  BY <1>1, RaterHolds
<1>3. \A k \in DOMAIN sources \ torn : Whole(sources[k])
  BY <1>2 DEF WholeInv, RatedOrTorn, Rating
<1>4. id \notin torn => Whole(new)
  BY <1>3, NewRecordsOk DEF SourceOf
<1> HIDE DEF new, id
<1>5. \A k \in DOMAIN sources' \ torn : Whole(sources'[k])
  BY <1>1, <1>3, <1>4 DEF With
<1> QED
  BY <1>1, <1>2, <1>5 DEF WholeInv, RatedOrTorn, JudgedOk

\* The steps that rate nothing and tear nothing.
LEMMA OthersWhole ==
  ASSUME DataInv, NEW t \in Threads,
         \/ CountTotal(t) \/ CountVerdict(t) \/ MarkIndicator(t) \/ OpenFile(t) \/ CopyRecord(t)
         \/ CopyReliability(t) \/ CopyNext(t) \/ SaveFails(t) \/ Write(t)
  PROVE  /\ UNCHANGED <<sources, torn>>
         /\ \A u \in Threads : thread'[u] = thread[u] \/ (thread[u].at # "rate" /\ thread'[u].at # "rate")
<1>1. CASE CountTotal(t)
  BY <1>1, DataFacts, CountTotalMoves DEF CountTotal, Moved
<1>2. CASE CountVerdict(t)
  BY <1>2, DataFacts, CountVerdictMoves DEF CountVerdict, Moved
<1>3. CASE MarkIndicator(t)
  BY <1>3, DataFacts, MarkIndicatorMoves DEF MarkIndicator, Moved
<1>4. CASE OpenFile(t)
  <2>1. UNCHANGED <<sources, torn>> /\ thread[t].at = "open"
    BY <1>4 DEF OpenFile, memory
  <2> QED
    BY <1>4, <2>1, DataFacts, OpenFileMoves DEF Moved
<1>5. CASE CopyRecord(t)
  <2>1. UNCHANGED <<sources, torn>> /\ thread[t].at \in Parts
    BY <1>5 DEF CopyRecord, memory
  <2>2. DOMAIN thread[t].seen = Parts
    BY DataFacts, CopyParts DEF Store
  <2>3. thread'[t].at \in Parts \cup {"reliability"} /\ \A u \in Threads \ {t} : thread'[u] = thread[u]
    BY <1>5, <2>1, <2>2, DataFacts, CopyRecordMoves DEF Moved
  <2> QED
    BY <2>1, <2>3 DEF Parts
<1>6. CASE CopyReliability(t)
  BY <1>6, DataFacts, CopyReliabilityMoves DEF CopyReliability, Moved, memory
<1>7. CASE CopyNext(t)
  <2>1. UNCHANGED <<sources, torn>> /\ thread[t].at \in Parts
    BY <1>7 DEF CopyNext, memory
  <2>2. thread'[t].at \in {"indicators", "write"} /\ \A u \in Threads \ {t} : thread'[u] = thread[u]
    BY <1>7, DataFacts, CopyNextMoves DEF Moved
  <2> QED
    BY <2>1, <2>2 DEF Parts
<1>8. CASE SaveFails(t) \/ Write(t)
  <2>1. UNCHANGED <<sources, torn>> /\ thread[t].at \in Parts \cup {"open", "write"}
    BY <1>8 DEF SaveFails, Write, memory
  <2>2. thread'[t].at = "idle" /\ \A u \in Threads \ {t} : thread'[u] = thread[u]
    BY <1>8, DataFacts, SaveEndsMoves DEF Moved
  <2> QED
    BY <2>1, <2>2 DEF Parts
<1> QED
  BY <1>1, <1>2, <1>3, <1>4, <1>5, <1>6, <1>7, <1>8

\* What a start reads torn is torn; after a sound save, with nobody judging
\* or saving, nothing is that was not before.
LEMMA RestartWhole ==
  ASSUME DataInv, SoundInv, WholeInv, Restart
  PROVE  /\ WholeInv'
         /\ \A t \in Threads : thread'[t].at = "idle"
         /\ (sound["quality"] /\ Nobody("quality")) => torn' \subseteq torn
<1>1. PICK f, g :
        /\ Read("feedback", f) /\ Read("quality", g)
        /\ CopyOk("feedback", f, sources) /\ CopyOk("quality", g, sources)
        /\ stats' = f.stats /\ sources' = g.sources /\ indicators' = g.indicators
  BY RestartReads
<1>2. torn' = {id \in DOMAIN sources' : ~Whole(sources'[id])} /\ \A t \in Threads : thread'[t].at = "idle"
  BY IdleFacts DEF Restart
<1>3. WholeInv'
  BY <1>2 DEF WholeInv, RatedOrTorn, JudgedOk
<1>4. ASSUME sound["quality"], Nobody("quality"), NEW id \in torn'
      PROVE  id \in torn
  <2>1. id \in DOMAIN g.sources /\ ~Whole(g.sources[id])
    BY <1>1, <1>2
  <2>2. Quiet("quality", thread) /\ \A t \in Threads : ~Saves("quality", thread[t])
    BY <1>4 DEF Nobody, Quiet, Pending, Saves
  <2>3. PICK h \in file["quality"] : Fresh("quality", h, stats, sources, indicators)
    BY <1>4, <2>2 DEF SoundInv, SoundSave, Store
  <2>4. g \in file["quality"]
    BY <1>1, <2>3 DEF Read, Torn
  <2>5. h = g
    BY <2>3, <2>4 DEF DataInv, FilesOk, Store
  <2>6. id \in DOMAIN sources /\ (sources[id].total = 0 => g.sources[id] = sources[id])
    BY <1>1, <2>1, CopyParts DEF Earlier
  <2>7. sources[id].total > 0 => g.sources[id] = sources[id]
    BY <2>3, <2>5, <2>6 DEF Fresh, SourcesSaved
  <2>8. sources[id].total \in Nat
    BY <2>6 DEF DataInv, MemoryOk, SourcesOk, SourceOk
  <2>9. ~Whole(sources[id])
    BY <2>1, <2>6, <2>7, <2>8
  <2>10. \A t \in Threads : ~Rating(t, id)
    BY <1>4, DataFacts, PlaceFacts DEF Rating, Nobody
  <2> QED
    BY <2>6, <2>9, <2>10 DEF WholeInv, RatedOrTorn
<1> QED
  BY <1>2, <1>3, <1>4

\* What one step may do to the reliability of a source.
StepMoves ==
  /\ \A id \in DOMAIN sources' \ torn' : (\E t \in Threads : Rating(t, id)') \/ Whole(sources'[id])
  /\ \A id \in (DOMAIN sources \cap DOMAIN sources') \ torn, t \in Threads :
       (Rating(t, id) /\ thread'[t].at # "idle" /\ sources[id].total > MinSamples) =>
         IF thread[t].verdict = "TRUE_POSITIVE"
         THEN sources'[id].reliability >= sources[id].reliability
         ELSE sources'[id].reliability <= sources[id].reliability
  /\ (sound["quality"] /\ Nobody("quality")) => torn' \subseteq torn

\* A step that changes no source that is known moves none.
LEMMA StayMoves ==
  ASSUME MinSamples > 0, DataInv, WholeInv, WholeInv', torn' \subseteq torn,
         \A id \in DOMAIN sources : \/ id \in DOMAIN sources' /\ sources'[id] = sources[id]
                                    \/ \A t \in Threads : ~Rating(t, id)
  PROVE  StepMoves
<1>1. \A id \in DOMAIN sources' \ torn' : (\E t \in Threads : Rating(t, id)') \/ Whole(sources'[id])
  BY DEF WholeInv, RatedOrTorn
<1>2. ASSUME NEW id \in (DOMAIN sources \cap DOMAIN sources') \ torn, NEW t \in Threads, Rating(t, id)
      PROVE  /\ sources'[id].reliability >= sources[id].reliability
             /\ sources'[id].reliability <= sources[id].reliability
  <2>1. sources'[id] = sources[id]
    BY <1>2
  <2>2. Judged(sources[id], thread[t].verdict)
    BY <1>2 DEF WholeInv, JudgedOk, Rating
  <2>3. sources[id].reliability \in Int
    BY <2>2, RatingMoves
  <2> QED
    BY <2>1, <2>3
<1> QED
  BY <1>1, <1>2 DEF StepMoves

\* Every step keeps what is rated whole, and moves sources as it may.
LEMMA NextMoves ==
  ASSUME MinSamples > 0, DataInv, SoundInv, WholeInv, [Next]_vars
  PROVE  WholeInv' /\ StepMoves
<1>1. ASSUME UNCHANGED <<sources, torn>>,
             \A u \in Threads : thread'[u] = thread[u] \/ (thread[u].at # "rate" /\ thread'[u].at # "rate")
      PROVE  WholeInv' /\ StepMoves
  BY <1>1, SourcesStay, StayMoves
<1>2. CASE UNCHANGED vars
  BY <1>1, <1>2 DEF vars, memory
<1>3. ASSUME NEW t \in Threads, NEW threat, Judge(t, threat) PROVE WholeInv' /\ StepMoves
  <2>1. thread[t].at = "idle" /\ torn' = torn
    BY <1>3 DEF Judge
  <2>2. ASSUME NEW verdict, RecordFeedback(t, threat, verdict) PROVE WholeInv' /\ StepMoves
    <3>1. Moved(t, "count", "feedback", verdict, Empty, Visits(threat), Nothing)
      BY <2>2, DataFacts, RecordFeedbackMoves
    <3>2. sources' = sources
      BY <2>2 DEF RecordFeedback, memory
    <3> QED
      BY <1>1, <2>1, <3>1, <3>2 DEF Moved
  <2>3. ASSUME NEW verdict, RecordVerdict(t, threat[1], verdict) PROVE WholeInv' /\ StepMoves
    <3>1. WholeInv'
      BY <2>1, <2>3, RecordVerdictWhole
    <3>2. \A u \in Threads : thread[u].at # "rate"
      BY <2>3, RaterHolds DEF RecordVerdict
    <3> QED
      BY <2>1, <3>1, <3>2, StayMoves DEF Rating
  <2>4. (\E verdict \in Verdict : RecordFeedback(t, threat, verdict))
        \/ (\E verdict \in {"TRUE_POSITIVE", "FALSE_POSITIVE"} : RecordVerdict(t, threat[1], verdict))
    BY <1>3 DEF Judge
  <2> QED
    BY <2>2, <2>3, <2>4
<1>4. ASSUME NEW t \in Threads, Rate(t) PROVE WholeInv' /\ StepMoves
  <2>1. WholeInv' /\ torn' \subseteq torn
    BY <1>4, RateWhole
  <2>2. ASSUME NEW id \in (DOMAIN sources \cap DOMAIN sources') \ torn, NEW u \in Threads,
               Rating(u, id), sources[id].total > MinSamples
        PROVE  IF thread[u].verdict = "TRUE_POSITIVE"
               THEN sources'[id].reliability >= sources[id].reliability
               ELSE sources'[id].reliability <= sources[id].reliability
    <3>1. Holds(thread[t], "quality") /\ Holds(thread[u], "quality")
      BY <1>4, <2>2, RateChanges, RaterHolds DEF Rating
    <3>2. u = t /\ id = thread[t].key
      BY <2>2, <3>1, LockIsMine DEF Store, Rating
    <3> QED
      BY <1>4, <2>2, <3>2, RateWhole
  <2> QED
    BY <2>1, <2>2 DEF StepMoves, WholeInv, RatedOrTorn
<1>5. ASSUME NEW a, Ingest(a) PROVE WholeInv' /\ StepMoves
  <2>1. WholeInv' /\ torn' = torn
    BY <1>5, IngestWhole DEF Ingest
  <2>2. \A t \in Threads : thread[t].at # "rate"
    BY <1>5, RaterHolds DEF Ingest
  <2> QED
    BY <2>1, <2>2, StayMoves DEF Rating
<1>6. CASE RetireStale
  BY <1>1, <1>6, RetireChanges DEF RetireStale
<1>7. CASE Restart
  <2>1. /\ WholeInv' /\ \A t \in Threads : thread'[t].at = "idle"
        /\ (sound["quality"] /\ Nobody("quality")) => torn' \subseteq torn
    BY <1>7, RestartWhole
  <2> QED
    BY <2>1 DEF StepMoves, WholeInv, RatedOrTorn
<1>8. ASSUME NEW t \in Threads,
             \/ CountTotal(t) \/ CountVerdict(t) \/ MarkIndicator(t) \/ OpenFile(t) \/ CopyRecord(t)
             \/ CopyReliability(t) \/ CopyNext(t) \/ SaveFails(t) \/ Write(t)
      PROVE  WholeInv' /\ StepMoves
  BY <1>1, <1>8, OthersWhole
<1> QED
  BY <1>2, <1>3, <1>4, <1>5, <1>6, <1>7, <1>8 DEF Next

\* At first there is no source.
LEMMA InitWholeInv ==
  Init => WholeInv
  BY IdleFacts DEF Init, WholeInv, RatedOrTorn, JudgedOk, Empty

\* With a threshold of at least one sample: where no verdict is under way the
\* reliability of a source fits its counters, unless its record was read torn
\* and not rated since; a verdict moves a rated source the way it says; and a
\* start tears nothing after a sound save, with nobody judging or saving.
THEOREM VerdictsMoveSources ==
  ASSUME MinSamples > 0
  PROVE  Spec => VerdictsMoveReliability
<1>1. Init => LearningInv /\ WholeInv
  BY InitDataInv, InitSoundInv, InitWholeInv DEF LearningInv
<1>2. LearningInv /\ WholeInv /\ [Next]_vars => (LearningInv /\ WholeInv)' /\ StepMoves
  BY NextKeepsData, NextKeepsSound, NextMoves DEF LearningInv
<1>3. StepMoves =>
        /\ \A id \in DOMAIN sources' \ torn' :
             (\E t \in Threads : Rating(t, id)') \/ Whole(sources'[id])
        /\ \A id \in (DOMAIN sources \cap DOMAIN sources') \ torn, t \in Threads :
             (Rating(t, id) /\ thread'[t].at # "idle" /\ sources[id].total > MinSamples) =>
               IF thread[t].verdict = "TRUE_POSITIVE"
               THEN sources'[id].reliability >= sources[id].reliability
               ELSE sources'[id].reliability <= sources[id].reliability
        /\ (sound["quality"] /\ Nobody("quality")) => torn' \subseteq torn
  BY DEF StepMoves
<1> QED
  BY <1>1, <1>2, <1>3, PTL DEF Spec, VerdictsMoveReliability

-----------------------------------------------------------------------------
(* Finite sets, their extremes and sums over them *)

\* A set of natural numbers that has 0, and with a number the next, has them all.
LEMMA InductiveSet ==
  ASSUME NEW S \in SUBSET Nat, 0 \in S, \A n \in S : n + 1 \in S
  PROVE  S = Nat
<1> SUFFICES ASSUME Nat \ S # {} PROVE FALSE
    OBVIOUS
<1> DEFINE T == Nat \ S
<1>1. PICK n \in T : \A m \in T : ~(<<m, n>> \in OpToRel(<, Nat))
    BY NatLessThanWellFounded, WFMin
<1>2. n - 1 \in Nat /\ n - 1 < n /\ (n - 1) + 1 = n
    OBVIOUS
<1>3. n - 1 \notin T
    BY <1>1, <1>2 DEF OpToRel
<1> QED  BY <1>2, <1>3

\* Without one of n + 1 elements there are n.
LEMMA OneLess ==
  ASSUME NEW s, IsFiniteSet(s), NEW n \in Nat, Cardinality(s) = n + 1, NEW x \in s
  PROVE  Cardinality(s \ {x}) = n
<1>1. Cardinality(s \ {x}) = Cardinality(s) - 1
    BY FS_RemoveElement
<1> QED  BY <1>1

\* A finite set of numbers that is not empty has a largest.
LEMMA MaxFacts ==
  ASSUME NEW S, S \subseteq Int, IsFiniteSet(S), S # {}
  PROVE  Max(S) \in S /\ \A y \in S : y <= Max(S)
<1> DEFINE Good(s) == s # {} => \E x \in s : \A y \in s : y <= x
           P(n) == \A s \in SUBSET S : Cardinality(s) = n => Good(s)
           T == {n \in Nat : P(n)}
<1>1. 0 \in T
  <2> SUFFICES ASSUME NEW s \in SUBSET S, Cardinality(s) = 0 PROVE s = {}
      OBVIOUS
  <2> QED  BY FS_Subset, FS_EmptySet
<1>2. ASSUME NEW n \in T PROVE n + 1 \in T
  <2>0. n \in Nat /\ n + 1 \in Nat /\ P(n)
      OBVIOUS
  <2> SUFFICES ASSUME NEW s \in SUBSET S, Cardinality(s) = n + 1, NEW e \in s
               PROVE  \E x \in s : \A y \in s : y <= x
      BY <2>0
  <2>1. s \ {e} \in SUBSET S /\ Cardinality(s \ {e}) = n
      BY <2>0, FS_Subset, OneLess
  <2>2. Good(s \ {e})
      BY <2>0, <2>1
  <2>3. CASE s \ {e} = {}
      BY <2>3
  <2>4. CASE s \ {e} # {}
    <3>1. PICK x \in s \ {e} : \A y \in s \ {e} : y <= x
        BY <2>2, <2>4
    <3>2. CASE e <= x
        BY <3>1, <3>2
    <3>3. CASE ~(e <= x)
      <4>1. \A y \in s : y <= e
          BY <3>1, <3>3
      <4> QED  BY <4>1
    <3> QED  BY <3>2, <3>3
  <2> QED  BY <2>3, <2>4
<1> HIDE DEF T
<1>3. T = Nat
  <2>1. T \in SUBSET Nat
      BY DEF T
  <2> QED  BY <1>1, <1>2, <2>1, InductiveSet
<1>4. Cardinality(S) \in T
    BY <1>3, FS_CardinalityType
<1>5. PICK x \in S : \A y \in S : y <= x
    BY <1>4 DEF T
<1>6. \E z \in S : \A y \in S : z >= y
    BY <1>5
<1>7. Max(S) \in S /\ \A y \in S : Max(S) >= y
    BY <1>6 DEF Max
<1> QED  BY <1>7

\* And a smallest.
LEMMA MinFacts ==
  ASSUME NEW S, S \subseteq Int, IsFiniteSet(S), S # {}
  PROVE  Min(S) \in S /\ \A y \in S : Min(S) <= y
<1> DEFINE negate == [x \in S |-> 0 - x]
           T == {negate[x] : x \in S}
<1>1. T \subseteq Int /\ T # {}
  <2>1. \A x \in S : negate[x] \in Int
      OBVIOUS
  <2> QED  BY <2>1
<1>2. IsFiniteSet(T)
  <2>1. negate \in Surjection(S, T)
      BY DEF Surjection
  <2> QED  BY <2>1, FS_Surjection
<1>3. Max(T) \in T /\ \A y \in T : y <= Max(T)
    BY <1>1, <1>2, MaxFacts
<1>4. PICK x \in S : Max(T) = 0 - x
    BY <1>3
<1>5. \A y \in S : x <= y
  <2> SUFFICES ASSUME NEW y \in S PROVE x <= y
      OBVIOUS
  <2>1. 0 - y \in T
      OBVIOUS
  <2>2. 0 - y <= 0 - x
      BY <1>3, <1>4, <2>1
  <2> QED  BY <2>2
<1> QED  BY <1>5 DEF Min

\* g has, for each subset of S, the sum of v over it.
SumsOf(S, v, g) ==
  g = [s \in SUBSET S |-> IF s = {} THEN 0
                          ELSE v[CHOOSE x \in s : TRUE] + g[s \ {CHOOSE x \in s : TRUE}]]

\* Such a function exists.
LEMMA SumsExist ==
  ASSUME NEW S, IsFiniteSet(S), NEW v \in [S -> Int]
  PROVE  \E g : SumsOf(S, v, g)
<1> DEFINE pick(s) == CHOOSE x \in s : TRUE
           body(s, g) == IF s = {} THEN 0 ELSE v[pick(s)] + g[s \ {pick(s)}]
           T == {n \in Nat : \E g \in [SUBSET S -> Int] :
                   \A s \in SUBSET S : Cardinality(s) <= n => g[s] = body(s, g)}
<1>1. 0 \in T
  <2> DEFINE g == [s \in SUBSET S |-> 0]
  <2>1. ASSUME NEW s \in SUBSET S, Cardinality(s) <= 0 PROVE g[s] = body(s, g)
    <3>1. IsFiniteSet(s)
        BY FS_Subset
    <3>2. Cardinality(s) = 0
        BY <2>1, <3>1, FS_CardinalityType
    <3>3. s = {}
        BY <3>1, <3>2, FS_EmptySet
    <3> QED  BY <3>3
  <2>2. g \in [SUBSET S -> Int]
      OBVIOUS
  <2> HIDE DEF g, body
  <2> QED  BY <2>1, <2>2
<1>2. ASSUME NEW n \in T PROVE n + 1 \in T
  <2>1. PICK g \in [SUBSET S -> Int] :
               \A s \in SUBSET S : Cardinality(s) <= n => g[s] = body(s, g)
      OBVIOUS
  <2> DEFINE h == [s \in SUBSET S |-> body(s, g)]
  <2>2. \A s \in SUBSET S : s # {} => pick(s) \in s /\ s \ {pick(s)} \in SUBSET S
      OBVIOUS
  <2>3. h \in [SUBSET S -> Int]
      BY <2>2
  <2>4. ASSUME NEW s \in SUBSET S, Cardinality(s) <= n + 1 PROVE h[s] = body(s, h)
    <3>1. CASE s = {}
        BY <3>1
    <3>2. CASE s # {}
      <4> DEFINE r == s \ {pick(s)}
      <4>1. pick(s) \in s /\ r \in SUBSET S
          BY <3>2, <2>2
      <4>2. IsFiniteSet(s) /\ Cardinality(s) \in Nat /\ Cardinality(r) = Cardinality(s) - 1
          BY <4>1, FS_Subset, FS_RemoveElement, FS_CardinalityType
      <4>3. Cardinality(r) <= n
          BY <4>2, <2>4
      <4>4. h[r] = body(r, g) /\ g[r] = body(r, g)
          BY <4>1, <4>3, <2>1
      <4>5. h[s] = v[pick(s)] + g[r]
          BY <3>2
      <4> QED  BY <3>2, <4>4, <4>5
    <3> QED  BY <3>1, <3>2
  <2>5. n + 1 \in Nat
      OBVIOUS
  <2> HIDE DEF h, body
  <2> QED  BY <2>3, <2>4, <2>5
<1> HIDE DEF T
<1>3. Cardinality(S) \in T
  <2>1. T \in SUBSET Nat
      BY DEF T
  <2>2. T = Nat
      BY <1>1, <1>2, <2>1, InductiveSet
  <2> QED  BY <2>2, FS_CardinalityType
<1>4. PICK g \in [SUBSET S -> Int] :
             \A s \in SUBSET S : Cardinality(s) <= Cardinality(S) => g[s] = body(s, g)
    BY <1>3 DEF T
<1>5. \A s \in SUBSET S : g[s] = body(s, g)
    BY <1>4, FS_Subset
<1>6. SumsOf(S, v, g)
    BY <1>5 DEF SumsOf
<1> QED  BY <1>6

\* Sums of values that are between two multiples of positive ones.
LEMMA SumsBetween ==
  ASSUME NEW S, IsFiniteSet(S), NEW v \in [S -> Int], NEW w \in [S -> Int],
         NEW lo \in Int, NEW hi \in Int,
         \A x \in S : 0 < w[x] /\ lo * w[x] <= v[x] /\ v[x] <= hi * w[x],
         NEW g, SumsOf(S, v, g), NEW h, SumsOf(S, w, h)
  PROVE  /\ g[S] \in Int /\ h[S] \in Nat
         /\ S # {} => h[S] > 0
         /\ lo * h[S] <= g[S] /\ g[S] <= hi * h[S]
<1> DEFINE Good(s) == /\ g[s] \in Int /\ h[s] \in Nat
                      /\ s # {} => h[s] > 0
                      /\ lo * h[s] <= g[s] /\ g[s] <= hi * h[s]
           T == {n \in Nat : \A s \in SUBSET S : Cardinality(s) = n => Good(s)}
<1>1. 0 \in T
  <2>1. ASSUME NEW s \in SUBSET S, Cardinality(s) = 0 PROVE Good(s)
    <3>1. s = {}
      BY <2>1, FS_Subset, FS_EmptySet
    <3>2. g[s] = 0 /\ h[s] = 0
      BY <3>1 DEF SumsOf
    <3> QED
      BY <3>1, <3>2
  <2> QED
    BY <2>1
<1>2. ASSUME NEW n \in T PROVE n + 1 \in T
  <2>1. ASSUME NEW s \in SUBSET S, Cardinality(s) = n + 1 PROVE Good(s)
    <3> DEFINE x == CHOOSE x \in s : TRUE
               r == s \ {x}
    <3>1. n \in Nat /\ IsFiniteSet(s) /\ s # {}
      BY <2>1, FS_Subset, FS_EmptySet
    <3>2. x \in s /\ r \in SUBSET S
      BY <3>1
    <3>3. Cardinality(r) = n
      BY <2>1, <3>1, <3>2, OneLess
    <3>4. /\ g[r] \in Int /\ h[r] \in Nat
          /\ lo * h[r] <= g[r] /\ g[r] <= hi * h[r]
      BY <3>2, <3>3
    <3>5. g[s] = v[x] + g[r] /\ h[s] = w[x] + h[r]
      BY <3>1 DEF SumsOf
    <3>6. /\ v[x] \in Int /\ w[x] \in Int /\ 0 < w[x]
          /\ lo * w[x] <= v[x] /\ v[x] <= hi * w[x]
      BY <3>2
    <3> DEFINE vx == v[x]
               wx == w[x]
               gr == g[r]
               hr == h[r]
    <3>7. /\ vx \in Int /\ wx \in Int /\ gr \in Int /\ hr \in Nat /\ 0 < wx
          /\ lo * wx <= vx /\ vx <= hi * wx /\ lo * hr <= gr /\ gr <= hi * hr
          /\ g[s] = vx + gr /\ h[s] = wx + hr
      BY <3>4, <3>5, <3>6
    <3> HIDE DEF vx, wx, gr, hr, x, r
    <3>8. lo * (wx + hr) = lo * wx + lo * hr /\ hi * (wx + hr) = hi * wx + hi * hr
      BY <3>7
    <3> QED
      BY <3>7, <3>8
  <2> QED
    BY <2>1
<1> HIDE DEF T
<1>3. Cardinality(S) \in T
  <2>1. T \in SUBSET Nat
    BY DEF T
  <2>2. T = Nat
    BY <1>1, <1>2, <2>1, InductiveSet
  <2> QED
    BY <2>2, FS_CardinalityType
<1> QED
  BY <1>3 DEF T

-----------------------------------------------------------------------------
(* Arithmetic of the blend *)

\* The lesser of two integers.
LEMMA MinOfTwo ==
  ASSUME NEW x \in Int, NEW y \in Int
  PROVE  Min({x, y}) = IF x <= y THEN x ELSE y
<1>1. \E m \in {x, y} : \A n \in {x, y} : m <= n
  OBVIOUS
<1> QED
  BY <1>1 DEF Min

\* A larger factor gives a larger product.
LEMMA ProductGrows ==
  ASSUME NEW n \in Nat, NEW x \in Int, NEW y \in Int, x <= y
  PROVE  n * x <= n * y
<1>1. n * (y - x) \in Nat
  OBVIOUS
<1>2. n * (y - x) = n * y - n * x
  OBVIOUS
<1> QED
  BY <1>1, <1>2

\* A mean is between the bounds of what it is the mean of.
LEMMA MeanBetween ==
  ASSUME NEW a \in Int, NEW n \in Nat, n > 0, NEW lo \in Int, NEW hi \in Int,
         lo * n <= a, a <= hi * n
  PROVE  a \div n \in Int /\ lo <= a \div n /\ a \div n <= hi
<1> DEFINE q == a \div n
<1>1. q \in Int /\ n * q <= a /\ a < n * q + n
  OBVIOUS
<1> HIDE DEF q
<1>2. lo <= q
  <2> SUFFICES ASSUME q + 1 <= lo PROVE FALSE
    BY <1>1
  <2>1. n * (q + 1) <= n * lo
    BY <1>1, ProductGrows
  <2>2. n * (q + 1) = n * q + n /\ n * lo = lo * n
    BY <1>1
  <2>3. n * q \in Int /\ n * lo \in Int
    BY <1>1
  <2> QED
    BY <1>1, <2>1, <2>2, <2>3
<1>3. q <= hi
  <2> SUFFICES ASSUME hi + 1 <= q PROVE FALSE
    BY <1>1
  <2>1. n * (hi + 1) <= n * q
    BY <1>1, ProductGrows
  <2>2. n * (hi + 1) = n * hi + n /\ n * hi = hi * n
    BY <1>1
  <2>3. n * q \in Int /\ n * hi \in Int
    BY <1>1
  <2> QED
    BY <1>1, <2>1, <2>2, <2>3
<1> QED
  BY <1>1, <1>2, <1>3 DEF q

\* The blend of two probabilities, as AdjustedFp has it.
Blended(start, b, mean) == Min({MaxFp, ((1000 - b) * start + b * mean) \div 1000})

\* No further from start than the learning rate of the way to lo and hi.
InReach(new, start, lo, hi) ==
  /\ 1000 * (new - start) <= LearningRate * (hi - start)
  /\ 1000 * (new - start) >= LearningRate * (lo - start) - 2000

\* It is within the learning rate of the way from the first.
LEMMA BlendBetween ==
  ASSUME NEW start \in Int, start <= MaxFp, NEW b \in Nat, b <= LearningRate,
         NEW mean \in Int, NEW lo \in Int, NEW hi \in Int,
         lo <= start, start <= hi, lo <= mean, mean <= hi,
         NEW new, new = Blended(start, b, mean)
  PROVE  InReach(new, start, lo, hi)
<1> DEFINE move == b * (mean - start)
           x == ((1000 - b) * start + b * mean) \div 1000
           up == hi - start
           down == start - lo
           rate == LearningRate
<1>1. b \in Nat /\ rate \in Nat /\ b <= rate /\ rate = LearningRate /\ MaxFp = 950
  BY LearningAssumption DEF MaxFp
<1> HIDE DEF rate
<1>2. up \in Nat /\ down \in Nat /\ mean - start \in Int /\ mean - start <= up /\ 0 - down <= mean - start
  OBVIOUS
<1>3. move <= b * up /\ b * (0 - down) <= move
  BY <1>1, <1>2, ProductGrows
<1>4. b * up <= rate * up
  <2>1. up * b <= up * rate
    BY <1>1, <1>2, ProductGrows
  <2> QED
    BY <1>1, <1>2, <2>1
<1>5. b * (0 - down) >= 0 - rate * down
  <2>1. down * b <= down * rate
    BY <1>1, <1>2, ProductGrows
  <2>2. b * (0 - down) = 0 - down * b
    BY <1>1, <1>2
  <2> QED
    BY <1>1, <1>2, <2>1, <2>2
<1>6. (1000 - b) * start + b * mean = 1000 * start + move /\ move \in Int
  BY <1>1
<1> HIDE DEF move
<1>7. x = (1000 * start + move) \div 1000
  BY <1>6
<1>8. x \in Int /\ 1000 * x <= 1000 * start + move /\ 1000 * start + move < 1000 * x + 1000
  BY <1>6, <1>7
<1>9. new = Min({MaxFp, x})
  BY DEF Blended
<1> HIDE DEF x
<1>10. new = IF MaxFp <= x THEN MaxFp ELSE x
  BY <1>1, <1>8, <1>9, MinOfTwo
<1>11. up = hi - start /\ down = start - lo
  OBVIOUS
<1> DEFINE bu == b * up
           bd == b * (0 - down)
<1>12. bu \in Int /\ bd \in Int /\ move <= bu /\ bd <= move /\ bu <= rate * up /\ bd >= 0 - rate * down
  BY <1>1, <1>2, <1>3, <1>4, <1>5
<1> HIDE DEF bu, bd, up, down
<1> QED
  BY <1>1, <1>2, <1>6, <1>8, <1>10, <1>11, <1>12 DEF InReach
-----------------------------------------------------------------------------
(* What is learned for a threat *)

\* A threat is a list that ends.
LEMMA ThreatEnds ==
  ASSUME NEW threat \in Threats
  PROVE  IsFiniteSet(DOMAIN threat) /\ IsFiniteSet(ToSet(threat)) /\ ToSet(threat) # {}
<1>1. Len(threat) \in Nat /\ Len(threat) # 0 /\ DOMAIN threat = 1 .. Len(threat)
  BY LearningAssumption
<1> DEFINE one == 1
           n == Len(threat)
           D == one .. n
<1>2. D = DOMAIN threat /\ one \in Int /\ n \in Int /\ one \in D
  BY <1>1
<1> HIDE DEF one, n
<1>3. IsFiniteSet(D)
  BY <1>2, FS_Interval
<1> HIDE DEF D
<1>4. IsFiniteSet(DOMAIN threat)
  BY <1>2, <1>3
<1>5. ToSet(threat) = {threat[i] : i \in DOMAIN threat}
  BY DEF ToSet
<1> DEFINE f == [i \in DOMAIN threat |-> threat[i]]
<1>6. f \in Surjection(DOMAIN threat, ToSet(threat))
  BY <1>5 DEF Surjection
<1> QED
  BY <1>2, <1>4, <1>5, <1>6, FS_Surjection

\* A weight is positive where there are enough verdicts, and a rate is a number.
LEMMA WeightPositive ==
  ASSUME NEW n \in Nat, n >= EnoughVerdicts
  PROVE  ConfidenceWeight(n) \in Nat /\ ConfidenceWeight(n) > 0
<1> DEFINE table == <<0, 49, 95, 139, 181, 221, 259, 295, 330, 362, 393, 423, 451>>
           twelve == 12
           m == Min({n, twelve})
<1>1. \A i \in 4 .. 13 : table[i] \in Nat /\ table[i] > 0
  OBVIOUS
<1>2. ConfidenceWeight(n) = table[m + 1]
  BY DEF ConfidenceWeight
<1> HIDE DEF table
<1>3. m + 1 \in 4 .. 13
  <2>1. twelve \in Int /\ twelve = 12 /\ n \in Int /\ n >= 3
    BY DEF EnoughVerdicts
  <2> HIDE DEF twelve
  <2>2. m = IF n <= twelve THEN n ELSE twelve
    BY <2>1, MinOfTwo
  <2> HIDE DEF m
  <2> QED
    BY <2>1, <2>2
<1> HIDE DEF m
<1> QED
  BY <1>1, <1>2, <1>3

\* A threat has finitely many keys to count for.
LEMMA VisitsFinite ==
  ASSUME NEW threat \in Threats
  PROVE  IsFiniteSet(Visits(threat))
<1> DEFINE three == 3
           J == 1 .. three
           P == (DOMAIN threat) \X J
           f == [p \in P |-> <<3 * p[1] + p[2], StatKeys(threat[p[1]])[p[2]]>>]
           image == {f[p] : p \in P}
<1>1. IsFiniteSet(J)
  <2>1. three \in Int /\ 1 \in Int
    OBVIOUS
  <2> HIDE DEF three
  <2> QED
    BY <2>1, FS_Interval
<1>2. IsFiniteSet(P)
  <2> HIDE DEF J
  <2> QED
    BY <1>1, ThreatEnds, FS_Product
<1>3. f \in Surjection(P, image)
  BY DEF Surjection
<1>4. IsFiniteSet(image)
  <2> HIDE DEF P, f, image
  <2> QED
    BY <1>2, <1>3, FS_Surjection
<1>5. Visits(threat) \in SUBSET image
  <2>1. ASSUME NEW v \in Visits(threat)
        PROVE  v \in image
    <3>1. PICK i \in DOMAIN threat, j \in J : v = <<3 * i + j, StatKeys(threat[i])[j]>>
      BY DEF Visits
    <3>2. <<i, j>> \in P /\ f[<<i, j>>] = v
      BY <3>1
    <3> QED
      BY <3>2
  <2> QED
    BY <2>1
<1> HIDE DEF image
<1> QED
  BY <1>4, <1>5, FS_Subset

\* The keys that count are finitely many and have enough verdicts.
LEMMA LearnedFacts ==
  ASSUME StatsOk(stats), NEW threat \in Threats
  PROVE  /\ IsFiniteSet(LearnedKeys(threat))
         /\ \A k \in LearnedKeys(threat) :
              /\ ConfidenceWeight(stats[k[2]].total) \in Nat
              /\ ConfidenceWeight(stats[k[2]].total) > 0
              /\ FpRate(stats[k[2]]) \in Int
<1> DEFINE keys == LearnedKeys(threat)
<1>1. IsFiniteSet(keys)
  <2>1. keys \in SUBSET Visits(threat)
    BY DEF LearnedKeys
  <2> HIDE DEF keys
  <2> QED
    BY <2>1, VisitsFinite, FS_Subset
<1>2. ASSUME NEW k \in keys
      PROVE  k[2] \in DOMAIN stats /\ stats[k[2]].total >= EnoughVerdicts
  <2>1. StatOf(k[2]).total >= EnoughVerdicts
    BY DEF LearnedKeys
  <2>2. NoStats.total = 0 /\ EnoughVerdicts = 3
    BY DEF NoStats, EnoughVerdicts
  <2> QED
    BY <2>1, <2>2 DEF StatOf
<1>3. ASSUME NEW k \in keys
      PROVE  /\ ConfidenceWeight(stats[k[2]].total) \in Nat
             /\ ConfidenceWeight(stats[k[2]].total) > 0
             /\ FpRate(stats[k[2]]) \in Int
  <2> DEFINE s == stats[k[2]]
  <2>1. StatOk(s) /\ s.total >= EnoughVerdicts
    BY <1>2 DEF StatsOk
  <2>2. /\ s.fp \in Nat /\ s.benign \in Nat /\ s.total \in Nat /\ s.total > 0
    BY <2>1 DEF StatOk, EnoughVerdicts
  <2>3. FpRate(s) \in Int
    BY <2>2 DEF FpRate
  <2> QED
    BY <2>1, <2>2, <2>3, WeightPositive
<1> QED
  BY <1>1, <1>3

\* Whitelisted alerts have a sum, like anything counted by alert.
LEMMA WhitelistSum ==
  ASSUME NEW S, IsFiniteSet(S)
  PROVE  MapThenSumSet(WhitelistScore, S) \in Int
<1> DEFINE v == [a \in S |-> WhitelistScore(a)]
           w == [a \in S |-> 1]
           pick(s) == CHOOSE x \in s : TRUE
           I(h) == h = [s \in SUBSET S |-> IF s = {} THEN 0
                          ELSE WhitelistScore(pick(s)) + h[s \ {pick(s)}]]
           lo == 0
           hi == 600
<1>1. MapThenSumSet(WhitelistScore, S) = (CHOOSE h : I(h))[S]
  BY Zenon DEF MapThenSumSet, MapThenFoldSet
<1>2. v \in [S -> Int] /\ w \in [S -> Int]
  BY DEF WhitelistScore
<1>3. /\ \A x \in S : 0 < w[x] /\ lo * w[x] <= v[x] /\ v[x] <= hi * w[x]
      /\ lo \in Int /\ hi \in Int
  BY DEF WhitelistScore
<1>4. \A h : SumsOf(S, v, h) <=> I(h)
  <2> SUFFICES ASSUME NEW h PROVE SumsOf(S, v, h) <=> I(h)
    OBVIOUS
  <2> DEFINE left(s) == IF s = {} THEN 0 ELSE v[pick(s)] + h[s \ {pick(s)}]
             right(s) == IF s = {} THEN 0 ELSE WhitelistScore(pick(s)) + h[s \ {pick(s)}]
  <2>1. ASSUME NEW s \in SUBSET S PROVE left(s) = right(s)
    <3>1. s # {} => pick(s) \in S
      OBVIOUS
    <3> HIDE DEF pick
    <3> QED
      BY <3>1
  <2>2. [s \in SUBSET S |-> left(s)] = [s \in SUBSET S |-> right(s)]
    <3> HIDE DEF left, right
    <3> QED
      BY <2>1
  <2> QED
    BY <2>2, Zenon DEF SumsOf
<1> DEFINE total == CHOOSE h : I(h)
<1> HIDE DEF v, w, lo, hi, I
<1>5. SumsOf(S, v, total)
  <2>1. PICK g : SumsOf(S, v, g)
    BY <1>2, SumsExist
  <2>2. \E h : I(h)
    BY <1>4, <2>1
  <2> QED
    BY <1>4, <2>2
<1> HIDE DEF total
<1>6. PICK h : SumsOf(S, w, h)
  BY <1>2, SumsExist
<1>7. total[S] \in Int
  BY <1>2, <1>3, <1>5, <1>6, SumsBetween
<1> QED
  BY <1>1, <1>7 DEF total

\* The heuristic is a probability short of certainty.
LEMMA HeuristicFacts ==
  ASSUME NEW group, IsFiniteSet(group), NEW confidence
  PROVE  FpProbability(group, confidence) \in Int /\ FpProbability(group, confidence) <= MaxFp
<1> DEFINE sourceTypes == {a.sourceType : a \in group}
           worst == MaxSeverity(group)
           unreliable == MapThenSumSet(LAMBDA a : a.reliability, group)
                           < LowReliability * Cardinality(group)
           listed == MapThenSumSet(WhitelistScore, group)
           suspicion == (IF Cardinality(sourceTypes) = 1 THEN 200 ELSE 0)
                        + (IF unreliable THEN 250 ELSE 0)
                        + (IF worst \in {"INFO", "LOW"} THEN 250 ELSE 0)
                        + listed
                        + (IF confidence < 400 THEN 150 ELSE 0)
           corroborated == IF Cardinality(sourceTypes) >= MinSources
                           THEN Atleast0(suspicion - 200) ELSE suspicion
           severe == IF worst \in {"CRITICAL", "HIGH"} THEN Atleast0(corroborated - 100)
                                                       ELSE corroborated
<1>1. FpProbability(group, confidence) = Min({severe, MaxFp})
  BY Zenon DEF FpProbability
<1>2. listed \in Int
  BY WhitelistSum, Zenon
<1> HIDE DEF listed, unreliable
<1>3. suspicion \in Int
  BY <1>2
<1> HIDE DEF suspicion
<1>4. corroborated \in Int
  BY <1>3 DEF Atleast0
<1> HIDE DEF corroborated
<1>5. severe \in Int
  BY <1>4 DEF Atleast0
<1> HIDE DEF severe
<1>6. MaxFp \in Int
  BY DEF MaxFp
<1>7. Min({severe, MaxFp}) = IF severe <= MaxFp THEN severe ELSE MaxFp
  BY <1>5, <1>6, MinOfTwo
<1> QED
  BY <1>1, <1>5, <1>6, <1>7

\* The sums of AdjustedFp.
WeightOf(keys) == MapThenSumSet(LAMBDA k : ConfidenceWeight(stats[k[2]].total), keys)
LearnedOf(keys) ==
  MapThenSumSet(LAMBDA k : FpRate(stats[k[2]]) * ConfidenceWeight(stats[k[2]].total), keys)

\* The weights of what was learned have a sum, and their mean is between the
\* smallest and the greatest rate.
LEMMA MeanOfRates ==
  ASSUME StatsOk(stats), NEW threat \in Threats, LearnedKeys(threat) # {},
         NEW lo \in Int, NEW hi \in Int,
         \A k \in LearnedKeys(threat) : lo <= FpRate(stats[k[2]]) /\ FpRate(stats[k[2]]) <= hi
  PROVE  LET weight == WeightOf(LearnedKeys(threat))
             mean == LearnedOf(LearnedKeys(threat)) \div weight
         IN /\ weight \in Nat /\ weight > 0
            /\ mean \in Int /\ lo <= mean /\ mean <= hi
<1> DEFINE S == LearnedKeys(threat)
           cw(k) == ConfidenceWeight(stats[k[2]].total)
           rate(k) == FpRate(stats[k[2]])
           w == [k \in S |-> cw(k)]
           v == [k \in S |-> rate(k) * cw(k)]
           pick(s) == CHOOSE x \in s : TRUE
           W(h) == h = [s \in SUBSET S |-> IF s = {} THEN 0 ELSE cw(pick(s)) + h[s \ {pick(s)}]]
           V(h) == h = [s \in SUBSET S |-> IF s = {} THEN 0
                          ELSE rate(pick(s)) * cw(pick(s)) + h[s \ {pick(s)}]]
           weights == CHOOSE h : W(h)
           values == CHOOSE h : V(h)
           weight == WeightOf(S)
           learned == LearnedOf(S)
<1>1. weight = weights[S]
  BY Zenon DEF WeightOf, MapThenSumSet, MapThenFoldSet
<1>2. learned = values[S]
  BY Zenon DEF LearnedOf, MapThenSumSet, MapThenFoldSet
<1>3. /\ IsFiniteSet(S)
      /\ \A k \in S : cw(k) \in Nat /\ cw(k) > 0 /\ rate(k) \in Int
  BY LearnedFacts
<1>4. \A k \in S : lo <= rate(k) /\ rate(k) <= hi
  OBVIOUS
<1> HIDE DEF cw, rate, S
<1>5. w \in [S -> Int] /\ v \in [S -> Int]
  BY <1>3
<1>6. ASSUME NEW k \in S PROVE 0 < w[k] /\ lo * w[k] <= v[k] /\ v[k] <= hi * w[k]
  <2> DEFINE n == cw(k)
             r == rate(k)
  <2>1. w[k] = n /\ v[k] = r * n /\ n \in Nat /\ n > 0 /\ r \in Int /\ lo <= r /\ r <= hi
    BY <1>3, <1>4
  <2> HIDE DEF n, r, w, v
  <2>2. n * lo <= n * r /\ n * r <= n * hi
    BY <2>1, ProductGrows
  <2>3. n * lo = lo * n /\ n * r = r * n /\ n * hi = hi * n
    BY <2>1
  <2> QED
    BY <2>1, <2>2, <2>3
<1>7. \A h : SumsOf(S, w, h) <=> W(h)
  <2> SUFFICES ASSUME NEW h PROVE SumsOf(S, w, h) <=> W(h)
    OBVIOUS
  <2> DEFINE left(s) == IF s = {} THEN 0 ELSE w[pick(s)] + h[s \ {pick(s)}]
             right(s) == IF s = {} THEN 0 ELSE cw(pick(s)) + h[s \ {pick(s)}]
  <2>1. ASSUME NEW s \in SUBSET S PROVE left(s) = right(s)
    <3>1. s # {} => pick(s) \in S
      OBVIOUS
    <3> HIDE DEF pick
    <3> QED
      BY <3>1
  <2>2. [s \in SUBSET S |-> left(s)] = [s \in SUBSET S |-> right(s)]
    <3> HIDE DEF left, right
    <3> QED
      BY <2>1
  <2> QED
    BY <2>2, Zenon DEF SumsOf
<1>8. \A h : SumsOf(S, v, h) <=> V(h)
  <2> SUFFICES ASSUME NEW h PROVE SumsOf(S, v, h) <=> V(h)
    OBVIOUS
  <2> DEFINE left(s) == IF s = {} THEN 0 ELSE v[pick(s)] + h[s \ {pick(s)}]
             right(s) == IF s = {} THEN 0 ELSE rate(pick(s)) * cw(pick(s)) + h[s \ {pick(s)}]
  <2>1. ASSUME NEW s \in SUBSET S PROVE left(s) = right(s)
    <3>1. s # {} => pick(s) \in S
      OBVIOUS
    <3> HIDE DEF pick
    <3> QED
      BY <3>1
  <2>2. [s \in SUBSET S |-> left(s)] = [s \in SUBSET S |-> right(s)]
    <3> HIDE DEF left, right
    <3> QED
      BY <2>1
  <2> QED
    BY <2>2, Zenon DEF SumsOf
<1> HIDE DEF v, w, W, V
<1>9. SumsOf(S, w, weights)
  <2>1. PICK g : SumsOf(S, w, g)
    BY <1>3, <1>5, SumsExist
  <2>2. \E h : W(h)
    BY <1>7, <2>1
  <2> QED
    BY <1>7, <2>2
<1>10. SumsOf(S, v, values)
  <2>1. PICK g : SumsOf(S, v, g)
    BY <1>3, <1>5, SumsExist
  <2>2. \E h : V(h)
    BY <1>8, <2>1
  <2> QED
    BY <1>8, <2>2
<1>11. S # {}
  BY DEF S
<1> HIDE DEF weights, values
<1>12. /\ values[S] \in Int /\ weights[S] \in Nat /\ weights[S] > 0
       /\ lo * weights[S] <= values[S] /\ values[S] <= hi * weights[S]
  BY <1>3, <1>5, <1>6, <1>9, <1>10, <1>11, SumsBetween
<1> HIDE DEF weight, learned
<1>13. /\ weight \in Nat /\ weight > 0
       /\ learned \div weight \in Int
       /\ lo <= learned \div weight /\ learned \div weight <= hi
  <2> DEFINE n == weight
             a == learned
  <2>1. a \in Int /\ n \in Nat /\ n > 0 /\ lo * n <= a /\ a <= hi * n
    BY <1>1, <1>2, <1>12
  <2> HIDE DEF n, a
  <2>2. a \div n \in Int /\ lo <= a \div n /\ a \div n <= hi
    BY <2>1, MeanBetween
  <2> QED
    BY <2>1, <2>2 DEF n, a
<1> QED
  BY <1>13 DEF weight, learned, S

\* The part of the blend that is learned is no more than the learning rate.
LEMMA BlendIsCapped ==
  ASSUME NEW weight \in Nat, NEW n \in Nat, n > 0
  PROVE  Blend(weight, n) \in Nat /\ Blend(weight, n) <= LearningRate
<1> DEFINE q == weight \div n
<1>1. q \in Nat /\ LearningRate \in Nat
  BY LearningAssumption
<1>2. Blend(weight, n) = Min({LearningRate, q})
  BY DEF Blend
<1> HIDE DEF q
<1>3. Min({LearningRate, q}) = IF LearningRate <= q THEN LearningRate ELSE q
  BY <1>1, MinOfTwo
<1> QED
  BY <1>1, <1>2, <1>3

\* Counters in order move the heuristic no further than they may.
LEMMA ShiftIsBounded ==
  ASSUME StatsOk(stats)
  PROVE  LearnedShiftBounded
<1> SUFFICES
      ASSUME NEW threat \in Threats, NEW confidence \in {300, 700}
      PROVE  LET heuristic == FpProbability(ToSet(threat), confidence)
                 ends == {heuristic} \cup {FpRate(stats[k[2]]) : k \in LearnedKeys(threat)}
                 shift == AdjustedFp(threat, confidence) - heuristic
             IN /\ 1000 * shift <= LearningRate * (Max(ends) - heuristic)
                /\ 1000 * shift >= LearningRate * (Min(ends) - heuristic) - 2000
  BY DEF LearnedShiftBounded
<1> DEFINE heuristic == FpProbability(ToSet(threat), confidence)
           keys == LearnedKeys(threat)
           rate(k) == FpRate(stats[k[2]])
           rates == {rate(k) : k \in keys}
           ends == {heuristic} \cup rates
           new == AdjustedFp(threat, confidence)
           lo == Min(ends)
           hi == Max(ends)
           weight == WeightOf(keys)
           n == Cardinality(keys)
           blend == Blend(weight, n)
           mean == LearnedOf(keys) \div weight
<1>1. heuristic \in Int /\ heuristic <= MaxFp
  BY ThreatEnds, HeuristicFacts
<1>2. IsFiniteSet(keys) /\ \A k \in keys : rate(k) \in Int
  BY LearnedFacts
<1>3. new = IF keys = {} THEN heuristic ELSE Blended(heuristic, blend, mean)
  BY Zenon DEF AdjustedFp, Blended, WeightOf, LearnedOf
<1>4. ASSUME keys # {}, lo \in Int, hi \in Int, \A k \in keys : lo <= rate(k) /\ rate(k) <= hi
      PROVE  weight \in Nat /\ mean \in Int /\ lo <= mean /\ mean <= hi
  <2> HIDE DEF lo, hi
  <2>1. \A k \in LearnedKeys(threat) : lo <= FpRate(stats[k[2]]) /\ FpRate(stats[k[2]]) <= hi
    BY <1>4
  <2> QED
    BY <1>4, <2>1, MeanOfRates
<1> HIDE DEF heuristic, keys, rate, weight, new, mean
<1>5. ends \subseteq Int /\ ends # {} /\ heuristic \in ends /\ \A k \in keys : rate(k) \in ends
  BY <1>1, <1>2
<1>6. IsFiniteSet(ends)
  <2> DEFINE f == [k \in keys |-> rate(k)]
  <2>1. f \in Surjection(keys, rates)
    BY DEF Surjection
  <2> HIDE DEF f, rates
  <2>2. IsFiniteSet(rates)
    BY <1>2, <2>1, FS_Surjection
  <2> QED
    BY <2>2, FS_AddElement
<1>7. lo \in ends /\ \A y \in ends : lo <= y
  <2> HIDE DEF ends
  <2> QED
    BY <1>5, <1>6, MinFacts
<1>8. hi \in ends /\ \A y \in ends : y <= hi
  <2> HIDE DEF ends
  <2> QED
    BY <1>5, <1>6, MaxFacts
<1> HIDE DEF lo, hi
<1>9. /\ lo \in Int /\ hi \in Int /\ lo <= heuristic /\ heuristic <= hi
      /\ \A k \in keys : lo <= rate(k) /\ rate(k) <= hi
  BY <1>5, <1>7, <1>8
<1>10. CASE keys = {}
  <2>1. new = heuristic /\ ends = {heuristic}
    BY <1>3, <1>10
  <2>2. lo = heuristic /\ hi = heuristic
    BY <2>1, <1>7, <1>8
  <2>3. LearningRate * 0 = 0 /\ new - heuristic = 0 /\ hi - heuristic = 0 /\ lo - heuristic = 0
    BY <1>1, <2>1, <2>2, LearningAssumption
  <2>4. /\ 1000 * (new - heuristic) <= LearningRate * (hi - heuristic)
        /\ 1000 * (new - heuristic) >= LearningRate * (lo - heuristic) - 2000
    BY <2>3
  <2> QED
    BY <2>4 DEF lo, hi, ends, rates, rate, keys, heuristic, new
<1>11. CASE keys # {}
  <2>1. n \in Nat /\ n > 0
    BY <1>2, <1>11, FS_CardinalityType, FS_EmptySet
  <2>2. weight \in Nat /\ mean \in Int /\ lo <= mean /\ mean <= hi
    BY <1>4, <1>9, <1>11
  <2> HIDE DEF n, mean
  <2>3. blend \in Nat /\ blend <= LearningRate
    BY <2>1, <2>2, BlendIsCapped
  <2>4. new = Blended(heuristic, blend, mean)
    BY <1>3, <1>11
  <2> HIDE DEF blend
  <2>5. InReach(new, heuristic, lo, hi)
    BY <1>1, <1>9, <2>2, <2>3, <2>4, BlendBetween
  <2> QED
    BY <2>5 DEF InReach, lo, hi, ends, rates, rate, keys, heuristic, new
<1> QED
  BY <1>10, <1>11

\* FeedbackAwareFPFilter.compute_fp_probability: the probability is at most
\* the learning rate of the way from the heuristic to the most extreme rate
\* learned, also while a verdict is being counted, whatever was counted, saved,
\* torn and read again before.
THEOREM LearnedShiftIsBounded == Spec => []LearnedShiftBounded
<1>1. DataInv => LearnedShiftBounded
  BY ShiftIsBounded DEF DataInv, MemoryOk
<1> QED
  BY <1>1, DataInvariance, PTL
=============================================================================
