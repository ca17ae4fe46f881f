--------------------------- MODULE StreamingManager ---------------------------
(***************************************************************************)
(* StreamingIngestionManager of threaticap/ingestion/stream_consumer.py:   *)
(* on_message of StreamConsumer appends the message to a batch in memory,  *)
(* and the batch goes to the pipeline callback when it is full (on the     *)
(* consumer's thread) or old enough (on the flusher's thread).  Each       *)
(* worker process has one manager, one lock and one flusher thread.        *)
(***************************************************************************)
EXTENDS StreamConsumer, SequencesExt

CONSTANTS
  FlushSize,       \* batch_size of the manager
  CallbackRaises   \* may pipeline_callback raise

ASSUME ManagerAssumption == FlushSize \in Nat \ {0} /\ CallbackRaises \in BOOLEAN

VARIABLES
  pending,    \* _pending: what was accumulated
  lock,       \* which thread holds _lock: "free", "consumer" or "flusher"
  stage,      \* how far the holder is in _flush: "none", "copied" or "calling"
  inflight,   \* the local variable `batch` of _flush
  flusher,    \* the flusher thread: "off", "sleep" or "due"
  elapsed,    \* have flush_interval_seconds passed since _last_flush
  taken,      \* history: how often each worker appended each message
  processed,  \* history: how often it was in a batch the callback accepted
  lost        \* history: how often it was in a batch that was thrown away

managerVars == <<pending, lock, stage, inflight, flusher, elapsed>>
historyVars == <<taken, processed, lost>>
allVars == <<vars, managerVars, historyVars>>

Occurrences(m, s) == Cardinality({i \in DOMAIN s : s[i] = m})

\* The messages of s, counted for worker w in the history function h.
Credit(h, w, s) == [h EXCEPT ![w] = [m \in Id |-> @[m] + Occurrences(m, s)]]

\* What the process of w would lose if it ended now.
Held(w) == IF stage[w] = "calling" THEN inflight[w] \o pending[w] ELSE pending[w]

\* Types, and the lock's discipline: the holder of _lock is in _flush.
ManagerTypeOK ==
  /\ pending \in [Worker -> Seq(Id)]
  /\ lock \in [Worker -> {"free", "consumer", "flusher"}]
  /\ stage \in [Worker -> {"none", "copied", "calling"}]
  /\ inflight \in [Worker -> Seq(Id)]
  /\ flusher \in [Worker -> {"off", "sleep", "due"}]
  /\ elapsed \in [Worker -> BOOLEAN]
  /\ \A h \in {taken, processed, lost} : h \in [Worker -> [Id -> Nat]]
  /\ \A w \in Worker :
       /\ stage[w] = "none" <=> lock[w] = "free"
       /\ lock[w] = "consumer" => pc[w] = "callback"
       /\ flusher[w] = "off" <=> pc[w] \in {"down", "built"}

ManagerInit ==
  /\ Init
  /\ pending = [w \in Worker |-> <<>>]
  /\ lock = [w \in Worker |-> "free"]
  /\ stage = [w \in Worker |-> "none"]
  /\ inflight = [w \in Worker |-> <<>>]
  /\ flusher = [w \in Worker |-> "off"]
  /\ elapsed = [w \in Worker |-> FALSE]
  /\ taken = [w \in Worker |-> [m \in Id |-> 0]]
  /\ processed = [w \in Worker |-> [m \in Id |-> 0]]
  /\ lost = [w \in Worker |-> [m \in Id |-> 0]]

-----------------------------------------------------------------------------
\* The consumer's thread inside on_message.

\* Mutant: the batch is flushed one message late.
IsFullLate(s) == Len(s) > FlushSize

IsFull(s) == Len(s) >= FlushSize

\* Mutant: _handle_message does not take the lock.
LockNotTaken(w) == lock[w] # "consumer"

LockFree(w) == lock[w] = "free"

\* _handle_message on a batch that stays short: append and return.
Accumulate(w, m) ==
  /\ LockFree(w)
  /\ ~IsFull(Append(pending[w], m))
  /\ OnMessageReturns(w, m)
  /\ pending' = [pending EXCEPT ![w] = Append(@, m)]
  /\ taken' = [taken EXCEPT ![w][m] = @ + 1]
  /\ UNCHANGED <<lock, stage, inflight, flusher, elapsed, processed, lost>>

\* _handle_message on a batch that this message fills: append, keep the lock
\* and enter _flush, which copies the batch.
AccumulateFull(w, m) ==
  /\ LockFree(w)
  /\ pc[w] = "callback"
  /\ IsFirst(m, batch[w])
  /\ m \notin Poison
  /\ IsFull(Append(pending[w], m))
  /\ pending' = [pending EXCEPT ![w] = Append(@, m)]
  /\ inflight' = [inflight EXCEPT ![w] = Append(pending[w], m)]
  /\ lock' = [lock EXCEPT ![w] = "consumer"]
  /\ stage' = [stage EXCEPT ![w] = "copied"]
  /\ taken' = [taken EXCEPT ![w][m] = @ + 1]
  /\ UNCHANGED <<vars, flusher, elapsed, processed, lost>>

-----------------------------------------------------------------------------
\* _flush, by whichever thread holds the lock.

\* The batch is cleared and _last_flush set.
FlushClear(w) ==
  /\ stage[w] = "copied"
  /\ stage' = [stage EXCEPT ![w] = "calling"]
  /\ pending' = [pending EXCEPT ![w] = <<>>]
  /\ elapsed' = [elapsed EXCEPT ![w] = FALSE]
  /\ UNCHANGED <<vars, lock, inflight, flusher, historyVars>>

\* Mutant: _flush forgets to release the lock it was called with.
CallbackKeepsLock(w) ==
  /\ stage[w] = "calling"
  /\ processed' = Credit(processed, w, inflight[w])
  /\ stage' = [stage EXCEPT ![w] = "none"]
  /\ inflight' = [inflight EXCEPT ![w] = <<>>]
  /\ UNCHANGED <<lock, pending, elapsed, taken, lost>>

\* pipeline_callback accepts the batch, or raises: the exception is logged and
\* the batch is gone.
CallbackEnds(w) ==
  /\ stage[w] = "calling"
  /\ \/ processed' = Credit(processed, w, inflight[w]) /\ UNCHANGED lost
     \/ CallbackRaises /\ lost' = Credit(lost, w, inflight[w]) /\ UNCHANGED processed
  /\ stage' = [stage EXCEPT ![w] = "none"]
  /\ inflight' = [inflight EXCEPT ![w] = <<>>]
  /\ lock' = [lock EXCEPT ![w] = "free"]
  /\ UNCHANGED <<pending, elapsed, taken>>

\* On the consumer's thread _handle_message returns after it ...
ConsumerFlushEnds(w, m) ==
  /\ lock[w] = "consumer"
  /\ CallbackEnds(w)
  /\ OnMessageReturns(w, m)
  /\ UNCHANGED flusher

\* ... and the flusher's thread goes back to sleep.
FlusherFlushEnds(w) ==
  /\ lock[w] = "flusher"
  /\ CallbackEnds(w)
  /\ flusher' = [flusher EXCEPT ![w] = "sleep"]
  /\ UNCHANGED vars

-----------------------------------------------------------------------------
\* The flusher's thread, _flush_loop.

\* Time passes: the interval since _last_flush is over.
IntervalElapses(w) ==
  /\ flusher[w] # "off"
  /\ ~elapsed[w]
  /\ elapsed' = [elapsed EXCEPT ![w] = TRUE]
  /\ UNCHANGED <<vars, pending, lock, stage, inflight, flusher, historyVars>>

\* The flusher wakes up and reads _last_flush without the lock.
FlusherWakes(w) ==
  /\ flusher[w] = "sleep"
  /\ elapsed[w]
  /\ flusher' = [flusher EXCEPT ![w] = "due"]
  /\ UNCHANGED <<vars, pending, lock, stage, inflight, elapsed, historyVars>>

\* Mutant: the flusher, too, waits for a full batch.
FlushesOnlyFull(w) ==
  /\ flusher[w] = "due"
  /\ LockFree(w)
  /\ ~IsFull(pending[w])
  /\ flusher' = [flusher EXCEPT ![w] = "sleep"]
  /\ UNCHANGED <<vars, pending, inflight, lock, stage, elapsed, historyVars>>

\* It gets the lock and flushes whatever is there by now, old or not.
FlusherFlushes(w) ==
  /\ flusher[w] = "due"
  /\ LockFree(w)
  /\ IF pending[w] = <<>>
       THEN /\ flusher' = [flusher EXCEPT ![w] = "sleep"]
            /\ UNCHANGED <<inflight, lock, stage>>
       ELSE /\ inflight' = [inflight EXCEPT ![w] = pending[w]]
            /\ lock' = [lock EXCEPT ![w] = "flusher"]
            /\ stage' = [stage EXCEPT ![w] = "copied"]
            /\ UNCHANGED flusher
  /\ UNCHANGED <<vars, pending, elapsed, historyVars>>

-----------------------------------------------------------------------------
\* The process.

\* start(): the flusher's thread starts just before the consumer's loop.
Start(w) ==
  /\ ListPending(w)
  /\ flusher' = [flusher EXCEPT ![w] = "sleep"]
  /\ UNCHANGED <<pending, lock, stage, inflight, elapsed, historyVars>>

\* The process ends, in a crash or after stop(): the batch in memory and the
\* daemon flusher go with it, even in the middle of the callback.
Ends(w) ==
  /\ Exit(w) \/ Crash(w)
  /\ lost' = Credit(lost, w, Held(w))
  /\ pending' = [pending EXCEPT ![w] = <<>>]
  /\ lock' = [lock EXCEPT ![w] = "free"]
  /\ stage' = [stage EXCEPT ![w] = "none"]
  /\ inflight' = [inflight EXCEPT ![w] = <<>>]
  /\ flusher' = [flusher EXCEPT ![w] = "off"]
  /\ elapsed' = [elapsed EXCEPT ![w] = FALSE]
  /\ UNCHANGED <<taken, processed>>

\* The steps of StreamConsumer that do not touch the manager.
ConsumerOnly(w) ==
  /\ \/ \E e \in todo[w] :
          Claim(w, e) \/ DeadLetterAdd(w, e) \/ DeadLetterAck(w, e)
     \/ CheckLoop(w) \/ LeaveLoop(w) \/ ReadNew(w)
     \/ \E m \in batch[w] :
          BeginMessage(w, m) \/ OnMessageRaises(w, m) \/ Ack(w, m)
  /\ UNCHANGED <<managerVars, historyVars>>

ConsumerThread(w) ==
  \/ Start(w)
  \/ ConsumerOnly(w)
  \/ \E m \in batch[w] :
       Accumulate(w, m) \/ AccumulateFull(w, m) \/ ConsumerFlushEnds(w, m)
  \/ lock[w] = "consumer" /\ FlushClear(w)

FlusherThread(w) ==
  \/ FlusherWakes(w) \/ FlusherFlushes(w) \/ FlusherFlushEnds(w)
  \/ lock[w] = "flusher" /\ FlushClear(w)

Outside ==
  /\ \/ \E n \in Id : Publish(n)
     \/ \E w \in Worker : EnsureGroup(w) \/ RequestStop(w)
  /\ UNCHANGED <<managerVars, historyVars>>

ManagerNext ==
  \/ Outside
  \/ \E w \in Worker :
       ConsumerThread(w) \/ FlusherThread(w) \/ IntervalElapses(w) \/ Ends(w)

ManagerSpec == ManagerInit /\ [][ManagerNext]_allVars

\* Both threads are scheduled, the callback ends, and time passes.
ManagerFairSpec ==
  /\ ManagerSpec
  /\ \A w \in Worker : /\ WF_allVars(ConsumerThread(w))
                       /\ WF_allVars(FlusherThread(w))
                       /\ WF_allVars(IntervalElapses(w))

-----------------------------------------------------------------------------
\* Safety.

\* Every message _handle_message took is in exactly one place: still held by a
\* live process, in a batch the pipeline accepted, or in one that was thrown
\* away.  Two threads flush, and neither may lose an append of the other or
\* send a batch twice (_lock around _handle_message and _flush).
EveryAlertInOnePlace ==
  \A w \in Worker, m \in Id :
    taken[w][m] = processed[w][m] + lost[w][m] + Occurrences(m, Held(w))

\* The batch in memory never outgrows batch_size: a consumer that fills it waits
\* for the pipeline.  This, and not _queue_depth, is the back-pressure.
BatchIsBounded ==
  \A w \in Worker :
    /\ Len(pending[w]) <= FlushSize
    /\ Len(pending[w]) = FlushSize => lock[w] = "consumer"

\* "At-least-once delivery" seen from the pipeline: an acknowledged alert was
\* accepted by the pipeline, or is in the dead-letter stream, or expired, or is
\* at least still held by a live process.
NoAckedAlertLost ==
  \A m \in acked :
    \/ m \in dead
    \/ m <= trimmed
    \/ \E w \in Worker : processed[w][m] + Occurrences(m, Held(w)) > 0

-----------------------------------------------------------------------------
\* Liveness.

\* No alert waits forever in a batch that does not fill up: the flusher empties
\* it, however the consumer's thread and the flusher's compete for the lock.
AccumulatedIsFlushed ==
  \A w \in Worker : (pending[w] # <<>>) ~> (pending[w] = <<>>)

=============================================================================
