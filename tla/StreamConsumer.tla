---------------------------- MODULE StreamConsumer ----------------------------
(***************************************************************************)
(* The Redis stream of threaticap/ingestion/stream_consumer.py and the     *)
(* AlertStreamConsumer processes that read it through one consumer group.  *)
(*                                                                         *)
(* Messages are numbered in the order of their XADD, so a message is its   *)
(* stream id.  A reply of Redis is ordered by id and is represented by the *)
(* set of its entries; the code's loops take the smallest entry first.     *)
(* on_message is the callback of the consumer's user: StreamingManager     *)
(* gives it a body.                                                        *)
(*                                                                         *)
(* Every Redis call may fail in the two ways a network client sees: the    *)
(* command was not executed, or it was and the reply was lost.  MaxFaults  *)
(* bounds the crashes and failed calls of a behaviour.                     *)
(***************************************************************************)
EXTENDS Integers, FiniteSets

CONSTANTS
  Worker,         \* consumer_name of each AlertStreamConsumer process
  NoWorker,       \* owner of a message that is in no Pending Entry List
  MaxMessages,    \* bound: messages ever published
  Poison,         \* messages whose payload on_message always rejects
  MaxLen,         \* retention of the stream (XADD MAXLEN)
  BatchSize,      \* count of XREADGROUP
  PendingCount,   \* count of XPENDING
  MaxRetries,     \* deliveries after which a message is dead-lettered
  MaxQueueDepth,  \* back-pressure limit
  MaxFaults       \* bound: crashes and failed Redis calls

Id == 1 .. MaxMessages

ASSUME ConstantsAssumption ==
  /\ NoWorker \notin Worker
  /\ MaxMessages \in Nat
  /\ Poison \subseteq Id
  /\ MaxLen \in Nat
  /\ BatchSize \in Nat \ {0}
  /\ PendingCount \in Nat \ {0}
  /\ MaxRetries \in Nat
  /\ MaxQueueDepth \in Nat \ {0}
  /\ MaxFaults \in Nat

VARIABLES
  published,      \* messages 1 .. published were added
  trimmed,        \* messages 1 .. trimmed are no longer in the stream
  group,          \* does the consumer group exist
  lastDelivered,  \* the group's last-delivered-id
  owner,          \* the PEL: the worker a message is pending for, or NoWorker
  deliveries,     \* the PEL's delivery counter
  dead,           \* messages in the dead-letter stream
  pc,             \* where the thread of each worker is
  batch,          \* entries _process_messages has still to go through
  todo,           \* entries _process_pending has still to go through
  depth,          \* _queue_depth
  stop,           \* _stop_event
  handled,        \* history: messages on_message returned for
  acked,          \* history: messages removed from the PEL by XACK
  faults          \* crashes and failed calls so far

redisVars == <<published, trimmed, group, lastDelivered, owner, deliveries, dead>>
workerVars == <<pc, batch, todo, depth, stop>>
vars == <<redisVars, workerVars, handled, acked, faults>>

Entry == [id : Id, times : Nat]   \* what XPENDING says of a message

PcValue == {"down", "built", "recover", "dlAck", "poll", "reading",
            "next", "callback", "ack", "stopped"}

TypeOK ==
  /\ published \in 0 .. MaxMessages
  /\ trimmed \in 0 .. published
  /\ group \in BOOLEAN
  /\ lastDelivered \in 0 .. published
  /\ owner \in [Id -> Worker \cup {NoWorker}]
  /\ deliveries \in [Id -> Nat]
  /\ dead \subseteq Id
  /\ pc \in [Worker -> PcValue]
  /\ batch \in [Worker -> SUBSET Id]
  /\ todo \in [Worker -> SUBSET Entry]
  /\ depth \in [Worker -> Nat]
  /\ stop \in [Worker -> BOOLEAN]
  /\ handled \subseteq Id
  /\ acked \subseteq Id
  /\ faults \in 0 .. MaxFaults

Init ==
  /\ published = 0
  /\ trimmed = 0
  /\ group = FALSE
  /\ lastDelivered = 0
  /\ owner = [m \in Id |-> NoWorker]
  /\ deliveries = [m \in Id |-> 0]
  /\ dead = {}
  /\ pc = [w \in Worker |-> "down"]
  /\ batch = [w \in Worker |-> {}]
  /\ todo = [w \in Worker |-> {}]
  /\ depth = [w \in Worker |-> 0]
  /\ stop = [w \in Worker |-> FALSE]
  /\ handled = {}
  /\ acked = {}
  /\ faults = 0

-----------------------------------------------------------------------------
\* Helpers.

Fault == faults < MaxFaults /\ faults' = faults + 1
NoFault == UNCHANGED faults

Goto(w, l) == pc' = [pc EXCEPT ![w] = l]

IsFirst(m, S) == m \in S /\ \A k \in S : m <= k
Oldest(S, n) == {m \in S : Cardinality({k \in S : k < m}) < n}

InStream(m) == trimmed < m /\ m <= published

\* Where _process_messages returns to when `rest` is left of its entries.
AfterMessage(w, rest) ==
  IF rest # {} THEN "next" ELSE IF todo[w] # {} THEN "recover" ELSE "poll"

-----------------------------------------------------------------------------
\* AlertStreamProducer.

\* publish adds one message, publish_batch several in one MULTI/EXEC.  Each
\* XADD carries MAXLEN ~: Redis drops old entries when it likes, and keeps at
\* least MaxLen of them.
Publish(n) ==
  /\ published + n <= MaxMessages
  /\ published' = published + n
  /\ trimmed' \in trimmed .. MaxMessages
  /\ trimmed' > trimmed => trimmed' <= published' - MaxLen
  /\ UNCHANGED <<group, lastDelivered, owner, deliveries, dead,
                 workerVars, handled, acked, faults>>

-----------------------------------------------------------------------------
\* AlertStreamConsumer: construction and recovery.

\* Mutant: the group is created at "$", the stream's present end.
EnsureGroupAtEnd(w) ==
  /\ pc[w] = "down"
  /\ ~group
  /\ group' = TRUE
  /\ lastDelivered' = published
  /\ Goto(w, "built")
  /\ UNCHANGED <<published, trimmed, owner, deliveries, dead, batch, todo,
                 depth, stop, handled, acked, faults>>

\* _ensure_group: the group starts at id 0.  BUSYGROUP is fine, and any other
\* error is logged and ignored.
EnsureGroup(w) ==
  /\ pc[w] = "down"
  /\ \/ group' = TRUE /\ NoFault
     \/ group' = group /\ Fault
  /\ Goto(w, "built")
  /\ UNCHANGED <<published, trimmed, lastDelivered, owner, deliveries, dead,
                 batch, todo, depth, stop, handled, acked>>

\* Mutant: XPENDING without the consumername filter.
PendingOfAnyone(w) == {m \in Id : owner[m] # NoWorker}

Pending(w) == {m \in Id : owner[m] = w}

\* start(), first part: _process_pending asks for this worker's entries.  A
\* failed call (also NOGROUP) is logged, and the worker goes on to new messages.
ListPending(w) ==
  LET found == { [id |-> m, times |-> deliveries[m]] :
                   m \in Oldest(Pending(w), PendingCount) }
  IN /\ pc[w] = "built"
     /\ \/ /\ group
           /\ todo' = [todo EXCEPT ![w] = found]
           /\ Goto(w, IF found = {} THEN "poll" ELSE "recover")
           /\ NoFault
        \/ /\ ~group
           /\ Goto(w, "poll")
           /\ NoFault
           /\ UNCHANGED todo
        \/ /\ Fault
           /\ Goto(w, "poll")
           /\ UNCHANGED todo
     /\ UNCHANGED <<redisVars, batch, depth, stop, handled, acked>>

IsFirstEntry(e, S) == e \in S /\ \A f \in S : e.id <= f.id

\* Mutant: >= where the code has >.
TooOftenAlready(e) == e.times >= MaxRetries

TooOften(e) == e.times > MaxRetries

AfterEntry(w, e) == IF todo[w] = {e} THEN "poll" ELSE "recover"

Claimable(m) == owner[m] # NoWorker /\ InStream(m)

\* XCLAIM takes the message over and counts a delivery.  Redis drops an entry
\* whose message was trimmed, and its reply is empty.
ClaimInRedis(w, m) ==
  /\ owner' = [owner EXCEPT ![m] = IF Claimable(m) THEN w ELSE NoWorker]
  /\ deliveries' = [deliveries EXCEPT ![m] = IF Claimable(m) THEN @ + 1 ELSE @]

\* One round of _process_pending: claim the entry and process it.  An error
\* ends the whole loop, whatever entries are left.
Claim(w, e) ==
  /\ pc[w] = "recover"
  /\ IsFirstEntry(e, todo[w])
  /\ ~TooOften(e)
  /\ \/ /\ Claimable(e.id)
        /\ ClaimInRedis(w, e.id)
        /\ batch' = [batch EXCEPT ![w] = {e.id}]
        /\ todo' = [todo EXCEPT ![w] = @ \ {e}]
        /\ Goto(w, "next")
        /\ NoFault
     \/ /\ ~Claimable(e.id)
        /\ ClaimInRedis(w, e.id)
        /\ todo' = [todo EXCEPT ![w] = @ \ {e}]
        /\ Goto(w, AfterEntry(w, e))
        /\ NoFault
        /\ UNCHANGED batch
     \/ /\ Fault
        /\ ClaimInRedis(w, e.id) \/ UNCHANGED <<owner, deliveries>>
        /\ todo' = [todo EXCEPT ![w] = {}]
        /\ Goto(w, "poll")
        /\ UNCHANGED batch
  /\ UNCHANGED <<published, trimmed, group, lastDelivered, dead, depth, stop,
                 handled, acked>>

\* XACK of message m: it leaves the PEL.
AckInRedis(m) ==
  /\ owner' = [owner EXCEPT ![m] = NoWorker]
  /\ acked' = acked \cup {m}

\* The Redis side of an XACK that may fail before or after its effect.
TryAck(m) ==
  \/ AckInRedis(m) /\ NoFault
  \/ AckInRedis(m) /\ Fault
  \/ UNCHANGED <<owner, acked>> /\ Fault

\* Mutant: _dead_letter acknowledges before it copies.
AckBeforeCopy(w, e) ==
  /\ pc[w] = "recover"
  /\ IsFirstEntry(e, todo[w])
  /\ TooOften(e)
  /\ TryAck(e.id)
  /\ Goto(w, "dlAck")
  /\ UNCHANGED <<published, trimmed, group, lastDelivered, deliveries, dead,
                 batch, todo, depth, stop, handled>>

\* _dead_letter, XRANGE and XADD: copy the message if it still exists.  An
\* error is logged and leaves the entry pending, even if the copy was made.
DeadLetterAdd(w, e) ==
  /\ pc[w] = "recover"
  /\ IsFirstEntry(e, todo[w])
  /\ TooOften(e)
  /\ \/ /\ dead' = IF InStream(e.id) THEN dead \cup {e.id} ELSE dead
        /\ Goto(w, "dlAck")
        /\ NoFault
        /\ UNCHANGED todo
     \/ /\ Fault
        /\ \/ UNCHANGED dead
           \/ InStream(e.id) /\ dead' = dead \cup {e.id}
        /\ todo' = [todo EXCEPT ![w] = @ \ {e}]
        /\ Goto(w, AfterEntry(w, e))
  /\ UNCHANGED <<published, trimmed, group, lastDelivered, owner, deliveries,
                 batch, depth, stop, handled, acked>>

\* _dead_letter, XACK: settle the message in the main stream.
DeadLetterAck(w, e) ==
  /\ pc[w] = "dlAck"
  /\ IsFirstEntry(e, todo[w])
  /\ TryAck(e.id)
  /\ todo' = [todo EXCEPT ![w] = @ \ {e}]
  /\ Goto(w, AfterEntry(w, e))
  /\ UNCHANGED <<published, trimmed, group, lastDelivered, deliveries, dead,
                 batch, depth, stop, handled>>

-----------------------------------------------------------------------------
\* AlertStreamConsumer: the reading loop.

\* The loop's test and the back-pressure check.  The branch that pauses is not
\* an action: DepthIsInFlight shows that _queue_depth is 0 here.
CheckLoop(w) ==
  /\ pc[w] = "poll"
  /\ ~stop[w]
  /\ depth[w] < MaxQueueDepth
  /\ Goto(w, "reading")
  /\ UNCHANGED <<redisVars, batch, todo, depth, stop, handled, acked, faults>>

LeaveLoop(w) ==
  /\ pc[w] = "poll"
  /\ stop[w]
  /\ Goto(w, "stopped")
  /\ UNCHANGED <<redisVars, batch, todo, depth, stop, handled, acked, faults>>

\* What XREADGROUP ">" returns: the oldest messages still in the stream that
\* the group has not delivered to anyone.
NewMessages ==
  IF group THEN Oldest({m \in Id : m > lastDelivered /\ InStream(m)}, BatchSize)
           ELSE {}

\* XREADGROUP advances the cursor and makes the messages pending for w.
ReadInRedis(w, S) ==
  /\ lastDelivered' \in S /\ \A m \in S : m <= lastDelivered'
  /\ owner' = [m \in Id |-> IF m \in S THEN w ELSE owner[m]]
  /\ deliveries' = [m \in Id |-> IF m \in S THEN 1 ELSE deliveries[m]]

\* The loop's XREADGROUP.  Nothing new (a timeout), NOGROUP and failed calls
\* all lead back to the loop's test; when only the reply is lost, the messages
\* stay pending for w, which does not have them.
ReadNew(w) ==
  /\ pc[w] = "reading"
  /\ \/ /\ NewMessages # {}
        /\ ReadInRedis(w, NewMessages)
        /\ batch' = [batch EXCEPT ![w] = NewMessages]
        /\ Goto(w, "next")
        /\ NoFault
     \/ /\ NewMessages = {}
        /\ Goto(w, "poll")
        /\ NoFault
        /\ UNCHANGED <<lastDelivered, owner, deliveries, batch>>
     \/ /\ Fault
        /\ \/ UNCHANGED <<lastDelivered, owner, deliveries>>
           \/ NewMessages # {} /\ ReadInRedis(w, NewMessages)
        /\ Goto(w, "poll")
        /\ UNCHANGED batch
  /\ UNCHANGED <<published, trimmed, group, dead, todo, depth, stop, handled,
                 acked>>

-----------------------------------------------------------------------------
\* AlertStreamConsumer: _process_messages, one message at a time.

BeginMessage(w, m) ==
  /\ pc[w] = "next"
  /\ IsFirst(m, batch[w])
  /\ depth' = [depth EXCEPT ![w] = @ + 1]
  /\ Goto(w, "callback")
  /\ UNCHANGED <<redisVars, batch, todo, stop, handled, acked, faults>>

\* The `finally` clause, and on to the next message.
EndMessage(w, m) ==
  /\ batch' = [batch EXCEPT ![w] = @ \ {m}]
  /\ depth' = [depth EXCEPT ![w] = @ - 1]
  /\ Goto(w, AfterMessage(w, batch[w] \ {m}))

OnMessageReturns(w, m) ==
  /\ pc[w] = "callback"
  /\ IsFirst(m, batch[w])
  /\ m \notin Poison
  /\ handled' = handled \cup {m}
  /\ Goto(w, "ack")
  /\ UNCHANGED <<redisVars, batch, todo, depth, stop, acked, faults>>

\* Mutant: the XACK moved into the `finally` clause.
RaisesAndAcks(w, m) ==
  /\ pc[w] = "callback"
  /\ IsFirst(m, batch[w])
  /\ m \in Poison
  /\ AckInRedis(m)
  /\ EndMessage(w, m)
  /\ UNCHANGED <<published, trimmed, group, lastDelivered, deliveries, dead,
                 todo, stop, handled, faults>>

\* Mutant: the decrement of _queue_depth is not in a `finally` clause.
RaisesAndLeaksDepth(w, m) ==
  /\ pc[w] = "callback"
  /\ IsFirst(m, batch[w])
  /\ m \in Poison
  /\ batch' = [batch EXCEPT ![w] = @ \ {m}]
  /\ Goto(w, AfterMessage(w, batch[w] \ {m}))
  /\ UNCHANGED <<redisVars, depth, todo, stop, handled, acked, faults>>

\* Mutant: the error path decrements _queue_depth, and `finally` does so again.
RaisesAndCountsTwice(w, m) ==
  /\ pc[w] = "callback"
  /\ IsFirst(m, batch[w])
  /\ m \in Poison
  /\ batch' = [batch EXCEPT ![w] = @ \ {m}]
  /\ depth' = [depth EXCEPT ![w] = @ - 2]
  /\ Goto(w, AfterMessage(w, batch[w] \ {m}))
  /\ UNCHANGED <<redisVars, todo, stop, handled, acked, faults>>

\* json.loads or the callback raises: no XACK, the message stays pending.
OnMessageRaises(w, m) ==
  /\ pc[w] = "callback"
  /\ IsFirst(m, batch[w])
  /\ m \in Poison
  /\ EndMessage(w, m)
  /\ UNCHANGED <<redisVars, todo, stop, handled, acked, faults>>

\* XACK after a successful callback; an error leaves the message to the PEL.
Ack(w, m) ==
  /\ pc[w] = "ack"
  /\ IsFirst(m, batch[w])
  /\ TryAck(m)
  /\ EndMessage(w, m)
  /\ UNCHANGED <<published, trimmed, group, lastDelivered, deliveries, dead,
                 todo, stop, handled>>

-----------------------------------------------------------------------------
\* Stopping, crashing, and the process's end.

\* stop() from another thread.
RequestStop(w) ==
  /\ pc[w] \notin {"down", "stopped"}
  /\ ~stop[w]
  /\ stop' = [stop EXCEPT ![w] = TRUE]
  /\ UNCHANGED <<redisVars, pc, batch, todo, depth, handled, acked, faults>>

\* The process is gone, and what it had in memory with it.
Vanish(w) ==
  /\ Goto(w, "down")
  /\ batch' = [batch EXCEPT ![w] = {}]
  /\ todo' = [todo EXCEPT ![w] = {}]
  /\ depth' = [depth EXCEPT ![w] = 0]
  /\ stop' = [stop EXCEPT ![w] = FALSE]
  /\ UNCHANGED <<redisVars, handled, acked>>

Exit(w) == pc[w] = "stopped" /\ Vanish(w) /\ NoFault

Crash(w) == pc[w] # "down" /\ Vanish(w) /\ Fault

-----------------------------------------------------------------------------
\* What a running worker's thread does: it never starts, stops or crashes itself.
Run(w) ==
  \/ ListPending(w)
  \/ \E e \in todo[w] : Claim(w, e) \/ DeadLetterAdd(w, e) \/ DeadLetterAck(w, e)
  \/ CheckLoop(w) \/ LeaveLoop(w) \/ ReadNew(w)
  \/ \E m \in batch[w] :
       BeginMessage(w, m) \/ OnMessageReturns(w, m) \/ OnMessageRaises(w, m)
         \/ Ack(w, m)

Next ==
  \/ \E n \in Id : Publish(n)
  \/ \E w \in Worker :
       EnsureGroup(w) \/ Run(w) \/ RequestStop(w) \/ Exit(w) \/ Crash(w)

Spec == Init /\ [][Next]_vars

\* A started worker's thread is scheduled.  Nothing restarts a worker, and
\* nobody has to publish.
FairSpec == Spec /\ \A w \in Worker : WF_vars(Run(w))

-----------------------------------------------------------------------------
\* Safety.

\* No message is forgotten: once the group's cursor has passed a message, it is
\* pending for some worker, or acknowledged, or past the stream's retention.
\* Readers and the PEL together cover the stream whatever fails in between
\* (XREADGROUP in start, XCLAIM in _process_pending, _dead_letter).
NothingForgotten ==
  \A m \in 1 .. lastDelivered :
    owner[m] # NoWorker \/ m \in acked \/ m <= trimmed

\* "ACK on successful processing": an acknowledged message was accepted by
\* on_message, or is in the dead-letter stream, or expired before it could be
\* copied there.
AckedIsSettled ==
  \A m \in acked : m \in handled \cup dead \/ m <= trimmed

\* Retries are bounded and all used: no message is delivered more than
\* MaxRetries + 1 times, and only one delivered so often is dead-lettered.
RetriesExact ==
  \A m \in Id :
    /\ deliveries[m] <= MaxRetries + 1
    /\ m \in dead => deliveries[m] = MaxRetries + 1

\* No two workers have the same message in hand: whatever a worker is going
\* through is pending for that worker alone, and the delivery count it read
\* from XPENDING is still the current one when it acts on it.
OneHolder ==
  \A w \in Worker :
    /\ \A m \in batch[w] : owner[m] = w
    /\ \A e \in todo[w] : owner[e.id] = w /\ e.times = deliveries[e.id]

\* _queue_depth counts the message in hand and nothing else: it returns to 0
\* on every path, so it never stops the loop (and cannot see a backlog).
DepthIsInFlight ==
  \A w \in Worker :
    depth[w] = IF pc[w] \in {"callback", "ack"} THEN 1 ELSE 0

\* The consumer implements at-least-once delivery at the on_message callback:
\* among other things, an acknowledged message is never handed over again.
Promise == INSTANCE AtLeastOnce WITH
  Message <- Id, sent <- published, expired <- trimmed,
  delivered <- handled, buried <- dead, settled <- acked

ImplementsAtLeastOnce == Promise!Spec

-----------------------------------------------------------------------------
\* Liveness.

Serving(w) == pc[w] \notin {"down", "stopped"} /\ ~stop[w]

\* A published message reaches a worker, unless it expires, the group could not
\* be created, or no worker keeps running.
EveryMessageIsRead ==
  \A m \in Id :
    (m <= published) ~>
      (m <= lastDelivered \/ m <= trimmed \/ ~group
         \/ \A w \in Worker : ~Serving(w))

=============================================================================
