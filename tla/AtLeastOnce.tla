----------------------------- MODULE AtLeastOnce -----------------------------
(***************************************************************************)
(* What the alert stream promises its users (the header of                 *)
(* ingestion/stream_consumer.py: "at-least-once delivery", "ACK on         *)
(* successful processing", "dead-letter handling"), with no consumer,      *)
(* Redis command or crash in sight: a message may be handed over any       *)
(* number of times until it is settled, and it is settled only after it    *)
(* was handed over, was dead-lettered, or fell out of the stream's         *)
(* retention.                                                              *)
(***************************************************************************)
EXTENDS Naturals

CONSTANT Message    \* the messages that may ever be published, 1, 2, ...

VARIABLES
  sent,       \* how many messages were published: 1 .. sent
  expired,    \* messages 1 .. expired were dropped by the stream's retention
  delivered,  \* messages whose callback returned at least once
  buried,     \* messages in the dead-letter stream
  settled     \* messages acknowledged: they are never handed over again

vars == <<sent, expired, delivered, buried, settled>>

Init ==
  /\ sent = 0
  /\ expired = 0
  /\ delivered = {}
  /\ buried = {}
  /\ settled = {}

\* Publishing, which may also drop the oldest messages.
Publish ==
  /\ sent' > sent
  /\ expired' >= expired
  /\ expired' <= sent'
  /\ UNCHANGED <<delivered, buried, settled>>

\* The callback accepts a published message that nobody settled yet.
Deliver(m) ==
  /\ m <= sent
  /\ m \notin settled
  /\ delivered' = delivered \cup {m}
  /\ UNCHANGED <<sent, expired, buried, settled>>

\* A message that is still owed is given up.
Bury(m) ==
  /\ m <= sent
  /\ m \notin settled
  /\ buried' = buried \cup {m}
  /\ UNCHANGED <<sent, expired, delivered, settled>>

\* A message may be settled only once something became of it.
Settle(m) ==
  /\ m \in delivered \cup buried \/ m <= expired
  /\ settled' = settled \cup {m}
  /\ UNCHANGED <<sent, expired, delivered, buried>>

Next ==
  \/ Publish
  \/ \E m \in Message : Deliver(m) \/ Bury(m) \/ Settle(m)

Spec == Init /\ [][Next]_vars

=============================================================================
