---------------------------- MODULE Streaming_proofs ----------------------------
(***************************************************************************)
(* Theorems about StreamConsumer and StreamingManager.                     *)
(*                                                                         *)
(* The consumer, for every number of workers, messages, retries and        *)
(* faults: its safety invariants, and that it implements AtLeastOnce.      *)
(*                                                                         *)
(* The manager, for every batch size besides: under it the consumer is     *)
(* still the consumer of StreamConsumer, so what was proved of that one    *)
(* carries over, and the two threads that share _pending lose nothing and  *)
(* send nothing twice.                                                     *)
(***************************************************************************)
EXTENDS StreamingManager, FiniteSetTheorems, TLAPS

-----------------------------------------------------------------------------
\* The consumer's inductive invariant: what the invariants of StreamConsumer need beyond
\* themselves.

\* What each worker's memory says, at each place of its thread.
Control ==
  \A w \in Worker :
    /\ pc[w] \notin {"next", "callback", "ack"} => batch[w] = {}
    /\ pc[w] = "ack" => \A m \in Id : IsFirst(m, batch[w]) => m \in handled
    /\ pc[w] = "dlAck" => \A e \in todo[w] :
         IsFirstEntry(e, todo[w]) => e.id \in dead \/ e.id <= trimmed
    /\ \A m \in batch[w], e \in todo[w] : m # e.id

\* What is pending, dead or acknowledged was delivered, and what is
\* acknowledged is no longer pending.
Settled ==
  \A m \in Id :
    /\ owner[m] # NoWorker \/ m \in dead \/ m \in acked => m <= lastDelivered
    /\ m \in acked => owner[m] = NoWorker

IInv ==
  /\ TypeOK
  /\ DepthIsInFlight
  /\ NothingForgotten
  /\ AckedIsSettled
  /\ RetriesExact
  /\ OneHolder
  /\ Control
  /\ Settled

-----------------------------------------------------------------------------
\* Facts about replies.

\* A reply that is cut off after n entries holds with every entry all smaller
\* ones.
LEMMA OldestDownClosed ==
  ASSUME NEW S \in SUBSET Id, NEW n \in Nat, NEW m \in Oldest(S, n),
         NEW k \in S, k <= m
  PROVE  k \in Oldest(S, n)
<1> DEFINE Below(i) == {j \in S : j < i}
<1>1. Id \subseteq Int /\ IsFiniteSet(Id)
  BY ConstantsAssumption, FS_Interval DEF Id
<1>2. \A i \in S : Below(i) \subseteq Id
  OBVIOUS
<1>3. IsFiniteSet(Below(m)) /\ IsFiniteSet(Below(k))
  BY <1>1, <1>2, FS_Subset DEF Oldest
<1>4. Below(k) \subseteq Below(m)
  <2>1. k \in Int /\ m \in Int /\ S \subseteq Int
    BY <1>1 DEF Oldest
  <2>2. ASSUME NEW j \in S, j < k PROVE j < m
    BY <2>1, <2>2
  <2> QED BY <2>2
<1>5. Cardinality(Below(k)) <= Cardinality(Below(m))
  BY <1>3, <1>4, FS_Subset
<1>6. Cardinality(Below(m)) < n
  BY DEF Oldest
<1>7. Cardinality(Below(k)) \in Nat /\ Cardinality(Below(m)) \in Nat
  BY <1>3, FS_CardinalityType
<1>8. Cardinality(Below(k)) < n
  BY <1>5, <1>6, <1>7
<1> QED BY <1>8 DEF Oldest

\* What XREADGROUP returns is new, and leaves out nothing older than its last
\* entry that is still in the stream.
LEMMA NewMessagesAreOldest ==
  ASSUME TypeOK, NEW last \in NewMessages
  PROVE  /\ NewMessages \subseteq {m \in Id : m > lastDelivered /\ InStream(m)}
         /\ \A k \in Id : k > lastDelivered /\ InStream(k) /\ k <= last
                            => k \in NewMessages
<1> DEFINE Fresh == {m \in Id : m > lastDelivered /\ InStream(m)}
<1>1. NewMessages = Oldest(Fresh, BatchSize)
  BY DEF NewMessages
<1>2. NewMessages \subseteq Fresh
  BY <1>1 DEF Oldest
<1>3. ASSUME NEW k \in Fresh, k <= last
      PROVE  k \in NewMessages
  BY <1>1, <1>3, OldestDownClosed, ConstantsAssumption
<1> QED BY <1>2, <1>3

-----------------------------------------------------------------------------
\* The invariant holds initially and is preserved by every action.

\* It holds before anything is published and any worker started.
LEMMA InitIInv == Init => IInv
<1> SUFFICES ASSUME Init PROVE IInv
  OBVIOUS
<1> USE ConstantsAssumption DEF Init
<1>1. TypeOK
  <2>1. /\ pc \in [Worker -> PcValue] /\ depth \in [Worker -> Nat]
        /\ batch \in [Worker -> SUBSET Id] /\ todo \in [Worker -> SUBSET Entry]
        /\ stop \in [Worker -> BOOLEAN]
    BY DEF PcValue
  <2>2. /\ published \in 0 .. MaxMessages /\ trimmed \in 0 .. published
        /\ lastDelivered \in 0 .. published /\ faults \in 0 .. MaxFaults
    OBVIOUS
  <2>3. /\ owner \in [Id -> Worker \cup {NoWorker}] /\ deliveries \in [Id -> Nat]
        /\ dead \subseteq Id /\ handled \subseteq Id /\ acked \subseteq Id
        /\ group \in BOOLEAN
    OBVIOUS
  <2> QED BY <2>1, <2>2, <2>3 DEF TypeOK
<1>2. DepthIsInFlight /\ NothingForgotten /\ AckedIsSettled
  BY DEF DepthIsInFlight, NothingForgotten, AckedIsSettled
<1>3. RetriesExact
  BY DEF RetriesExact
<1>4. OneHolder /\ Control /\ Settled
  BY DEF OneHolder, Control, Settled
<1> QED BY <1>1, <1>2, <1>3, <1>4 DEF IInv

\* AckedIsSettled survives a step that acknowledges nothing.
LEMMA AckedStable ==
  ASSUME AckedIsSettled, UNCHANGED <<acked, trimmed>>,
         handled \subseteq handled', dead \subseteq dead'
  PROVE  AckedIsSettled'
<1> SUFFICES ASSUME NEW k \in acked
             PROVE  k \in handled' \cup dead' \/ k <= trimmed
  BY DEF AckedIsSettled
<1>1. k \in handled \cup dead \/ k <= trimmed
  BY DEF AckedIsSettled
<1> QED BY <1>1

\* ... and one that acknowledges a message that was settled.
LEMMA AckedGrows ==
  ASSUME AckedIsSettled, UNCHANGED <<handled, dead, trimmed>>,
         NEW m, m \in handled \cup dead \/ m <= trimmed,
         acked' \subseteq acked \cup {m}
  PROVE  AckedIsSettled'
<1> SUFFICES ASSUME NEW k \in acked'
             PROVE  k \in handled \cup dead \/ k <= trimmed
  BY DEF AckedIsSettled
<1>1. CASE k \in acked
  BY <1>1 DEF AckedIsSettled
<1>2. CASE k = m
  BY <1>2
<1> QED BY <1>1, <1>2

\* Publishing, and trimming with it.
LEMMA PublishInv ==
  ASSUME IInv, NEW n \in Id, Publish(n)
  PROVE  IInv'
<1> USE ConstantsAssumption DEF IInv
<1>1. TypeOK'
  <2>1. pc' \in [Worker -> PcValue] /\ stop' \in [Worker -> BOOLEAN]
    BY DEF Publish, workerVars, Fault, NoFault, TypeOK, PcValue
  <2>2. batch' \in [Worker -> SUBSET Id] /\ todo' \in [Worker -> SUBSET Entry]
    BY DEF Publish, workerVars, Fault, NoFault, TypeOK
  <2>3. depth' \in [Worker -> Nat]
    BY DEF Publish, workerVars, Fault, NoFault, TypeOK, DepthIsInFlight
  <2>4. /\ published' \in 0 .. MaxMessages /\ trimmed' \in 0 .. published'
       /\ lastDelivered' \in 0 .. published'
    BY DEF Publish, workerVars, Fault, NoFault, TypeOK, Id
  <2>5. /\ owner' \in [Id -> Worker \cup {NoWorker}] /\ deliveries' \in [Id -> Nat]
       /\ dead' \subseteq Id /\ handled' \subseteq Id /\ acked' \subseteq Id
    BY DEF Publish, workerVars, Fault, NoFault, TypeOK, Entry
  <2>6. group' \in BOOLEAN
    BY DEF Publish, workerVars, Fault, NoFault, TypeOK
  <2>7. faults' \in 0 .. MaxFaults
    BY DEF Publish, workerVars, Fault, NoFault, TypeOK
  <2> QED BY <2>1, <2>2, <2>3, <2>4, <2>5, <2>6, <2>7 DEF TypeOK
<1>2. DepthIsInFlight'
  BY DEF Publish, workerVars, Fault, NoFault, TypeOK, DepthIsInFlight
<1>3. NothingForgotten'
  BY DEF Publish, workerVars, Fault, NoFault, TypeOK, NothingForgotten, Settled, Id
<1>4. AckedIsSettled'
  BY DEF Publish, TypeOK, AckedIsSettled, Id
<1>5. RetriesExact'
  BY DEF Publish, workerVars, Fault, NoFault, TypeOK, RetriesExact, OneHolder, Entry, Id
<1>6. OneHolder'
  BY DEF Publish, workerVars, Fault, NoFault, TypeOK, OneHolder, Control, Settled, Entry, Id
<1>7. Control'
  BY DEF Publish, workerVars, Fault, NoFault, TypeOK, OneHolder, Control, Settled, Entry, Id
<1>8. Settled'
  BY DEF Publish, workerVars, Fault, NoFault, TypeOK, OneHolder, Control, Settled, Entry, Id
<1> QED BY <1>1, <1>2, <1>3, <1>4, <1>5, <1>6, <1>7, <1>8

\* Creating the consumer group.
LEMMA EnsureGroupInv ==
  ASSUME IInv, NEW w \in Worker, EnsureGroup(w)
  PROVE  IInv'
<1> USE ConstantsAssumption DEF IInv
<1>1. TypeOK'
  <2>1. pc' \in [Worker -> PcValue] /\ stop' \in [Worker -> BOOLEAN]
    BY DEF EnsureGroup, redisVars, Fault, NoFault, Goto, TypeOK, PcValue
  <2>2. batch' \in [Worker -> SUBSET Id] /\ todo' \in [Worker -> SUBSET Entry]
    BY DEF EnsureGroup, redisVars, Fault, NoFault, Goto, TypeOK
  <2>3. depth' \in [Worker -> Nat]
    BY DEF EnsureGroup, redisVars, Fault, NoFault, Goto, TypeOK, DepthIsInFlight
  <2>4. /\ published' \in 0 .. MaxMessages /\ trimmed' \in 0 .. published'
       /\ lastDelivered' \in 0 .. published'
    BY DEF EnsureGroup, redisVars, Fault, NoFault, Goto, TypeOK, Id
  <2>5. /\ owner' \in [Id -> Worker \cup {NoWorker}] /\ deliveries' \in [Id -> Nat]
       /\ dead' \subseteq Id /\ handled' \subseteq Id /\ acked' \subseteq Id
    BY DEF EnsureGroup, redisVars, Fault, NoFault, Goto, TypeOK, Entry
  <2>6. group' \in BOOLEAN
    BY DEF EnsureGroup, redisVars, Fault, NoFault, Goto, TypeOK
  <2>7. faults' \in 0 .. MaxFaults
    BY DEF EnsureGroup, redisVars, Fault, NoFault, Goto, TypeOK
  <2> QED BY <2>1, <2>2, <2>3, <2>4, <2>5, <2>6, <2>7 DEF TypeOK
<1>2. DepthIsInFlight'
  BY DEF EnsureGroup, redisVars, Fault, NoFault, Goto, TypeOK, DepthIsInFlight
<1>3. NothingForgotten'
  BY DEF EnsureGroup, redisVars, Fault, NoFault, Goto, TypeOK, NothingForgotten, Settled, Id
<1>4. AckedIsSettled'
  BY AckedStable DEF EnsureGroup, redisVars, Fault, NoFault, Goto
<1>5. RetriesExact'
  BY DEF EnsureGroup, redisVars, Fault, NoFault, Goto, TypeOK, RetriesExact, OneHolder, Entry, Id
<1>6. OneHolder'
  <2> SUFFICES ASSUME NEW v \in Worker
               PROVE  /\ \A k \in batch'[v] : owner'[k] = v
                      /\ \A f \in todo'[v] : owner'[f.id] = v /\ f.times = deliveries'[f.id]
    BY DEF OneHolder
  <2>1. CASE v # w
    BY <2>1 DEF EnsureGroup, redisVars, Fault, NoFault, Goto, TypeOK, OneHolder, Settled, Entry
  <2>2. CASE v = w
    BY <2>2 DEF EnsureGroup, redisVars, Fault, NoFault, Goto, TypeOK, OneHolder, Control, Settled, Entry
  <2> QED BY <2>1, <2>2
<1>7. Control'
  <2> SUFFICES ASSUME NEW v \in Worker
               PROVE  /\ pc'[v] \notin {"next", "callback", "ack"} => batch'[v] = {}
                      /\ pc'[v] = "ack" =>
                           \A k \in Id : IsFirst(k, batch'[v]) => k \in handled'
                      /\ pc'[v] = "dlAck" => \A f \in todo'[v] :
                           IsFirstEntry(f, todo'[v]) => f.id \in dead' \/ f.id <= trimmed'
                      /\ \A k \in batch'[v], f \in todo'[v] : k # f.id
    BY DEF Control, IsFirst, IsFirstEntry
  <2>1. CASE v # w
    BY <2>1 DEF EnsureGroup, redisVars, Fault, NoFault, Goto, TypeOK, Control
  <2>2. CASE v = w
    BY <2>2 DEF EnsureGroup, redisVars, Fault, NoFault, Goto, TypeOK, OneHolder, Control, Settled, Entry
  <2> QED BY <2>1, <2>2
<1>8. Settled'
  BY DEF EnsureGroup, redisVars, Fault, NoFault, Goto, TypeOK, OneHolder, Control, Settled, Entry, Id
<1> QED BY <1>1, <1>2, <1>3, <1>4, <1>5, <1>6, <1>7, <1>8

\* Reading the PEL.
LEMMA ListPendingInv ==
  ASSUME IInv, NEW w \in Worker, ListPending(w)
  PROVE  IInv'
<1> USE ConstantsAssumption DEF IInv
<1> DEFINE found == { [id |-> m, times |-> deliveries[m]] :
                      m \in Oldest(Pending(w), PendingCount) }
<1>a. \A m \in Oldest(Pending(w), PendingCount) : m \in Id /\ owner[m] = w
  BY DEF Oldest, Pending
<1>b. \A f \in found : f \in Entry /\ owner[f.id] = w /\ f.times = deliveries[f.id]
  BY <1>a DEF TypeOK, Entry
<1>c. todo' = todo \/ todo' = [todo EXCEPT ![w] = found]
  BY DEF ListPending
<1> HIDE DEF found
<1>1. TypeOK'
  <2>1. pc' \in [Worker -> PcValue] /\ stop' \in [Worker -> BOOLEAN]
    BY DEF ListPending, redisVars, Fault, NoFault, Goto, TypeOK, PcValue
  <2>2. batch' \in [Worker -> SUBSET Id] /\ todo' \in [Worker -> SUBSET Entry]
    BY <1>b, <1>c DEF ListPending, TypeOK
  <2>3. depth' \in [Worker -> Nat]
    BY DEF ListPending, redisVars, Fault, NoFault, Goto, TypeOK, DepthIsInFlight
  <2>4. /\ published' \in 0 .. MaxMessages /\ trimmed' \in 0 .. published'
       /\ lastDelivered' \in 0 .. published'
    BY DEF ListPending, redisVars, Fault, NoFault, Goto, TypeOK, Id
  <2>5. /\ owner' \in [Id -> Worker \cup {NoWorker}] /\ deliveries' \in [Id -> Nat]
       /\ dead' \subseteq Id /\ handled' \subseteq Id /\ acked' \subseteq Id
    BY DEF ListPending, redisVars, Fault, NoFault, Goto, TypeOK, Entry
  <2>6. group' \in BOOLEAN
    BY DEF ListPending, redisVars, Fault, NoFault, Goto, TypeOK
  <2>7. faults' \in 0 .. MaxFaults
    BY DEF ListPending, redisVars, Fault, NoFault, Goto, TypeOK
  <2> QED BY <2>1, <2>2, <2>3, <2>4, <2>5, <2>6, <2>7 DEF TypeOK
<1>2. DepthIsInFlight'
  BY DEF ListPending, redisVars, Fault, NoFault, Goto, TypeOK, DepthIsInFlight
<1>3. NothingForgotten'
  BY DEF ListPending, redisVars, Fault, NoFault, Goto, TypeOK, NothingForgotten, Settled, Id
<1>4. AckedIsSettled'
  BY AckedStable DEF ListPending, redisVars, Fault, NoFault, Goto
<1>5. RetriesExact'
  BY DEF ListPending, redisVars, Fault, NoFault, Goto, TypeOK, RetriesExact, OneHolder, Entry, Id
<1>6. OneHolder'
  BY <1>b, <1>c DEF ListPending, redisVars, TypeOK, OneHolder
<1>7. Control'
  <2>1. \A v \in Worker : pc[v] # pc'[v] =>
          v = w /\ batch'[v] = {} /\ pc'[v] \in {"poll", "recover"}
    BY DEF ListPending, TypeOK, Goto, Control
  <2>2. batch' = batch /\ handled' = handled /\ dead' = dead /\ trimmed' = trimmed
    BY DEF ListPending, redisVars
  <2>3. \A v \in Worker : v # w => todo'[v] = todo[v]
    BY <1>c DEF TypeOK
  <2>4. pc[w] = "built" /\ pc'[w] # "built" /\ batch[w] = {}
    BY DEF ListPending, Goto, TypeOK, Control
  <2> QED BY <2>1, <2>2, <2>3, <2>4 DEF Control, IsFirst, IsFirstEntry
<1>8. Settled'
  BY DEF ListPending, redisVars, Fault, NoFault, Goto, TypeOK, OneHolder, Control, Settled, Entry, Id
<1> QED BY <1>1, <1>2, <1>3, <1>4, <1>5, <1>6, <1>7, <1>8

\* Claiming a pending message.
LEMMA ClaimInv ==
  ASSUME IInv, NEW w \in Worker, NEW e \in todo[w], Claim(w, e)
  PROVE  IInv'
<1> USE ConstantsAssumption DEF IInv
<1>a. /\ e \in Entry /\ e.id \in Id /\ e.times \in Nat
      /\ owner[e.id] = w /\ e.times = deliveries[e.id]
  BY DEF TypeOK, Entry, OneHolder
<1>1. TypeOK'
  <2>1. pc' \in [Worker -> PcValue] /\ stop' \in [Worker -> BOOLEAN]
    BY <1>a DEF Claim, ClaimInRedis, Claimable, InStream, TooOften, IsFirst, IsFirstEntry, AfterEntry, redisVars, Fault, NoFault, Goto, TypeOK, PcValue
  <2>2. batch' \in [Worker -> SUBSET Id] /\ todo' \in [Worker -> SUBSET Entry]
    BY <1>a DEF Claim, TypeOK
  <2>3. depth' \in [Worker -> Nat]
    BY <1>a DEF Claim, ClaimInRedis, Claimable, InStream, TooOften, IsFirst, IsFirstEntry, AfterEntry, redisVars, Fault, NoFault, Goto, TypeOK, DepthIsInFlight
  <2>4. /\ published' \in 0 .. MaxMessages /\ trimmed' \in 0 .. published'
       /\ lastDelivered' \in 0 .. published'
    BY <1>a DEF Claim, ClaimInRedis, Claimable, InStream, TooOften, IsFirst, IsFirstEntry, AfterEntry, redisVars, Fault, NoFault, Goto, TypeOK, Id
  <2>5. /\ owner' \in [Id -> Worker \cup {NoWorker}] /\ deliveries' \in [Id -> Nat]
       /\ dead' \subseteq Id /\ handled' \subseteq Id /\ acked' \subseteq Id
    BY <1>a DEF Claim, ClaimInRedis, Claimable, InStream, TooOften, IsFirst, IsFirstEntry, AfterEntry, redisVars, Fault, NoFault, Goto, TypeOK, Entry
  <2>6. group' \in BOOLEAN
    BY <1>a DEF Claim, ClaimInRedis, Claimable, InStream, TooOften, IsFirst, IsFirstEntry, AfterEntry, redisVars, Fault, NoFault, Goto, TypeOK
  <2>7. faults' \in 0 .. MaxFaults
    BY <1>a DEF Claim, ClaimInRedis, Claimable, InStream, TooOften, IsFirst, IsFirstEntry, AfterEntry, redisVars, Fault, NoFault, Goto, TypeOK
  <2> QED BY <2>1, <2>2, <2>3, <2>4, <2>5, <2>6, <2>7 DEF TypeOK
<1>2. DepthIsInFlight'
  BY <1>a DEF Claim, ClaimInRedis, Claimable, InStream, TooOften, IsFirst, IsFirstEntry, AfterEntry, redisVars, Fault, NoFault, Goto, TypeOK, DepthIsInFlight
<1>3. NothingForgotten'
  BY <1>a DEF Claim, ClaimInRedis, Claimable, InStream, TooOften, IsFirst, IsFirstEntry, AfterEntry, redisVars, Fault, NoFault, Goto, TypeOK, NothingForgotten, Settled, Id
<1>4. AckedIsSettled'
  BY <1>a, AckedStable DEF Claim, ClaimInRedis, Claimable, InStream, TooOften, IsFirst, IsFirstEntry, AfterEntry, redisVars, Fault, NoFault, Goto
<1>5. RetriesExact'
  <2>1. \A k \in Id : \/ deliveries'[k] = deliveries[k]
                      \/ k = e.id /\ deliveries'[k] = deliveries[k] + 1
    BY <1>a DEF Claim, ClaimInRedis, TypeOK
  <2>2. deliveries[e.id] <= MaxRetries /\ e.id \notin dead /\ dead' = dead
    BY <1>a DEF Claim, TooOften, RetriesExact, TypeOK
  <2> QED BY <2>1, <2>2 DEF RetriesExact, TypeOK
<1>6. OneHolder'
  <2> SUFFICES ASSUME NEW v \in Worker
               PROVE  /\ \A k \in batch'[v] : owner'[k] = v
                      /\ \A f \in todo'[v] : owner'[f.id] = v /\ f.times = deliveries'[f.id]
    BY DEF OneHolder
  <2>1. CASE v # w
    BY <1>a, <2>1 DEF Claim, ClaimInRedis, Claimable, InStream, TooOften, IsFirst, IsFirstEntry, AfterEntry, redisVars, Fault, NoFault, Goto, TypeOK, OneHolder, Settled, Entry
  <2>2. CASE v = w
    BY <1>a, <2>2 DEF Claim, ClaimInRedis, Claimable, InStream, TooOften, IsFirst, IsFirstEntry, AfterEntry, redisVars, Fault, NoFault, Goto, TypeOK, OneHolder, Control, Settled, Entry
  <2> QED BY <2>1, <2>2
<1>7. Control'
  <2> SUFFICES ASSUME NEW v \in Worker
               PROVE  /\ pc'[v] \notin {"next", "callback", "ack"} => batch'[v] = {}
                      /\ pc'[v] = "ack" =>
                           \A k \in Id : IsFirst(k, batch'[v]) => k \in handled'
                      /\ pc'[v] = "dlAck" => \A f \in todo'[v] :
                           IsFirstEntry(f, todo'[v]) => f.id \in dead' \/ f.id <= trimmed'
                      /\ \A k \in batch'[v], f \in todo'[v] : k # f.id
    BY DEF Control, IsFirst, IsFirstEntry
  <2>1. CASE v # w
    BY <1>a, <2>1 DEF Claim, ClaimInRedis, Claimable, InStream, TooOften, IsFirst, IsFirstEntry, AfterEntry, redisVars, Fault, NoFault, Goto, TypeOK, Control
  <2>2. CASE v = w
    BY <1>a, <2>2 DEF Claim, ClaimInRedis, Claimable, InStream, TooOften, IsFirst, IsFirstEntry, AfterEntry, redisVars, Fault, NoFault, Goto, TypeOK, OneHolder, Control, Settled, Entry
  <2> QED BY <2>1, <2>2
<1>8. Settled'
  BY <1>a DEF Claim, ClaimInRedis, Claimable, InStream, TooOften, IsFirst, IsFirstEntry, AfterEntry, redisVars, Fault, NoFault, Goto, TypeOK, OneHolder, Control, Settled, Entry, Id
<1> QED BY <1>1, <1>2, <1>3, <1>4, <1>5, <1>6, <1>7, <1>8

\* Copying a message to the dead-letter stream.
LEMMA DeadLetterAddInv ==
  ASSUME IInv, NEW w \in Worker, NEW e \in todo[w], DeadLetterAdd(w, e)
  PROVE  IInv'
<1> USE ConstantsAssumption DEF IInv
<1>a. /\ e \in Entry /\ e.id \in Id /\ e.times \in Nat
      /\ owner[e.id] = w /\ e.times = deliveries[e.id]
      /\ e.id <= lastDelivered /\ lastDelivered <= published
  BY DEF TypeOK, Entry, OneHolder, Settled
<1>1. TypeOK'
  <2>1. pc' \in [Worker -> PcValue] /\ stop' \in [Worker -> BOOLEAN]
    BY <1>a DEF DeadLetterAdd, InStream, TooOften, IsFirst, IsFirstEntry, AfterEntry, redisVars, Fault, NoFault, Goto, TypeOK, PcValue
  <2>2. batch' \in [Worker -> SUBSET Id] /\ todo' \in [Worker -> SUBSET Entry]
    BY <1>a DEF DeadLetterAdd, InStream, TooOften, IsFirst, IsFirstEntry, AfterEntry, redisVars, Fault, NoFault, Goto, TypeOK
  <2>3. depth' \in [Worker -> Nat]
    BY <1>a DEF DeadLetterAdd, InStream, TooOften, IsFirst, IsFirstEntry, AfterEntry, redisVars, Fault, NoFault, Goto, TypeOK, DepthIsInFlight
  <2>4. /\ published' \in 0 .. MaxMessages /\ trimmed' \in 0 .. published'
       /\ lastDelivered' \in 0 .. published'
    BY <1>a DEF DeadLetterAdd, InStream, TooOften, IsFirst, IsFirstEntry, AfterEntry, redisVars, Fault, NoFault, Goto, TypeOK, Id
  <2>5. /\ owner' \in [Id -> Worker \cup {NoWorker}] /\ deliveries' \in [Id -> Nat]
       /\ dead' \subseteq Id /\ handled' \subseteq Id /\ acked' \subseteq Id
    BY <1>a DEF DeadLetterAdd, InStream, TooOften, IsFirst, IsFirstEntry, AfterEntry, redisVars, Fault, NoFault, Goto, TypeOK, Entry
  <2>6. group' \in BOOLEAN
    BY <1>a DEF DeadLetterAdd, InStream, TooOften, IsFirst, IsFirstEntry, AfterEntry, redisVars, Fault, NoFault, Goto, TypeOK
  <2>7. faults' \in 0 .. MaxFaults
    BY <1>a DEF DeadLetterAdd, InStream, TooOften, IsFirst, IsFirstEntry, AfterEntry, redisVars, Fault, NoFault, Goto, TypeOK
  <2> QED BY <2>1, <2>2, <2>3, <2>4, <2>5, <2>6, <2>7 DEF TypeOK
<1>2. DepthIsInFlight'
  BY <1>a DEF DeadLetterAdd, InStream, TooOften, IsFirst, IsFirstEntry, AfterEntry, redisVars, Fault, NoFault, Goto, TypeOK, DepthIsInFlight
<1>3. NothingForgotten'
  BY <1>a DEF DeadLetterAdd, InStream, TooOften, IsFirst, IsFirstEntry, AfterEntry, redisVars, Fault, NoFault, Goto, TypeOK, NothingForgotten, Settled, Id
<1>4. AckedIsSettled'
  BY <1>a, AckedStable DEF DeadLetterAdd, InStream, TooOften, IsFirst, IsFirstEntry, AfterEntry, redisVars, Fault, NoFault, Goto
<1>5. RetriesExact'
  BY <1>a DEF DeadLetterAdd, InStream, TooOften, IsFirst, IsFirstEntry, AfterEntry, redisVars, Fault, NoFault, Goto, TypeOK, RetriesExact, OneHolder, Entry, Id
<1>6. OneHolder'
  <2> SUFFICES ASSUME NEW v \in Worker
               PROVE  /\ \A k \in batch'[v] : owner'[k] = v
                      /\ \A f \in todo'[v] : owner'[f.id] = v /\ f.times = deliveries'[f.id]
    BY DEF OneHolder
  <2>1. CASE v # w
    BY <1>a, <2>1 DEF DeadLetterAdd, InStream, TooOften, IsFirst, IsFirstEntry, AfterEntry, redisVars, Fault, NoFault, Goto, TypeOK, OneHolder, Settled, Entry
  <2>2. CASE v = w
    BY <1>a, <2>2 DEF DeadLetterAdd, InStream, TooOften, IsFirst, IsFirstEntry, AfterEntry, redisVars, Fault, NoFault, Goto, TypeOK, OneHolder, Control, Settled, Entry
  <2> QED BY <2>1, <2>2
<1>7. Control'
  <2> SUFFICES ASSUME NEW v \in Worker
               PROVE  /\ pc'[v] \notin {"next", "callback", "ack"} => batch'[v] = {}
                      /\ pc'[v] = "ack" =>
                           \A k \in Id : IsFirst(k, batch'[v]) => k \in handled'
                      /\ pc'[v] = "dlAck" => \A f \in todo'[v] :
                           IsFirstEntry(f, todo'[v]) => f.id \in dead' \/ f.id <= trimmed'
                      /\ \A k \in batch'[v], f \in todo'[v] : k # f.id
    BY DEF Control, IsFirst, IsFirstEntry
  <2>1. CASE v # w
    BY <2>1 DEF DeadLetterAdd, Goto, redisVars, TypeOK, Control
  <2>2. CASE v = w /\ pc'[w] = "dlAck"
    <3>1. todo' = todo /\ batch'[w] = {} /\ trimmed' = trimmed
      BY <2>2 DEF DeadLetterAdd, AfterEntry, Goto, TypeOK, Control
    <3>2. e.id \in dead' \/ e.id <= trimmed
      BY <2>2, <1>a DEF DeadLetterAdd, AfterEntry, Goto, InStream, TypeOK, Id
    <3>3. ASSUME NEW f \in todo[w], IsFirstEntry(f, todo[w]) PROVE f.id = e.id
      <4>1. f.id \in Int /\ e.id \in Int
        BY <1>a DEF TypeOK, Entry, Id
      <4>2. f.id <= e.id /\ e.id <= f.id
        BY <3>3 DEF DeadLetterAdd, IsFirstEntry
      <4> QED BY <4>1, <4>2
    <3> QED BY <2>2, <3>1, <3>2, <3>3
  <2>3. CASE v = w /\ pc'[w] # "dlAck"
    BY <2>3 DEF DeadLetterAdd, AfterEntry, Goto, TypeOK, Control
  <2> QED BY <2>1, <2>2, <2>3
<1>8. Settled'
  BY <1>a DEF DeadLetterAdd, InStream, TooOften, IsFirst, IsFirstEntry, AfterEntry, redisVars, Fault, NoFault, Goto, TypeOK, OneHolder, Control, Settled, Entry, Id
<1> QED BY <1>1, <1>2, <1>3, <1>4, <1>5, <1>6, <1>7, <1>8

\* Acknowledging a dead letter.
LEMMA DeadLetterAckInv ==
  ASSUME IInv, NEW w \in Worker, NEW e \in todo[w], DeadLetterAck(w, e)
  PROVE  IInv'
<1> USE ConstantsAssumption DEF IInv
<1>1. TypeOK'
  <2>1. pc' \in [Worker -> PcValue] /\ stop' \in [Worker -> BOOLEAN]
    BY DEF DeadLetterAck, TryAck, AckInRedis, IsFirst, IsFirstEntry, AfterEntry, redisVars, Fault, NoFault, Goto, TypeOK, PcValue
  <2>2. batch' \in [Worker -> SUBSET Id] /\ todo' \in [Worker -> SUBSET Entry]
    BY DEF DeadLetterAck, TryAck, AckInRedis, IsFirst, IsFirstEntry, AfterEntry, redisVars, Fault, NoFault, Goto, TypeOK
  <2>3. depth' \in [Worker -> Nat]
    BY DEF DeadLetterAck, TryAck, AckInRedis, IsFirst, IsFirstEntry, AfterEntry, redisVars, Fault, NoFault, Goto, TypeOK, DepthIsInFlight
  <2>4. /\ published' \in 0 .. MaxMessages /\ trimmed' \in 0 .. published'
       /\ lastDelivered' \in 0 .. published'
    BY DEF DeadLetterAck, TryAck, AckInRedis, IsFirst, IsFirstEntry, AfterEntry, redisVars, Fault, NoFault, Goto, TypeOK, Id
  <2>5. /\ owner' \in [Id -> Worker \cup {NoWorker}] /\ deliveries' \in [Id -> Nat]
       /\ dead' \subseteq Id /\ handled' \subseteq Id /\ acked' \subseteq Id
    BY DEF DeadLetterAck, TryAck, AckInRedis, IsFirst, IsFirstEntry, AfterEntry, redisVars, Fault, NoFault, Goto, TypeOK, Entry
  <2>6. group' \in BOOLEAN
    BY DEF DeadLetterAck, TryAck, AckInRedis, IsFirst, IsFirstEntry, AfterEntry, redisVars, Fault, NoFault, Goto, TypeOK
  <2>7. faults' \in 0 .. MaxFaults
    BY DEF DeadLetterAck, TryAck, AckInRedis, IsFirst, IsFirstEntry, AfterEntry, redisVars, Fault, NoFault, Goto, TypeOK
  <2> QED BY <2>1, <2>2, <2>3, <2>4, <2>5, <2>6, <2>7 DEF TypeOK
<1>2. DepthIsInFlight'
  BY DEF DeadLetterAck, TryAck, AckInRedis, IsFirst, IsFirstEntry, AfterEntry, redisVars, Fault, NoFault, Goto, TypeOK, DepthIsInFlight
<1>3. NothingForgotten'
  BY DEF DeadLetterAck, TryAck, AckInRedis, IsFirst, IsFirstEntry, AfterEntry, redisVars, Fault, NoFault, Goto, TypeOK, NothingForgotten, Settled, Id
<1>4. AckedIsSettled'
  <2>1. e.id \in handled \cup dead \/ e.id <= trimmed
    BY DEF DeadLetterAck, Control
  <2> QED BY <2>1, AckedGrows DEF DeadLetterAck, TryAck, AckInRedis
<1>5. RetriesExact'
  BY DEF DeadLetterAck, TryAck, AckInRedis, IsFirst, IsFirstEntry, AfterEntry, redisVars, Fault, NoFault, Goto, TypeOK, RetriesExact, OneHolder, Entry, Id
<1>6. OneHolder'
  <2> SUFFICES ASSUME NEW v \in Worker
               PROVE  /\ \A k \in batch'[v] : owner'[k] = v
                      /\ \A f \in todo'[v] : owner'[f.id] = v /\ f.times = deliveries'[f.id]
    BY DEF OneHolder
  <2>1. CASE v # w
    BY <2>1 DEF DeadLetterAck, TryAck, AckInRedis, IsFirst, IsFirstEntry, AfterEntry, redisVars, Fault, NoFault, Goto, TypeOK, OneHolder, Settled, Entry
  <2>2. CASE v = w
    BY <2>2 DEF DeadLetterAck, TryAck, AckInRedis, IsFirst, IsFirstEntry, AfterEntry, redisVars, Fault, NoFault, Goto, TypeOK, OneHolder, Control, Settled, Entry
  <2> QED BY <2>1, <2>2
<1>7. Control'
  <2> SUFFICES ASSUME NEW v \in Worker
               PROVE  /\ pc'[v] \notin {"next", "callback", "ack"} => batch'[v] = {}
                      /\ pc'[v] = "ack" =>
                           \A k \in Id : IsFirst(k, batch'[v]) => k \in handled'
                      /\ pc'[v] = "dlAck" => \A f \in todo'[v] :
                           IsFirstEntry(f, todo'[v]) => f.id \in dead' \/ f.id <= trimmed'
                      /\ \A k \in batch'[v], f \in todo'[v] : k # f.id
    BY DEF Control, IsFirst, IsFirstEntry
  <2>1. CASE v # w
    BY <2>1 DEF DeadLetterAck, TryAck, AckInRedis, IsFirst, IsFirstEntry, AfterEntry, redisVars, Fault, NoFault, Goto, TypeOK, Control
  <2>2. CASE v = w
    BY <2>2 DEF DeadLetterAck, TryAck, AckInRedis, IsFirst, IsFirstEntry, AfterEntry, redisVars, Fault, NoFault, Goto, TypeOK, OneHolder, Control, Settled, Entry
  <2> QED BY <2>1, <2>2
<1>8. Settled'
  BY DEF DeadLetterAck, TryAck, AckInRedis, IsFirst, IsFirstEntry, AfterEntry, redisVars, Fault, NoFault, Goto, TypeOK, OneHolder, Control, Settled, Entry, Id
<1> QED BY <1>1, <1>2, <1>3, <1>4, <1>5, <1>6, <1>7, <1>8

\* The loop's test.
LEMMA LoopInv ==
  ASSUME IInv, NEW w \in Worker, CheckLoop(w) \/ LeaveLoop(w)
  PROVE  IInv'
<1> USE ConstantsAssumption DEF IInv
<1>1. TypeOK'
  <2>1. pc' \in [Worker -> PcValue] /\ stop' \in [Worker -> BOOLEAN]
    BY DEF CheckLoop, LeaveLoop, redisVars, Fault, NoFault, Goto, TypeOK, PcValue
  <2>2. batch' \in [Worker -> SUBSET Id] /\ todo' \in [Worker -> SUBSET Entry]
    BY DEF CheckLoop, LeaveLoop, redisVars, Fault, NoFault, Goto, TypeOK
  <2>3. depth' \in [Worker -> Nat]
    BY DEF CheckLoop, LeaveLoop, redisVars, Fault, NoFault, Goto, TypeOK, DepthIsInFlight
  <2>4. /\ published' \in 0 .. MaxMessages /\ trimmed' \in 0 .. published'
       /\ lastDelivered' \in 0 .. published'
    BY DEF CheckLoop, LeaveLoop, redisVars, Fault, NoFault, Goto, TypeOK, Id
  <2>5. /\ owner' \in [Id -> Worker \cup {NoWorker}] /\ deliveries' \in [Id -> Nat]
       /\ dead' \subseteq Id /\ handled' \subseteq Id /\ acked' \subseteq Id
    BY DEF CheckLoop, LeaveLoop, redisVars, Fault, NoFault, Goto, TypeOK, Entry
  <2>6. group' \in BOOLEAN
    BY DEF CheckLoop, LeaveLoop, redisVars, Fault, NoFault, Goto, TypeOK
  <2>7. faults' \in 0 .. MaxFaults
    BY DEF CheckLoop, LeaveLoop, redisVars, Fault, NoFault, Goto, TypeOK
  <2> QED BY <2>1, <2>2, <2>3, <2>4, <2>5, <2>6, <2>7 DEF TypeOK
<1>2. DepthIsInFlight'
  BY DEF CheckLoop, LeaveLoop, redisVars, Fault, NoFault, Goto, TypeOK, DepthIsInFlight
<1>3. NothingForgotten'
  BY DEF CheckLoop, LeaveLoop, redisVars, Fault, NoFault, Goto, TypeOK, NothingForgotten, Settled, Id
<1>4. AckedIsSettled'
  BY AckedStable DEF CheckLoop, LeaveLoop, redisVars, Fault, NoFault, Goto
<1>5. RetriesExact'
  BY DEF CheckLoop, LeaveLoop, redisVars, Fault, NoFault, Goto, TypeOK, RetriesExact, OneHolder, Entry, Id
<1>6. OneHolder'
  <2> SUFFICES ASSUME NEW v \in Worker
               PROVE  /\ \A k \in batch'[v] : owner'[k] = v
                      /\ \A f \in todo'[v] : owner'[f.id] = v /\ f.times = deliveries'[f.id]
    BY DEF OneHolder
  <2>1. CASE v # w
    BY <2>1 DEF CheckLoop, LeaveLoop, redisVars, Fault, NoFault, Goto, TypeOK, OneHolder, Settled, Entry
  <2>2. CASE v = w
    BY <2>2 DEF CheckLoop, LeaveLoop, redisVars, Fault, NoFault, Goto, TypeOK, OneHolder, Control, Settled, Entry
  <2> QED BY <2>1, <2>2
<1>7. Control'
  <2> SUFFICES ASSUME NEW v \in Worker
               PROVE  /\ pc'[v] \notin {"next", "callback", "ack"} => batch'[v] = {}
                      /\ pc'[v] = "ack" =>
                           \A k \in Id : IsFirst(k, batch'[v]) => k \in handled'
                      /\ pc'[v] = "dlAck" => \A f \in todo'[v] :
                           IsFirstEntry(f, todo'[v]) => f.id \in dead' \/ f.id <= trimmed'
                      /\ \A k \in batch'[v], f \in todo'[v] : k # f.id
    BY DEF Control, IsFirst, IsFirstEntry
  <2>1. CASE v # w
    BY <2>1 DEF CheckLoop, LeaveLoop, redisVars, Fault, NoFault, Goto, TypeOK, Control
  <2>2. CASE v = w
    BY <2>2 DEF CheckLoop, LeaveLoop, redisVars, Fault, NoFault, Goto, TypeOK, OneHolder, Control, Settled, Entry
  <2> QED BY <2>1, <2>2
<1>8. Settled'
  BY DEF CheckLoop, LeaveLoop, redisVars, Fault, NoFault, Goto, TypeOK, OneHolder, Control, Settled, Entry, Id
<1> QED BY <1>1, <1>2, <1>3, <1>4, <1>5, <1>6, <1>7, <1>8

\* Reading new messages.
LEMMA ReadNewInv ==
  ASSUME IInv, NEW w \in Worker, ReadNew(w)
  PROVE  IInv'
<1> USE ConstantsAssumption DEF IInv
<1>a. /\ UNCHANGED <<published, trimmed, group, dead, todo, depth, stop,
                     handled, acked>>
      /\ pc[w] = "reading" /\ Goto(w, pc'[w]) /\ pc'[w] \in {"next", "poll"}
      /\ batch[w] = {}
  BY DEF ReadNew, Goto, TypeOK, Control
<1>b. faults' = faults \/ (faults < MaxFaults /\ faults' = faults + 1)
  BY DEF ReadNew, Fault, NoFault
<1>c. batch' = batch \/ (batch' = [batch EXCEPT ![w] = NewMessages] /\ pc'[w] = "next")
  BY DEF ReadNew, Goto, TypeOK
<1>d. \A k \in NewMessages :
        k \in Id /\ k > lastDelivered /\ trimmed < k /\ k <= published
  BY NewMessagesAreOldest DEF InStream
<1>e. \/ UNCHANGED <<lastDelivered, owner, deliveries>> /\ batch' = batch
      \/ ReadInRedis(w, NewMessages)
  BY DEF ReadNew
<1>f. ASSUME ReadInRedis(w, NewMessages)
      PROVE  /\ lastDelivered' \in NewMessages
             /\ \A k \in NewMessages : k <= lastDelivered'
             /\ \A k \in Id : k > lastDelivered /\ trimmed < k /\ k <= lastDelivered'
                                => k \in NewMessages
  <2>1. lastDelivered' \in NewMessages /\ \A k \in NewMessages : k <= lastDelivered'
    BY <1>f DEF ReadInRedis
  <2>2. ASSUME NEW k \in Id, k > lastDelivered, trimmed < k, k <= lastDelivered'
        PROVE  k \in NewMessages
    <3>1. lastDelivered' <= published /\ lastDelivered' \in Int /\ k \in Int
          /\ published \in Int
      BY <2>1, <1>d DEF TypeOK, Id
    <3>2. InStream(k)
      BY <2>2, <3>1 DEF InStream
    <3> QED BY <2>1, <2>2, <3>2, NewMessagesAreOldest
  <2> QED BY <2>1, <2>2
<1>g. ASSUME ReadInRedis(w, NewMessages), NEW k \in Id
      PROVE  /\ k \in NewMessages => owner'[k] = w /\ deliveries'[k] = 1
             /\ k \notin NewMessages => owner'[k] = owner[k] /\ deliveries'[k] = deliveries[k]
             /\ owner[k] # NoWorker => k \notin NewMessages
             /\ k \in dead => k \notin NewMessages
             /\ k \in acked => k \notin NewMessages
  BY <1>d, <1>g DEF ReadInRedis, Settled, TypeOK, Id
<1>h. \A v \in Worker :
        /\ v # w => pc'[v] = pc[v] /\ batch'[v] = batch[v]
        /\ batch'[v] = batch[v] \/ (v = w /\ batch'[v] = NewMessages /\ pc'[w] = "next")
        /\ todo'[v] = todo[v]
  BY <1>a, <1>c DEF Goto, TypeOK
<1>i. CASE UNCHANGED <<lastDelivered, owner, deliveries>> /\ batch' = batch
  <2>1. TypeOK'
    BY <1>a, <1>b, <1>i DEF TypeOK, PcValue, Goto
  <2>2. DepthIsInFlight' /\ NothingForgotten' /\ RetriesExact' /\ OneHolder' /\ Settled'
    BY <1>a, <1>h, <1>i DEF DepthIsInFlight, NothingForgotten, RetriesExact, OneHolder,
       Settled, TypeOK, Goto
  <2>3. AckedIsSettled'
    BY <1>a, AckedStable
  <2>4. Control'
    BY <1>a, <1>h, <1>i DEF Control, TypeOK, Goto, IsFirst, IsFirstEntry
  <2> QED BY <2>1, <2>2, <2>3, <2>4
<1>j. SUFFICES ASSUME ReadInRedis(w, NewMessages) PROVE IInv'
  BY <1>e, <1>i
<1>1. TypeOK'
  <2>1. pc' \in [Worker -> PcValue] /\ stop' \in [Worker -> BOOLEAN]
    BY <1>a DEF TypeOK, PcValue, Goto
  <2>2. batch' \in [Worker -> SUBSET Id] /\ todo' \in [Worker -> SUBSET Entry]
    BY <1>a, <1>c, <1>d DEF TypeOK
  <2>3. depth' \in [Worker -> Nat]
    BY <1>a DEF TypeOK
  <2>4. /\ published' \in 0 .. MaxMessages /\ trimmed' \in 0 .. published'
       /\ lastDelivered' \in 0 .. published'
    BY <1>a, <1>d, <1>f, <1>j DEF TypeOK, Id
  <2>5. /\ owner' \in [Id -> Worker \cup {NoWorker}] /\ deliveries' \in [Id -> Nat]
       /\ dead' \subseteq Id /\ handled' \subseteq Id /\ acked' \subseteq Id
    BY <1>a, <1>j DEF ReadInRedis, TypeOK
  <2>6. group' \in BOOLEAN
    BY <1>a DEF TypeOK
  <2>7. faults' \in 0 .. MaxFaults
    BY <1>b DEF TypeOK
  <2> QED BY <2>1, <2>2, <2>3, <2>4, <2>5, <2>6, <2>7 DEF TypeOK
<1>2. DepthIsInFlight'
  BY <1>a DEF DepthIsInFlight, TypeOK, Goto
<1>3. NothingForgotten'
  <2> SUFFICES ASSUME NEW k \in 1 .. lastDelivered'
               PROVE  owner'[k] # NoWorker \/ k \in acked \/ k <= trimmed
    BY <1>a DEF NothingForgotten
  <2>1. k \in Id /\ k \in Int /\ trimmed \in Int /\ lastDelivered \in Int
    BY <1>1 DEF TypeOK, Id
  <2>2. CASE k <= lastDelivered
    BY <2>1, <2>2, <1>d, <1>g, <1>j DEF NothingForgotten
  <2>3. CASE k > lastDelivered /\ trimmed < k
    BY <2>1, <2>3, <1>f, <1>g, <1>j
  <2> QED BY <2>1, <2>2, <2>3
<1>4. AckedIsSettled'
  BY <1>a, AckedStable
<1>5. RetriesExact'
  BY <1>a, <1>g, <1>j DEF RetriesExact, TypeOK
<1>6. OneHolder'
  <2>1. ASSUME NEW v \in Worker, NEW k \in batch'[v]
        PROVE  owner'[k] = v
    <3>1. k \in Id
      BY <1>1 DEF TypeOK
    <3> QED BY <3>1, <1>g, <1>h, <1>j DEF OneHolder
  <2>2. ASSUME NEW v \in Worker, NEW f \in todo'[v]
        PROVE  owner'[f.id] = v /\ f.times = deliveries'[f.id]
    <3>1. f.id \in Id /\ owner[f.id] = v /\ f.times = deliveries[f.id]
      BY <1>h DEF TypeOK, Entry, OneHolder
    <3> QED BY <3>1, <1>g, <1>j
  <2> QED BY <2>1, <2>2 DEF OneHolder
<1>7. Control'
  <2>1. ASSUME NEW v \in Worker, NEW k \in batch'[v], NEW f \in todo'[v]
        PROVE  k # f.id
    <3>1. f.id \in Id /\ owner[f.id] = v
      BY <1>h DEF TypeOK, Entry, OneHolder
    <3> QED BY <3>1, <1>g, <1>h, <1>j DEF Control
  <2> QED BY <2>1, <1>a, <1>h DEF Control, TypeOK, Goto, IsFirst, IsFirstEntry
<1>8. Settled'
  <2>1. ASSUME NEW k \in Id
        PROVE  /\ owner'[k] # NoWorker \/ k \in dead \/ k \in acked => k <= lastDelivered'
               /\ k \in acked => owner'[k] = NoWorker
    <3>1. lastDelivered' > lastDelivered /\ lastDelivered \in Int /\ k \in Int
      BY <1>d, <1>f, <1>j DEF TypeOK, Id
    <3> QED BY <3>1, <1>f, <1>g, <1>j, <1>1 DEF Settled, TypeOK
  <2> QED BY <2>1, <1>a DEF Settled
<1> QED BY <1>1, <1>2, <1>3, <1>4, <1>5, <1>6, <1>7, <1>8

\* Taking a message in hand.
LEMMA BeginMessageInv ==
  ASSUME IInv, NEW w \in Worker, NEW m \in batch[w], BeginMessage(w, m)
  PROVE  IInv'
<1> USE ConstantsAssumption DEF IInv
<1>1. TypeOK'
  <2>1. pc' \in [Worker -> PcValue] /\ stop' \in [Worker -> BOOLEAN]
    BY DEF BeginMessage, IsFirst, redisVars, Fault, NoFault, Goto, TypeOK, PcValue
  <2>2. batch' \in [Worker -> SUBSET Id] /\ todo' \in [Worker -> SUBSET Entry]
    BY DEF BeginMessage, IsFirst, redisVars, Fault, NoFault, Goto, TypeOK
  <2>3. depth' \in [Worker -> Nat]
    BY DEF BeginMessage, IsFirst, redisVars, Fault, NoFault, Goto, TypeOK, DepthIsInFlight
  <2>4. /\ published' \in 0 .. MaxMessages /\ trimmed' \in 0 .. published'
       /\ lastDelivered' \in 0 .. published'
    BY DEF BeginMessage, IsFirst, redisVars, Fault, NoFault, Goto, TypeOK, Id
  <2>5. /\ owner' \in [Id -> Worker \cup {NoWorker}] /\ deliveries' \in [Id -> Nat]
       /\ dead' \subseteq Id /\ handled' \subseteq Id /\ acked' \subseteq Id
    BY DEF BeginMessage, IsFirst, redisVars, Fault, NoFault, Goto, TypeOK, Entry
  <2>6. group' \in BOOLEAN
    BY DEF BeginMessage, IsFirst, redisVars, Fault, NoFault, Goto, TypeOK
  <2>7. faults' \in 0 .. MaxFaults
    BY DEF BeginMessage, IsFirst, redisVars, Fault, NoFault, Goto, TypeOK
  <2> QED BY <2>1, <2>2, <2>3, <2>4, <2>5, <2>6, <2>7 DEF TypeOK
<1>2. DepthIsInFlight'
  BY DEF BeginMessage, IsFirst, redisVars, Fault, NoFault, Goto, TypeOK, DepthIsInFlight
<1>3. NothingForgotten'
  BY DEF BeginMessage, IsFirst, redisVars, Fault, NoFault, Goto, TypeOK, NothingForgotten, Settled, Id
<1>4. AckedIsSettled'
  BY AckedStable DEF BeginMessage, IsFirst, redisVars, Fault, NoFault, Goto
<1>5. RetriesExact'
  BY DEF BeginMessage, IsFirst, redisVars, Fault, NoFault, Goto, TypeOK, RetriesExact, OneHolder, Entry, Id
<1>6. OneHolder'
  <2> SUFFICES ASSUME NEW v \in Worker
               PROVE  /\ \A k \in batch'[v] : owner'[k] = v
                      /\ \A f \in todo'[v] : owner'[f.id] = v /\ f.times = deliveries'[f.id]
    BY DEF OneHolder
  <2>1. CASE v # w
    BY <2>1 DEF BeginMessage, IsFirst, redisVars, Fault, NoFault, Goto, TypeOK, OneHolder, Settled, Entry
  <2>2. CASE v = w
    BY <2>2 DEF BeginMessage, IsFirst, redisVars, Fault, NoFault, Goto, TypeOK, OneHolder, Control, Settled, Entry
  <2> QED BY <2>1, <2>2
<1>7. Control'
  <2> SUFFICES ASSUME NEW v \in Worker
               PROVE  /\ pc'[v] \notin {"next", "callback", "ack"} => batch'[v] = {}
                      /\ pc'[v] = "ack" =>
                           \A k \in Id : IsFirst(k, batch'[v]) => k \in handled'
                      /\ pc'[v] = "dlAck" => \A f \in todo'[v] :
                           IsFirstEntry(f, todo'[v]) => f.id \in dead' \/ f.id <= trimmed'
                      /\ \A k \in batch'[v], f \in todo'[v] : k # f.id
    BY DEF Control, IsFirst, IsFirstEntry
  <2>1. CASE v # w
    BY <2>1 DEF BeginMessage, IsFirst, redisVars, Fault, NoFault, Goto, TypeOK, Control
  <2>2. CASE v = w
    BY <2>2 DEF BeginMessage, IsFirst, redisVars, Fault, NoFault, Goto, TypeOK, OneHolder, Control, Settled, Entry
  <2> QED BY <2>1, <2>2
<1>8. Settled'
  BY DEF BeginMessage, IsFirst, redisVars, Fault, NoFault, Goto, TypeOK, OneHolder, Control, Settled, Entry, Id
<1> QED BY <1>1, <1>2, <1>3, <1>4, <1>5, <1>6, <1>7, <1>8

\* The callback's two ends.
LEMMA OnMessageInv ==
  ASSUME IInv, NEW w \in Worker, NEW m \in batch[w], OnMessageReturns(w, m) \/ OnMessageRaises(w, m)
  PROVE  IInv'
<1> USE ConstantsAssumption DEF IInv
<1>1. TypeOK'
  <2>1. pc' \in [Worker -> PcValue] /\ stop' \in [Worker -> BOOLEAN]
    BY DEF OnMessageReturns, OnMessageRaises, EndMessage, AfterMessage, IsFirst, redisVars, Fault, NoFault, Goto, TypeOK, PcValue
  <2>2. batch' \in [Worker -> SUBSET Id] /\ todo' \in [Worker -> SUBSET Entry]
    BY DEF OnMessageReturns, OnMessageRaises, EndMessage, AfterMessage, IsFirst, redisVars, Fault, NoFault, Goto, TypeOK
  <2>3. depth' \in [Worker -> Nat]
    BY DEF OnMessageReturns, OnMessageRaises, EndMessage, AfterMessage, IsFirst, redisVars, Fault, NoFault, Goto, TypeOK, DepthIsInFlight
  <2>4. /\ published' \in 0 .. MaxMessages /\ trimmed' \in 0 .. published'
       /\ lastDelivered' \in 0 .. published'
    BY DEF OnMessageReturns, OnMessageRaises, EndMessage, AfterMessage, IsFirst, redisVars, Fault, NoFault, Goto, TypeOK, Id
  <2>5. /\ owner' \in [Id -> Worker \cup {NoWorker}] /\ deliveries' \in [Id -> Nat]
       /\ dead' \subseteq Id /\ handled' \subseteq Id /\ acked' \subseteq Id
    BY DEF OnMessageReturns, OnMessageRaises, EndMessage, AfterMessage, IsFirst, redisVars, Fault, NoFault, Goto, TypeOK, Entry
  <2>6. group' \in BOOLEAN
    BY DEF OnMessageReturns, OnMessageRaises, EndMessage, AfterMessage, IsFirst, redisVars, Fault, NoFault, Goto, TypeOK
  <2>7. faults' \in 0 .. MaxFaults
    BY DEF OnMessageReturns, OnMessageRaises, EndMessage, AfterMessage, IsFirst, redisVars, Fault, NoFault, Goto, TypeOK
  <2> QED BY <2>1, <2>2, <2>3, <2>4, <2>5, <2>6, <2>7 DEF TypeOK
<1>2. DepthIsInFlight'
  BY DEF OnMessageReturns, OnMessageRaises, EndMessage, AfterMessage, IsFirst, redisVars, Fault, NoFault, Goto, TypeOK, DepthIsInFlight
<1>3. NothingForgotten'
  BY DEF OnMessageReturns, OnMessageRaises, EndMessage, AfterMessage, IsFirst, redisVars, Fault, NoFault, Goto, TypeOK, NothingForgotten, Settled, Id
<1>4. AckedIsSettled'
  BY AckedStable DEF OnMessageReturns, OnMessageRaises, EndMessage, AfterMessage, IsFirst, redisVars, Fault, NoFault, Goto
<1>5. RetriesExact'
  BY DEF OnMessageReturns, OnMessageRaises, EndMessage, AfterMessage, IsFirst, redisVars, Fault, NoFault, Goto, TypeOK, RetriesExact, OneHolder, Entry, Id
<1>6. OneHolder'
  <2> SUFFICES ASSUME NEW v \in Worker
               PROVE  /\ \A k \in batch'[v] : owner'[k] = v
                      /\ \A f \in todo'[v] : owner'[f.id] = v /\ f.times = deliveries'[f.id]
    BY DEF OneHolder
  <2>1. CASE v # w
    BY <2>1 DEF OnMessageReturns, OnMessageRaises, EndMessage, AfterMessage, IsFirst, redisVars, Fault, NoFault, Goto, TypeOK, OneHolder, Settled, Entry
  <2>2. CASE v = w
    BY <2>2 DEF OnMessageReturns, OnMessageRaises, EndMessage, AfterMessage, IsFirst, redisVars, Fault, NoFault, Goto, TypeOK, OneHolder, Control, Settled, Entry
  <2> QED BY <2>1, <2>2
<1>7. Control'
  <2> SUFFICES ASSUME NEW v \in Worker
               PROVE  /\ pc'[v] \notin {"next", "callback", "ack"} => batch'[v] = {}
                      /\ pc'[v] = "ack" =>
                           \A k \in Id : IsFirst(k, batch'[v]) => k \in handled'
                      /\ pc'[v] = "dlAck" => \A f \in todo'[v] :
                           IsFirstEntry(f, todo'[v]) => f.id \in dead' \/ f.id <= trimmed'
                      /\ \A k \in batch'[v], f \in todo'[v] : k # f.id
    BY DEF Control, IsFirst, IsFirstEntry
  <2>1. CASE v # w
    BY <2>1 DEF OnMessageReturns, OnMessageRaises, EndMessage, Goto, redisVars, TypeOK,
       Control, IsFirst
  <2>2. CASE v = w /\ OnMessageReturns(w, m)
    <3>1. batch' = batch /\ todo' = todo /\ pc'[w] = "ack" /\ m \in handled'
      BY <2>2 DEF OnMessageReturns, Goto, TypeOK
    <3>2. ASSUME NEW k \in Id, IsFirst(k, batch[w]) PROVE k = m
      <4>1. k \in Int /\ m \in Int
        BY DEF TypeOK, Id
      <4>2. k <= m /\ m <= k
        BY <2>2, <3>2 DEF OnMessageReturns, IsFirst
      <4> QED BY <4>1, <4>2
    <3> QED BY <2>2, <3>1, <3>2 DEF Control
  <2>3. CASE v = w /\ OnMessageRaises(w, m)
    <3>1. /\ pc'[w] \in {"next", "recover", "poll"} /\ todo' = todo
          /\ batch'[w] = batch[w] \ {m} /\ (pc'[w] # "next" => batch'[w] = {})
      BY <2>3 DEF OnMessageRaises, EndMessage, AfterMessage, Goto, TypeOK
    <3> QED BY <2>3, <3>1 DEF Control
  <2> QED BY <2>1, <2>2, <2>3
<1>8. Settled'
  BY DEF OnMessageReturns, OnMessageRaises, EndMessage, AfterMessage, IsFirst, redisVars, Fault, NoFault, Goto, TypeOK, OneHolder, Control, Settled, Entry, Id
<1> QED BY <1>1, <1>2, <1>3, <1>4, <1>5, <1>6, <1>7, <1>8

\* Acknowledging a message.
LEMMA AckInv ==
  ASSUME IInv, NEW w \in Worker, NEW m \in batch[w], Ack(w, m)
  PROVE  IInv'
<1> USE ConstantsAssumption DEF IInv
<1>1. TypeOK'
  <2>1. pc' \in [Worker -> PcValue] /\ stop' \in [Worker -> BOOLEAN]
    BY DEF Ack, TryAck, AckInRedis, EndMessage, AfterMessage, IsFirst, redisVars, Fault, NoFault, Goto, TypeOK, PcValue
  <2>2. batch' \in [Worker -> SUBSET Id] /\ todo' \in [Worker -> SUBSET Entry]
    BY DEF Ack, TryAck, AckInRedis, EndMessage, AfterMessage, IsFirst, redisVars, Fault, NoFault, Goto, TypeOK
  <2>3. depth' \in [Worker -> Nat]
    BY DEF Ack, TryAck, AckInRedis, EndMessage, AfterMessage, IsFirst, redisVars, Fault, NoFault, Goto, TypeOK, DepthIsInFlight
  <2>4. /\ published' \in 0 .. MaxMessages /\ trimmed' \in 0 .. published'
       /\ lastDelivered' \in 0 .. published'
    BY DEF Ack, TryAck, AckInRedis, EndMessage, AfterMessage, IsFirst, redisVars, Fault, NoFault, Goto, TypeOK, Id
  <2>5. /\ owner' \in [Id -> Worker \cup {NoWorker}] /\ deliveries' \in [Id -> Nat]
       /\ dead' \subseteq Id /\ handled' \subseteq Id /\ acked' \subseteq Id
    BY DEF Ack, TryAck, AckInRedis, EndMessage, AfterMessage, IsFirst, redisVars, Fault, NoFault, Goto, TypeOK, Entry
  <2>6. group' \in BOOLEAN
    BY DEF Ack, TryAck, AckInRedis, EndMessage, AfterMessage, IsFirst, redisVars, Fault, NoFault, Goto, TypeOK
  <2>7. faults' \in 0 .. MaxFaults
    BY DEF Ack, TryAck, AckInRedis, EndMessage, AfterMessage, IsFirst, redisVars, Fault, NoFault, Goto, TypeOK
  <2> QED BY <2>1, <2>2, <2>3, <2>4, <2>5, <2>6, <2>7 DEF TypeOK
<1>2. DepthIsInFlight'
  BY DEF Ack, TryAck, AckInRedis, EndMessage, AfterMessage, IsFirst, redisVars, Fault, NoFault, Goto, TypeOK, DepthIsInFlight
<1>3. NothingForgotten'
  BY DEF Ack, TryAck, AckInRedis, EndMessage, AfterMessage, IsFirst, redisVars, Fault, NoFault, Goto, TypeOK, NothingForgotten, Settled, Id
<1>4. AckedIsSettled'
  <2>1. m \in Id /\ m \in handled
    BY DEF Ack, Control, TypeOK
  <2> QED BY <2>1, AckedGrows DEF Ack, TryAck, AckInRedis
<1>5. RetriesExact'
  BY DEF Ack, TryAck, AckInRedis, EndMessage, AfterMessage, IsFirst, redisVars, Fault, NoFault, Goto, TypeOK, RetriesExact, OneHolder, Entry, Id
<1>6. OneHolder'
  <2> SUFFICES ASSUME NEW v \in Worker
               PROVE  /\ \A k \in batch'[v] : owner'[k] = v
                      /\ \A f \in todo'[v] : owner'[f.id] = v /\ f.times = deliveries'[f.id]
    BY DEF OneHolder
  <2>1. CASE v # w
    BY <2>1 DEF Ack, TryAck, AckInRedis, EndMessage, AfterMessage, IsFirst, redisVars, Fault, NoFault, Goto, TypeOK, OneHolder, Settled, Entry
  <2>2. CASE v = w
    BY <2>2 DEF Ack, TryAck, AckInRedis, EndMessage, AfterMessage, IsFirst, redisVars, Fault, NoFault, Goto, TypeOK, OneHolder, Control, Settled, Entry
  <2> QED BY <2>1, <2>2
<1>7. Control'
  <2> SUFFICES ASSUME NEW v \in Worker
               PROVE  /\ pc'[v] \notin {"next", "callback", "ack"} => batch'[v] = {}
                      /\ pc'[v] = "ack" =>
                           \A k \in Id : IsFirst(k, batch'[v]) => k \in handled'
                      /\ pc'[v] = "dlAck" => \A f \in todo'[v] :
                           IsFirstEntry(f, todo'[v]) => f.id \in dead' \/ f.id <= trimmed'
                      /\ \A k \in batch'[v], f \in todo'[v] : k # f.id
    BY DEF Control, IsFirst, IsFirstEntry
  <2>1. CASE v # w
    BY <2>1 DEF Ack, TryAck, AckInRedis, EndMessage, AfterMessage, IsFirst, redisVars, Fault, NoFault, Goto, TypeOK, Control
  <2>2. CASE v = w
    BY <2>2 DEF Ack, TryAck, AckInRedis, EndMessage, AfterMessage, IsFirst, redisVars, Fault, NoFault, Goto, TypeOK, OneHolder, Control, Settled, Entry
  <2> QED BY <2>1, <2>2
<1>8. Settled'
  BY DEF Ack, TryAck, AckInRedis, EndMessage, AfterMessage, IsFirst, redisVars, Fault, NoFault, Goto, TypeOK, OneHolder, Control, Settled, Entry, Id
<1> QED BY <1>1, <1>2, <1>3, <1>4, <1>5, <1>6, <1>7, <1>8

\* Stopping, ending and crashing.
LEMMA LifecycleInv ==
  ASSUME IInv, NEW w \in Worker, RequestStop(w) \/ Exit(w) \/ Crash(w)
  PROVE  IInv'
<1> USE ConstantsAssumption DEF IInv
<1>1. TypeOK'
  <2>1. pc' \in [Worker -> PcValue] /\ stop' \in [Worker -> BOOLEAN]
    BY DEF RequestStop, Exit, Crash, Vanish, IsFirst, IsFirstEntry, redisVars, Fault, NoFault, Goto, TypeOK, PcValue
  <2>2. batch' \in [Worker -> SUBSET Id] /\ todo' \in [Worker -> SUBSET Entry]
    BY DEF RequestStop, Exit, Crash, Vanish, IsFirst, IsFirstEntry, redisVars, Fault, NoFault, Goto, TypeOK
  <2>3. depth' \in [Worker -> Nat]
    BY DEF RequestStop, Exit, Crash, Vanish, IsFirst, IsFirstEntry, redisVars, Fault, NoFault, Goto, TypeOK, DepthIsInFlight
  <2>4. /\ published' \in 0 .. MaxMessages /\ trimmed' \in 0 .. published'
       /\ lastDelivered' \in 0 .. published'
    BY DEF RequestStop, Exit, Crash, Vanish, IsFirst, IsFirstEntry, redisVars, Fault, NoFault, Goto, TypeOK, Id
  <2>5. /\ owner' \in [Id -> Worker \cup {NoWorker}] /\ deliveries' \in [Id -> Nat]
       /\ dead' \subseteq Id /\ handled' \subseteq Id /\ acked' \subseteq Id
    BY DEF RequestStop, Exit, Crash, Vanish, IsFirst, IsFirstEntry, redisVars, Fault, NoFault, Goto, TypeOK, Entry
  <2>6. group' \in BOOLEAN
    BY DEF RequestStop, Exit, Crash, Vanish, IsFirst, IsFirstEntry, redisVars, Fault, NoFault, Goto, TypeOK
  <2>7. faults' \in 0 .. MaxFaults
    BY DEF RequestStop, Exit, Crash, Vanish, IsFirst, IsFirstEntry, redisVars, Fault, NoFault, Goto, TypeOK
  <2> QED BY <2>1, <2>2, <2>3, <2>4, <2>5, <2>6, <2>7 DEF TypeOK
<1>2. DepthIsInFlight'
  BY DEF RequestStop, Exit, Crash, Vanish, IsFirst, IsFirstEntry, redisVars, Fault, NoFault, Goto, TypeOK, DepthIsInFlight
<1>3. NothingForgotten'
  BY DEF RequestStop, Exit, Crash, Vanish, IsFirst, IsFirstEntry, redisVars, Fault, NoFault, Goto, TypeOK, NothingForgotten, Settled, Id
<1>4. AckedIsSettled'
  BY AckedStable DEF RequestStop, Exit, Crash, Vanish, IsFirst, IsFirstEntry, redisVars, Fault, NoFault, Goto
<1>5. RetriesExact'
  BY DEF RequestStop, Exit, Crash, Vanish, IsFirst, IsFirstEntry, redisVars, Fault, NoFault, Goto, TypeOK, RetriesExact, OneHolder, Entry, Id
<1>6. OneHolder'
  <2> SUFFICES ASSUME NEW v \in Worker
               PROVE  /\ \A k \in batch'[v] : owner'[k] = v
                      /\ \A f \in todo'[v] : owner'[f.id] = v /\ f.times = deliveries'[f.id]
    BY DEF OneHolder
  <2>1. CASE v # w
    BY <2>1 DEF RequestStop, Exit, Crash, Vanish, IsFirst, IsFirstEntry, redisVars, Fault, NoFault, Goto, TypeOK, OneHolder, Settled, Entry
  <2>2. CASE v = w
    BY <2>2 DEF RequestStop, Exit, Crash, Vanish, IsFirst, IsFirstEntry, redisVars, Fault, NoFault, Goto, TypeOK, OneHolder, Control, Settled, Entry
  <2> QED BY <2>1, <2>2
<1>7. Control'
  <2> SUFFICES ASSUME NEW v \in Worker
               PROVE  /\ pc'[v] \notin {"next", "callback", "ack"} => batch'[v] = {}
                      /\ pc'[v] = "ack" =>
                           \A k \in Id : IsFirst(k, batch'[v]) => k \in handled'
                      /\ pc'[v] = "dlAck" => \A f \in todo'[v] :
                           IsFirstEntry(f, todo'[v]) => f.id \in dead' \/ f.id <= trimmed'
                      /\ \A k \in batch'[v], f \in todo'[v] : k # f.id
    BY DEF Control, IsFirst, IsFirstEntry
  <2>1. CASE v # w
    BY <2>1 DEF RequestStop, Exit, Crash, Vanish, IsFirst, IsFirstEntry, redisVars, Fault, NoFault, Goto, TypeOK, Control
  <2>2. CASE v = w
    BY <2>2 DEF RequestStop, Exit, Crash, Vanish, IsFirst, IsFirstEntry, redisVars, Fault, NoFault, Goto, TypeOK, OneHolder, Control, Settled, Entry
  <2> QED BY <2>1, <2>2
<1>8. Settled'
  BY DEF RequestStop, Exit, Crash, Vanish, IsFirst, IsFirstEntry, redisVars, Fault, NoFault, Goto, TypeOK, OneHolder, Control, Settled, Entry, Id
<1> QED BY <1>1, <1>2, <1>3, <1>4, <1>5, <1>6, <1>7, <1>8

-----------------------------------------------------------------------------
\* The theorems.

\* Every step preserves the invariant.
LEMMA NextIInv == IInv /\ [Next]_vars => IInv'
<1> SUFFICES ASSUME IInv, [Next]_vars PROVE IInv'
  OBVIOUS
<1>1. CASE UNCHANGED vars
  BY <1>1 DEF vars, redisVars, workerVars, IInv, TypeOK, DepthIsInFlight,
     NothingForgotten, AckedIsSettled, RetriesExact, OneHolder, Control, Settled,
     IsFirst, IsFirstEntry
<1>2. ASSUME NEW n \in Id, Publish(n) PROVE IInv'
  BY <1>2, PublishInv
<1>3. ASSUME NEW w \in Worker, EnsureGroup(w) PROVE IInv'
  BY <1>3, EnsureGroupInv
<1>4. ASSUME NEW w \in Worker, RequestStop(w) \/ Exit(w) \/ Crash(w) PROVE IInv'
  BY <1>4, LifecycleInv
<1>5. ASSUME NEW w \in Worker, ListPending(w) PROVE IInv'
  BY <1>5, ListPendingInv
<1>6. ASSUME NEW w \in Worker, NEW e \in todo[w],
             Claim(w, e) \/ DeadLetterAdd(w, e) \/ DeadLetterAck(w, e)
      PROVE  IInv'
  BY <1>6, ClaimInv, DeadLetterAddInv, DeadLetterAckInv
<1>7. ASSUME NEW w \in Worker, CheckLoop(w) \/ LeaveLoop(w) PROVE IInv'
  BY <1>7, LoopInv
<1>8. ASSUME NEW w \in Worker, ReadNew(w) PROVE IInv'
  BY <1>8, ReadNewInv
<1>9. ASSUME NEW w \in Worker, NEW m \in batch[w],
             BeginMessage(w, m) \/ OnMessageReturns(w, m) \/ OnMessageRaises(w, m)
               \/ Ack(w, m)
      PROVE  IInv'
  BY <1>9, BeginMessageInv, OnMessageInv, AckInv
<1> QED BY <1>1, <1>2, <1>3, <1>4, <1>5, <1>6, <1>7, <1>8, <1>9 DEF Next, Run

\* The invariant holds in every reachable state.
THEOREM Invariance == Spec => []IInv
BY InitIInv, NextIInv, PTL DEF Spec

\* The state has the declared types (the consumer group, the PEL and the state of
\* every AlertStreamConsumer).
THEOREM TypeCorrect == Spec => []TypeOK
<1>1. IInv => TypeOK
  BY DEF IInv
<1> QED BY <1>1, Invariance, PTL

\* No message the group's cursor has passed is forgotten, whatever crashes, fails
\* or is trimmed: it is pending, acknowledged or expired.
THEOREM NothingIsForgotten == Spec => []NothingForgotten
<1>1. IInv => NothingForgotten
  BY DEF IInv
<1> QED BY <1>1, Invariance, PTL

\* XACK is only ever sent for a message on_message accepted, or for one that is in
\* the dead-letter stream or has expired.
THEOREM AckIsEarned == Spec => []AckedIsSettled
<1>1. IInv => AckedIsSettled
  BY DEF IInv
<1> QED BY <1>1, Invariance, PTL

\* A message is delivered at most MaxRetries + 1 times, and dead-lettered only after
\* exactly that many deliveries.
THEOREM RetriesAreExact == Spec => []RetriesExact
<1>1. IInv => RetriesExact
  BY DEF IInv
<1> QED BY <1>1, Invariance, PTL

\* No two workers go through the same message, and a worker never acts on an
\* outdated delivery count.
THEOREM OneWorkerPerMessage == Spec => []OneHolder
<1>1. IInv => OneHolder
  BY DEF IInv
<1> QED BY <1>1, Invariance, PTL

\* _queue_depth is 0 whenever the back-pressure check reads it.
THEOREM DepthCountsInFlight == Spec => []DepthIsInFlight
<1>1. IInv => DepthIsInFlight
  BY DEF IInv
<1> QED BY <1>1, Invariance, PTL

-----------------------------------------------------------------------------
\* The consumer implements AtLeastOnce.

\* Initial states map to initial states.
LEMMA InitRefines == Init => Promise!Init
BY DEF Init, Promise!Init

\* Every step maps to a step of AtLeastOnce, or to none.
LEMMA NextRefines == IInv /\ [Next]_vars => [Promise!Next]_(Promise!vars)
<1> SUFFICES ASSUME IInv, [Next]_vars
             PROVE  Promise!Next \/ UNCHANGED <<published, trimmed, handled, dead, acked>>
  BY DEF Promise!vars
<1> USE ConstantsAssumption
<1>1. CASE UNCHANGED vars
  BY <1>1 DEF vars, redisVars
<1>2. ASSUME NEW n \in Id, Publish(n) PROVE Promise!Publish
  <2>1. published' = published + n /\ n >= 1 /\ published \in Int /\ n \in Int
    BY <1>2 DEF Publish, IInv, TypeOK, Id
  <2>2. trimmed' \in trimmed .. MaxMessages
        /\ (trimmed' > trimmed => trimmed' <= published' - MaxLen)
        /\ trimmed \in 0 .. published
    BY <1>2 DEF Publish, IInv, TypeOK
  <2>3. trimmed' >= trimmed /\ trimmed' <= published' /\ published' > published
    BY <2>1, <2>2
  <2> QED BY <1>2, <2>3 DEF Publish, Promise!Publish
<1>3. ASSUME NEW w \in Worker,
             \/ EnsureGroup(w) \/ RequestStop(w) \/ Exit(w) \/ Crash(w)
             \/ ListPending(w) \/ CheckLoop(w) \/ LeaveLoop(w) \/ ReadNew(w)
      PROVE  UNCHANGED <<published, trimmed, handled, dead, acked>>
  BY <1>3 DEF EnsureGroup, RequestStop, Exit, Crash, Vanish, ListPending, CheckLoop,
     LeaveLoop, ReadNew, redisVars
<1>4. ASSUME NEW w \in Worker, NEW e \in todo[w], Claim(w, e)
      PROVE  UNCHANGED <<published, trimmed, handled, dead, acked>>
  BY <1>4 DEF Claim
<1>5. ASSUME NEW w \in Worker, NEW m \in batch[w],
             BeginMessage(w, m) \/ OnMessageRaises(w, m)
      PROVE  UNCHANGED <<published, trimmed, handled, dead, acked>>
  BY <1>5 DEF BeginMessage, OnMessageRaises, redisVars
<1>6. ASSUME NEW w \in Worker, NEW e \in todo[w], DeadLetterAdd(w, e)
      PROVE  Promise!Bury(e.id) \/ UNCHANGED <<published, trimmed, handled, dead, acked>>
  <2>1. e.id \in Id /\ e.id \notin acked
    BY DEF IInv, TypeOK, OneHolder, Settled, Entry, ConstantsAssumption
  <2>2. UNCHANGED <<published, trimmed, handled, acked>>
    BY <1>6 DEF DeadLetterAdd
  <2>3. dead' = dead \/ (dead' = dead \cup {e.id} /\ e.id <= published)
    BY <1>6 DEF DeadLetterAdd, InStream
  <2> QED BY <2>1, <2>2, <2>3 DEF Promise!Bury
<1>7. ASSUME NEW w \in Worker, NEW m \in batch[w], OnMessageReturns(w, m)
      PROVE  Promise!Deliver(m)
  <2>1. m \in Id /\ m \notin acked /\ m <= published
    <3>1. m \in Id /\ owner[m] = w /\ owner[m] # NoWorker
      BY DEF IInv, TypeOK, OneHolder
    <3>2. m \notin acked /\ m <= lastDelivered
      BY <3>1 DEF IInv, Settled
    <3> QED BY <3>1, <3>2 DEF IInv, TypeOK, Id
  <2> QED BY <1>7, <2>1 DEF OnMessageReturns, redisVars, Promise!Deliver
<1>8. ASSUME NEW w \in Worker, NEW m \in batch[w], Ack(w, m)
      PROVE  Promise!Settle(m) \/ UNCHANGED <<published, trimmed, handled, dead, acked>>
  <2>1. m \in handled
    BY <1>8 DEF Ack, IInv, Control, TypeOK
  <2> QED BY <1>8, <2>1 DEF Ack, TryAck, AckInRedis, Promise!Settle
<1>9. ASSUME NEW w \in Worker, NEW e \in todo[w], DeadLetterAck(w, e)
      PROVE  Promise!Settle(e.id) \/ UNCHANGED <<published, trimmed, handled, dead, acked>>
  <2>1. e.id \in handled \cup dead \/ e.id <= trimmed
    BY <1>9 DEF DeadLetterAck, IInv, Control
  <2> QED BY <1>9, <2>1 DEF DeadLetterAck, TryAck, AckInRedis, Promise!Settle
<1>10. \A w \in Worker : /\ \A m \in batch[w] : m \in Id
                         /\ \A e \in todo[w] : e.id \in Id
  BY DEF IInv, TypeOK, Entry
<1> QED
  BY <1>1, <1>2, <1>3, <1>4, <1>5, <1>6, <1>7, <1>8, <1>9, <1>10
     DEF Next, Run, Promise!Next

\* AlertStreamConsumer delivers at least once to its callback: it implements
\* AtLeastOnce for every number of workers, crashes and failed calls.
THEOREM ConsumerIsAtLeastOnce == Spec => ImplementsAtLeastOnce
<1>1. Spec => []IInv
  BY Invariance
<1> QED BY <1>1, InitRefines, NextRefines, PTL DEF Spec, ImplementsAtLeastOnce, Promise!Spec

-----------------------------------------------------------------------------
\* The manager's inductive invariant.

ManagerTypes ==
  /\ pending \in [Worker -> Seq(Id)]
  /\ lock \in [Worker -> {"free", "consumer", "flusher"}]
  /\ stage \in [Worker -> {"none", "copied", "calling"}]
  /\ inflight \in [Worker -> Seq(Id)]
  /\ flusher \in [Worker -> {"off", "sleep", "due"}]
  /\ elapsed \in [Worker -> BOOLEAN]
  /\ taken \in [Worker -> [Id -> Nat]]
  /\ processed \in [Worker -> [Id -> Nat]]
  /\ lost \in [Worker -> [Id -> Nat]]

\* Who holds _lock, and where that thread and the other one are then.  The
\* consumer holds it only for a message on_message accepts.
LockDiscipline(w) ==
  /\ stage[w] = "none" <=> lock[w] = "free"
  /\ lock[w] = "consumer" =>
       pc[w] = "callback" /\ \A m \in batch[w] : IsFirst(m, batch[w]) => m \notin Poison
  /\ lock[w] = "flusher" => flusher[w] = "due"
  /\ flusher[w] = "off" <=> pc[w] \in {"down", "built"}

\* Between the copy and the clearing in _flush the copy is the batch, and
\* while the callback has the copy nothing is appended.
FlushIsExact(w) ==
  /\ stage[w] = "copied" => inflight[w] = pending[w]
  /\ stage[w] = "calling" => pending[w] = <<>>

Bounded(w) ==
  /\ Len(pending[w]) <= FlushSize
  /\ Len(pending[w]) = FlushSize => lock[w] = "consumer"

Accounted(w) ==
  \A m \in Id :
    taken[w][m] = processed[w][m] + lost[w][m] + Occurrences(m, Held(w))

WorkerInv(w) ==
  LockDiscipline(w) /\ FlushIsExact(w) /\ Bounded(w) /\ Accounted(w)

ManagerInv == ManagerTypes /\ \A w \in Worker : WorkerInv(w)

-----------------------------------------------------------------------------
\* The manager runs the consumer.

\* Every step of the manager is a step of the consumer, or leaves it alone.
LEMMA ManagerNextRefines == [ManagerNext]_allVars => [Next]_vars
<1> SUFFICES ASSUME [ManagerNext]_allVars PROVE Next \/ UNCHANGED vars
  OBVIOUS
<1>1. CASE UNCHANGED allVars
  BY <1>1 DEF allVars
<1>2. CASE Outside
  BY <1>2 DEF Outside, Next
<1>3. ASSUME NEW w \in Worker, ConsumerThread(w) PROVE Next \/ UNCHANGED vars
  <2>1. CASE Start(w)
    BY <2>1 DEF Start, Next, Run
  <2>2. CASE ConsumerOnly(w)
    BY <2>2 DEF ConsumerOnly, Next, Run
  <2>3. ASSUME NEW m \in batch[w],
               Accumulate(w, m) \/ AccumulateFull(w, m) \/ ConsumerFlushEnds(w, m)
        PROVE  Next \/ UNCHANGED vars
    BY <2>3 DEF Accumulate, AccumulateFull, ConsumerFlushEnds, Next, Run
  <2>4. CASE FlushClear(w)
    BY <2>4 DEF FlushClear
  <2> QED BY <1>3, <2>1, <2>2, <2>3, <2>4 DEF ConsumerThread
<1>4. ASSUME NEW w \in Worker, FlusherThread(w) \/ IntervalElapses(w)
      PROVE  UNCHANGED vars
  BY <1>4 DEF FlusherThread, FlusherWakes, FlusherFlushes, FlusherFlushEnds,
     FlushClear, IntervalElapses
<1>5. ASSUME NEW w \in Worker, Ends(w) PROVE Next
  BY <1>5 DEF Ends, Next
<1> QED BY <1>1, <1>2, <1>3, <1>4, <1>5 DEF ManagerNext

\* StreamingIngestionManager is a user of AlertStreamConsumer like any other:
\* whatever it does, the consumer behaves as StreamConsumer says.
THEOREM ManagerRunsConsumer == ManagerSpec => Spec
<1>1. ManagerInit => Init
  BY DEF ManagerInit
<1> QED BY <1>1, ManagerNextRefines, PTL DEF ManagerSpec, Spec

\* So the consumer's invariant holds under the manager,
THEOREM ConsumerInvariance == ManagerSpec => []IInv
BY ManagerRunsConsumer, Invariance

\* and on_message, which is _handle_message now, is still served at least once.
THEOREM ManagerIsAtLeastOnce == ManagerSpec => ImplementsAtLeastOnce
BY ManagerRunsConsumer, ConsumerIsAtLeastOnce

-----------------------------------------------------------------------------
\* How often a message occurs in a batch.

\* Not at all in the empty one.
LEMMA OccurrencesEmpty ==
  ASSUME NEW m PROVE Occurrences(m, <<>>) = 0
<1>1. {i \in DOMAIN <<>> : <<>>[i] = m} = {}
  OBVIOUS
<1> QED BY <1>1, FS_EmptySet DEF Occurrences

\* A natural number of times in any batch.
LEMMA OccurrencesType ==
  ASSUME NEW S, NEW s \in Seq(S), NEW m PROVE Occurrences(m, s) \in Nat
<1>1. IsFiniteSet(1 .. Len(s))
  BY FS_Interval
<1>2. {i \in DOMAIN s : s[i] = m} \subseteq 1 .. Len(s)
  OBVIOUS
<1> QED BY <1>1, <1>2, FS_Subset, FS_CardinalityType DEF Occurrences

\* Appending a message adds one occurrence of it and none of another.
LEMMA OccurrencesAppend ==
  ASSUME NEW S, NEW s \in Seq(S), NEW k \in S, NEW m
  PROVE  Occurrences(m, Append(s, k)) = Occurrences(m, s) + (IF m = k THEN 1 ELSE 0)
<1> DEFINE Old == {i \in DOMAIN s : s[i] = m}
           New == {i \in DOMAIN Append(s, k) : Append(s, k)[i] = m}
<1>1. IsFiniteSet(Old) /\ Len(s) + 1 \notin Old
  <2>1. IsFiniteSet(1 .. Len(s)) /\ Old \subseteq 1 .. Len(s)
    BY FS_Interval
  <2> QED BY <2>1, FS_Subset
<1>2. m = k => New = Old \cup {Len(s) + 1}
  OBVIOUS
<1>3. m # k => New = Old
  OBVIOUS
<1>4. Occurrences(m, s) = Cardinality(Old) /\ Occurrences(m, Append(s, k)) = Cardinality(New)
  BY DEF Occurrences
<1> HIDE DEF Old, New
<1>5. Cardinality(Old) \in Nat
  BY <1>1, FS_CardinalityType
<1> QED BY <1>1, <1>2, <1>3, <1>4, <1>5, FS_AddElement

\* What is held is a batch, and its occurrences can be counted.
LEMMA HeldType ==
  ASSUME ManagerTypes, NEW w \in Worker
  PROVE  Held(w) \in Seq(Id) /\ \A m \in Id : Occurrences(m, Held(w)) \in Nat
<1>1. Held(w) \in Seq(Id)
  BY DEF Held, ManagerTypes
<1> QED BY <1>1, OccurrencesType

-----------------------------------------------------------------------------
\* The invariant holds initially.

\* It holds with an empty batch and both threads idle.
LEMMA InitManagerInv == ManagerInit => ManagerInv
<1> SUFFICES ASSUME ManagerInit PROVE ManagerInv
  OBVIOUS
<1> USE ManagerAssumption
<1>1. ManagerTypes
  BY DEF ManagerInit, ManagerTypes
<1>2. ASSUME NEW w \in Worker PROVE WorkerInv(w)
  <2>1. LockDiscipline(w) /\ FlushIsExact(w) /\ Bounded(w)
    BY DEF ManagerInit, Init, LockDiscipline, FlushIsExact, Bounded
  <2>2. Accounted(w)
    BY OccurrencesEmpty DEF ManagerInit, Accounted, Held
  <2> QED BY <2>1, <2>2 DEF WorkerInv
<1> QED BY <1>1, <1>2 DEF ManagerInv

-----------------------------------------------------------------------------
\* What a step leaves alone.

\* A step that touches nothing of worker v's manager keeps v's invariant, if
\* the consumer's thread of v does not move while it holds the lock, and does
\* not start or end.
LEMMA WorkerFrame ==
  ASSUME NEW v \in Worker, WorkerInv(v),
         pending'[v] = pending[v], lock'[v] = lock[v], stage'[v] = stage[v],
         inflight'[v] = inflight[v], flusher'[v] = flusher[v],
         taken'[v] = taken[v], processed'[v] = processed[v], lost'[v] = lost[v],
         lock[v] = "consumer" => pc'[v] = pc[v] /\ batch'[v] = batch[v],
         pc'[v] \in {"down", "built"} <=> pc[v] \in {"down", "built"}
  PROVE  WorkerInv(v)'
<1>1. LockDiscipline(v)' /\ FlushIsExact(v)' /\ Bounded(v)'
  BY DEF WorkerInv, LockDiscipline, FlushIsExact, Bounded, IsFirst
<1>2. Held(v)' = Held(v)
  BY DEF Held
<1>3. Accounted(v)'
  BY <1>2 DEF WorkerInv, Accounted, Occurrences
<1> QED BY <1>1, <1>3 DEF WorkerInv

\* Steps of the stream, the producer and the consumer outside on_message.
LEMMA ConsumerOnlyInv ==
  ASSUME IInv, ManagerInv,
         Outside \/ \E w \in Worker : ConsumerOnly(w)
  PROVE  ManagerInv'
<1>1. UNCHANGED <<managerVars, historyVars>>
  BY DEF Outside, ConsumerOnly
<1>2. ManagerTypes'
  BY <1>1 DEF ManagerInv, ManagerTypes, managerVars, historyVars
<1>3. ASSUME NEW v \in Worker
      PROVE  /\ lock[v] = "consumer" => pc'[v] = pc[v] /\ batch'[v] = batch[v]
             /\ pc'[v] \in {"down", "built"} <=> pc[v] \in {"down", "built"}
  <2> USE DEF IInv, TypeOK, Goto, redisVars, workerVars, EndMessage, AfterMessage, AfterEntry
  <2>1. lock[v] = "consumer" =>
          pc[v] = "callback" /\ \A m \in batch[v] : IsFirst(m, batch[v]) => m \notin Poison
    BY DEF ManagerInv, WorkerInv, LockDiscipline
  <2>2. ASSUME NEW n \in Id, Publish(n) PROVE UNCHANGED <<pc, batch>>
    BY <2>2 DEF Publish
  <2>3. ASSUME NEW w \in Worker, EnsureGroup(w) \/ RequestStop(w) PROVE <1>3!2
    BY <2>1, <2>3 DEF EnsureGroup, RequestStop
  <2>4. ASSUME NEW w \in Worker, NEW e \in todo[w],
               Claim(w, e) \/ DeadLetterAdd(w, e) \/ DeadLetterAck(w, e)
        PROVE  <1>3!2
    BY <2>1, <2>4 DEF Claim, DeadLetterAdd, DeadLetterAck
  <2>5. ASSUME NEW w \in Worker, CheckLoop(w) \/ LeaveLoop(w) \/ ReadNew(w)
        PROVE  <1>3!2
    BY <2>1, <2>5 DEF CheckLoop, LeaveLoop, ReadNew
  <2>6. ASSUME NEW w \in Worker, NEW m \in batch[w],
               BeginMessage(w, m) \/ OnMessageRaises(w, m) \/ Ack(w, m)
        PROVE  <1>3!2
    BY <2>1, <2>6 DEF BeginMessage, OnMessageRaises, Ack
  <2> QED BY <2>2, <2>3, <2>4, <2>5, <2>6 DEF Outside, ConsumerOnly
<1>4. ASSUME NEW v \in Worker PROVE WorkerInv(v)'
  BY <1>1, <1>3, <1>4, WorkerFrame DEF ManagerInv, managerVars, historyVars
<1> QED BY <1>2, <1>4 DEF ManagerInv

\* A step of worker w that touches nothing of the others keeps the invariant if
\* it keeps the types and w's own part.
LEMMA OneWorkerStep ==
  ASSUME ManagerInv, NEW w \in Worker, ManagerTypes', WorkerInv(w)',
         \A v \in Worker \ {w} :
           /\ pending'[v] = pending[v] /\ lock'[v] = lock[v] /\ stage'[v] = stage[v]
           /\ inflight'[v] = inflight[v] /\ flusher'[v] = flusher[v]
           /\ taken'[v] = taken[v] /\ processed'[v] = processed[v] /\ lost'[v] = lost[v]
           /\ pc'[v] = pc[v] /\ batch'[v] = batch[v]
  PROVE  ManagerInv'
<1>1. ASSUME NEW v \in Worker \ {w} PROVE WorkerInv(v)'
  BY WorkerFrame DEF ManagerInv
<1> QED BY <1>1 DEF ManagerInv

-----------------------------------------------------------------------------
\* The steps of on_message, _flush and the flusher.

\* on_message appends to a batch that stays short.
LEMMA AccumulateInv ==
  ASSUME IInv, ManagerInv, NEW w \in Worker, NEW m \in batch[w], Accumulate(w, m)
  PROVE  ManagerInv'
<1> USE ManagerAssumption
<1>0. m \in Id /\ pc \in [Worker -> PcValue]
  BY DEF IInv, TypeOK
<1>1. ManagerTypes'
  BY <1>0 DEF Accumulate, ManagerInv, ManagerTypes
<1>2. WorkerInv(w)'
  <2>1. LockDiscipline(w)' /\ FlushIsExact(w)'
    BY <1>0 DEF Accumulate, LockFree, OnMessageReturns, Goto, ManagerInv, ManagerTypes, WorkerInv,
       LockDiscipline, FlushIsExact
  <2>2. Bounded(w)'
    BY <1>0 DEF Accumulate, IsFull, ManagerInv, ManagerTypes, Bounded
  <2>3. Held(w) = pending[w] /\ Held(w)' = Append(pending[w], m)
    BY <1>0 DEF Accumulate, LockFree, ManagerInv, ManagerTypes, WorkerInv, LockDiscipline, Held
  <2>4. Accounted(w)'
    <3> SUFFICES ASSUME NEW k \in Id
                 PROVE  taken'[w][k] = processed'[w][k] + lost'[w][k]
                                         + Occurrences(k, Held(w)')
      BY DEF Accounted, Occurrences
    <3>1. Occurrences(k, Append(pending[w], m)) =
            Occurrences(k, pending[w]) + (IF k = m THEN 1 ELSE 0)
      BY <1>0, OccurrencesAppend DEF ManagerInv, ManagerTypes
    <3>2. Occurrences(k, pending[w]) \in Nat
      BY OccurrencesType DEF ManagerInv, ManagerTypes
    <3>3. taken'[w][k] = taken[w][k] + (IF k = m THEN 1 ELSE 0)
          /\ processed' = processed /\ lost' = lost
      BY <1>0 DEF Accumulate, ManagerInv, ManagerTypes
    <3>4. taken[w][k] = processed[w][k] + lost[w][k] + Occurrences(k, pending[w])
      BY <2>3 DEF ManagerInv, WorkerInv, Accounted
    <3>5. processed[w][k] \in Nat /\ lost[w][k] \in Nat
      BY DEF ManagerInv, ManagerTypes
    <3> QED BY <2>3, <3>1, <3>2, <3>3, <3>4, <3>5
  <2> QED BY <2>1, <2>2, <2>4 DEF WorkerInv
<1> QED
  BY <1>0, <1>1, <1>2, OneWorkerStep
     DEF Accumulate, OnMessageReturns, Goto, ManagerInv, ManagerTypes

\* on_message fills the batch, keeps the lock and copies it.
LEMMA AccumulateFullInv ==
  ASSUME IInv, ManagerInv, NEW w \in Worker, NEW m \in batch[w], AccumulateFull(w, m)
  PROVE  ManagerInv'
<1> USE ManagerAssumption
<1>0. m \in Id /\ batch[w] \subseteq Int
  BY DEF IInv, TypeOK, Id
<1>1. ManagerTypes'
  BY <1>0 DEF AccumulateFull, ManagerInv, ManagerTypes
<1>2. WorkerInv(w)'
  <2>1. LockDiscipline(w)'
    <3>1. \A k \in batch[w] : IsFirst(k, batch[w]) => k = m
      BY <1>0 DEF AccumulateFull, IsFirst
    <3>2. lock'[w] = "consumer" /\ stage'[w] = "copied" /\ UNCHANGED <<pc, batch, flusher>>
      BY DEF AccumulateFull, ManagerInv, ManagerTypes, vars, workerVars
    <3> QED BY <3>1, <3>2 DEF AccumulateFull, ManagerInv, WorkerInv, LockDiscipline, IsFirst
  <2>2. FlushIsExact(w)'
    BY DEF AccumulateFull, ManagerInv, ManagerTypes, FlushIsExact
  <2>3. Bounded(w)'
    <3>1. Len(pending[w]) <= FlushSize /\ Len(pending[w]) # FlushSize
      BY DEF AccumulateFull, LockFree, ManagerInv, WorkerInv, Bounded
    <3>2. Len(pending'[w]) = Len(pending[w]) + 1 /\ lock'[w] = "consumer"
          /\ Len(pending[w]) \in Nat
      BY <1>0 DEF AccumulateFull, ManagerInv, ManagerTypes
    <3> QED BY <3>1, <3>2 DEF Bounded
  <2>4. Held(w) = pending[w] /\ Held(w)' = Append(pending[w], m)
    BY <1>0 DEF AccumulateFull, LockFree, ManagerInv, ManagerTypes, WorkerInv, LockDiscipline, Held
  <2>5. Accounted(w)'
    <3> SUFFICES ASSUME NEW k \in Id
                 PROVE  taken'[w][k] = processed'[w][k] + lost'[w][k]
                                         + Occurrences(k, Held(w)')
      BY DEF Accounted, Occurrences
    <3>1. Occurrences(k, Append(pending[w], m)) =
            Occurrences(k, pending[w]) + (IF k = m THEN 1 ELSE 0)
      BY <1>0, OccurrencesAppend DEF ManagerInv, ManagerTypes
    <3>2. Occurrences(k, pending[w]) \in Nat
      BY OccurrencesType DEF ManagerInv, ManagerTypes
    <3>3. taken'[w][k] = taken[w][k] + (IF k = m THEN 1 ELSE 0)
          /\ processed' = processed /\ lost' = lost
      BY <1>0 DEF AccumulateFull, ManagerInv, ManagerTypes
    <3>4. taken[w][k] = processed[w][k] + lost[w][k] + Occurrences(k, pending[w])
      BY <2>4 DEF ManagerInv, WorkerInv, Accounted
    <3>5. processed[w][k] \in Nat /\ lost[w][k] \in Nat
      BY DEF ManagerInv, ManagerTypes
    <3> QED BY <2>4, <3>1, <3>2, <3>3, <3>4, <3>5
  <2> QED BY <2>1, <2>2, <2>3, <2>5 DEF WorkerInv
<1> QED
  BY <1>1, <1>2, OneWorkerStep
     DEF AccumulateFull, ManagerInv, ManagerTypes, vars, workerVars

\* _flush clears the batch it copied.
LEMMA FlushClearInv ==
  ASSUME ManagerInv, NEW w \in Worker, FlushClear(w)
  PROVE  ManagerInv'
<1> USE ManagerAssumption
<1>1. ManagerTypes'
  BY DEF FlushClear, ManagerInv, ManagerTypes, historyVars
<1>2. WorkerInv(w)'
  <2>1. LockDiscipline(w)' /\ FlushIsExact(w)'
    BY DEF FlushClear, vars, workerVars, ManagerInv, ManagerTypes, WorkerInv,
       LockDiscipline, FlushIsExact, IsFirst
  <2>2. Bounded(w)'
    BY DEF FlushClear, ManagerInv, ManagerTypes, Bounded
  <2>3. Held(w)' = Held(w)
    <3>1. Held(w) = inflight[w] /\ inflight[w] \in Seq(Id)
      BY DEF FlushClear, ManagerInv, ManagerTypes, WorkerInv, FlushIsExact, Held
    <3>2. Held(w)' = inflight[w] \o <<>>
      BY DEF FlushClear, ManagerInv, ManagerTypes, Held
    <3> QED BY <3>1, <3>2
  <2>4. Accounted(w)'
    BY <2>3 DEF FlushClear, historyVars, ManagerInv, WorkerInv, Accounted, Occurrences
  <2> QED BY <2>1, <2>2, <2>4 DEF WorkerInv
<1> QED
  BY <1>1, <1>2, OneWorkerStep
     DEF FlushClear, ManagerInv, ManagerTypes, vars, workerVars, historyVars

\* Crediting a batch to a history counts its messages once for its worker.
LEMMA CreditType ==
  ASSUME NEW h \in [Worker -> [Id -> Nat]], NEW w \in Worker, NEW s \in Seq(Id)
  PROVE  /\ Credit(h, w, s) \in [Worker -> [Id -> Nat]]
         /\ \A m \in Id : Credit(h, w, s)[w][m] = h[w][m] + Occurrences(m, s)
         /\ \A v \in Worker \ {w} : Credit(h, w, s)[v] = h[v]
<1>1. \A m \in Id : Occurrences(m, s) \in Nat
  BY OccurrencesType
<1>2. [m \in Id |-> h[w][m] + Occurrences(m, s)] \in [Id -> Nat]
  BY <1>1
<1>3. Credit(h, w, s) = [h EXCEPT ![w] = [m \in Id |-> h[w][m] + Occurrences(m, s)]]
  BY DEF Credit
<1> QED BY <1>2, <1>3

\* The callback ends: the batch it had is accounted for, and the lock is free.
LEMMA CallbackEndsInv ==
  ASSUME ManagerInv, NEW w \in Worker, CallbackEnds(w)
  PROVE  /\ UNCHANGED <<pending, elapsed, taken>>
         /\ lock' = [lock EXCEPT ![w] = "free"] /\ stage' = [stage EXCEPT ![w] = "none"]
         /\ inflight' = [inflight EXCEPT ![w] = <<>>]
         /\ processed' \in [Worker -> [Id -> Nat]] /\ lost' \in [Worker -> [Id -> Nat]]
         /\ \A v \in Worker \ {w} : processed'[v] = processed[v] /\ lost'[v] = lost[v]
         /\ Bounded(w)' /\ Accounted(w)'
<1> USE ManagerAssumption
<1>1. /\ UNCHANGED <<pending, elapsed, taken>>
      /\ lock' = [lock EXCEPT ![w] = "free"] /\ stage' = [stage EXCEPT ![w] = "none"]
      /\ inflight' = [inflight EXCEPT ![w] = <<>>]
  BY DEF CallbackEnds
<1>2. pending[w] = <<>> /\ inflight[w] \in Seq(Id) /\ Held(w) = inflight[w]
  <2>1. stage[w] = "calling" /\ pending[w] = <<>> /\ inflight[w] \in Seq(Id)
    BY DEF CallbackEnds, ManagerInv, ManagerTypes, WorkerInv, FlushIsExact
  <2> QED BY <2>1 DEF Held
<1>3. Bounded(w)'
  BY <1>1, <1>2 DEF ManagerInv, ManagerTypes, Bounded
<1>4. processed \in [Worker -> [Id -> Nat]] /\ lost \in [Worker -> [Id -> Nat]]
  BY DEF ManagerInv, ManagerTypes
<1>5. /\ processed' \in [Worker -> [Id -> Nat]] /\ lost' \in [Worker -> [Id -> Nat]]
      /\ \A v \in Worker \ {w} : processed'[v] = processed[v] /\ lost'[v] = lost[v]
      /\ \A m \in Id : processed'[w][m] + lost'[w][m] =
                         processed[w][m] + lost[w][m] + Occurrences(m, inflight[w])
  <2>1. CASE processed' = Credit(processed, w, inflight[w]) /\ lost' = lost
    <3>1. \A m \in Id : /\ Occurrences(m, inflight[w]) \in Nat
                        /\ processed[w][m] \in Nat /\ lost[w][m] \in Nat
      BY <1>2, <1>4, OccurrencesType
    <3>2. /\ processed' \in [Worker -> [Id -> Nat]]
          /\ \A m \in Id : processed'[w][m] = processed[w][m] + Occurrences(m, inflight[w])
          /\ \A v \in Worker \ {w} : processed'[v] = processed[v]
      <4> DEFINE new == Credit(processed, w, inflight[w])
      <4>1. /\ new \in [Worker -> [Id -> Nat]]
            /\ \A m \in Id : new[w][m] = processed[w][m] + Occurrences(m, inflight[w])
            /\ \A v \in Worker \ {w} : new[v] = processed[v]
        BY <1>2, <1>4, CreditType
      <4> HIDE DEF new
      <4>2. processed' = new
        BY <2>1 DEF new
      <4> QED BY <4>1, <4>2
    <3>3. \A m \in Id : processed'[w][m] + lost'[w][m] =
                          processed[w][m] + lost[w][m] + Occurrences(m, inflight[w])
      BY <2>1, <3>1, <3>2
    <3> QED BY <1>4, <2>1, <3>2, <3>3
  <2>2. CASE lost' = Credit(lost, w, inflight[w]) /\ processed' = processed
    <3>1. \A m \in Id : /\ Occurrences(m, inflight[w]) \in Nat
                        /\ processed[w][m] \in Nat /\ lost[w][m] \in Nat
      BY <1>2, <1>4, OccurrencesType
    <3>2. /\ lost' \in [Worker -> [Id -> Nat]]
          /\ \A m \in Id : lost'[w][m] = lost[w][m] + Occurrences(m, inflight[w])
          /\ \A v \in Worker \ {w} : lost'[v] = lost[v]
      <4> DEFINE new == Credit(lost, w, inflight[w])
      <4>1. /\ new \in [Worker -> [Id -> Nat]]
            /\ \A m \in Id : new[w][m] = lost[w][m] + Occurrences(m, inflight[w])
            /\ \A v \in Worker \ {w} : new[v] = lost[v]
        BY <1>2, <1>4, CreditType
      <4> HIDE DEF new
      <4>2. lost' = new
        BY <2>2 DEF new
      <4> QED BY <4>1, <4>2
    <3>3. \A m \in Id : processed'[w][m] + lost'[w][m] =
                          processed[w][m] + lost[w][m] + Occurrences(m, inflight[w])
      BY <2>2, <3>1, <3>2
    <3> QED BY <1>4, <2>2, <3>2, <3>3
  <2> QED BY <2>1, <2>2 DEF CallbackEnds
<1>6. Accounted(w)'
  <2>1. Held(w)' = <<>>
    BY <1>1, <1>2 DEF ManagerInv, ManagerTypes, Held
  <2> SUFFICES ASSUME NEW m \in Id
               PROVE  taken'[w][m] = processed'[w][m] + lost'[w][m]
                                       + Occurrences(m, Held(w)')
    BY DEF Accounted, Occurrences
  <2>2. taken[w][m] = processed[w][m] + lost[w][m] + Occurrences(m, inflight[w])
    BY <1>2 DEF ManagerInv, WorkerInv, Accounted
  <2>3. processed'[w][m] \in Nat /\ lost'[w][m] \in Nat
    BY <1>5
  <2> QED BY <1>1, <1>5, <2>1, <2>2, <2>3, OccurrencesEmpty
<1> QED BY <1>1, <1>3, <1>5, <1>6

\* _flush returns, on either thread.
LEMMA FlushEndsInv ==
  ASSUME IInv, ManagerInv, NEW w \in Worker,
         FlusherFlushEnds(w) \/ \E m \in batch[w] : ConsumerFlushEnds(w, m)
  PROVE  ManagerInv'
<1>0. CallbackEnds(w) /\ lock[w] # "free"
  BY DEF FlusherFlushEnds, ConsumerFlushEnds
<1>1. /\ UNCHANGED <<pending, elapsed, taken>>
      /\ lock' = [lock EXCEPT ![w] = "free"] /\ stage' = [stage EXCEPT ![w] = "none"]
      /\ inflight' = [inflight EXCEPT ![w] = <<>>]
      /\ processed' \in [Worker -> [Id -> Nat]] /\ lost' \in [Worker -> [Id -> Nat]]
      /\ \A v \in Worker \ {w} : processed'[v] = processed[v] /\ lost'[v] = lost[v]
      /\ Bounded(w)' /\ Accounted(w)'
  BY <1>0, CallbackEndsInv
<1>2. /\ flusher' \in [Worker -> {"off", "sleep", "due"}]
      /\ \A v \in Worker : flusher'[v] = "off" <=> flusher[v] = "off"
      /\ \A v \in Worker \ {w} : flusher'[v] = flusher[v]
      /\ \A v \in Worker : pc'[v] \in {"down", "built"} <=> pc[v] \in {"down", "built"}
      /\ \A v \in Worker \ {w} : pc'[v] = pc[v]
      /\ batch' = batch
  <2>1. CASE FlusherFlushEnds(w)
    BY <2>1 DEF FlusherFlushEnds, ManagerInv, ManagerTypes, WorkerInv, LockDiscipline,
       vars, workerVars
  <2>2. ASSUME NEW m \in batch[w], ConsumerFlushEnds(w, m) PROVE <1>2
    BY <2>2 DEF ConsumerFlushEnds, OnMessageReturns, Goto, ManagerInv, ManagerTypes, IInv, TypeOK
  <2> QED BY <2>1, <2>2
<1>3. ManagerTypes'
  <2>1. inflight' \in [Worker -> Seq(Id)] /\ pending' \in [Worker -> Seq(Id)]
    BY <1>1 DEF ManagerInv, ManagerTypes
  <2>2. /\ lock' \in [Worker -> {"free", "consumer", "flusher"}]
        /\ stage' \in [Worker -> {"none", "copied", "calling"}]
    BY <1>1 DEF ManagerInv, ManagerTypes
  <2>3. elapsed' \in [Worker -> BOOLEAN] /\ taken' \in [Worker -> [Id -> Nat]]
    BY <1>1 DEF ManagerInv, ManagerTypes
  <2> QED BY <1>1, <1>2, <2>1, <2>2, <2>3 DEF ManagerTypes
<1>4. LockDiscipline(w)' /\ FlushIsExact(w)'
  BY <1>1, <1>2 DEF ManagerInv, ManagerTypes, WorkerInv, LockDiscipline, FlushIsExact
<1>5. WorkerInv(w)'
  BY <1>1, <1>4 DEF WorkerInv
<1> QED BY <1>1, <1>2, <1>3, <1>5, OneWorkerStep DEF ManagerInv, ManagerTypes

\* The flusher wakes up and takes the lock, and time passes.
LEMMA FlusherInv ==
  ASSUME IInv, ManagerInv, NEW w \in Worker,
         FlusherWakes(w) \/ FlusherFlushes(w) \/ IntervalElapses(w)
  PROVE  ManagerInv'
<1>1. ManagerTypes'
  BY DEF FlusherWakes, FlusherFlushes, IntervalElapses, historyVars, ManagerInv, ManagerTypes
<1>2. WorkerInv(w)'
  <2> USE DEF FlusherWakes, FlusherFlushes, IntervalElapses, LockFree, historyVars, vars, workerVars
  <2>1. LockDiscipline(w)' /\ FlushIsExact(w)' /\ Bounded(w)'
    BY DEF ManagerInv, ManagerTypes, WorkerInv, LockDiscipline, FlushIsExact, Bounded, IsFirst
  <2>2. Held(w)' = Held(w)
    BY DEF ManagerInv, ManagerTypes, WorkerInv, LockDiscipline, Held
  <2>3. Accounted(w)'
    BY <2>2 DEF ManagerInv, WorkerInv, Accounted, Occurrences
  <2> QED BY <2>1, <2>3 DEF WorkerInv
<1>3. /\ UNCHANGED <<pending, taken, processed, lost, pc, batch>>
      /\ \A v \in Worker \ {w} :
           /\ lock'[v] = lock[v] /\ stage'[v] = stage[v]
           /\ inflight'[v] = inflight[v] /\ flusher'[v] = flusher[v]
  BY DEF FlusherWakes, FlusherFlushes, IntervalElapses, ManagerInv, ManagerTypes,
     vars, workerVars, historyVars
<1> QED BY <1>1, <1>2, <1>3, OneWorkerStep

\* start() of the manager.
LEMMA StartInv ==
  ASSUME IInv, ManagerInv, NEW w \in Worker, Start(w)
  PROVE  ManagerInv'
<1>1. ManagerTypes'
  BY DEF Start, ManagerInv, ManagerTypes, historyVars
<1>2. /\ pc[w] = "built" /\ pc'[w] \notin {"down", "built"} /\ batch' = batch
      /\ \A v \in Worker \ {w} : pc'[v] = pc[v]
  BY DEF Start, ListPending, Goto, IInv, TypeOK
<1>3. WorkerInv(w)'
  <2>1. lock[w] = "free"
    BY <1>2 DEF ManagerInv, ManagerTypes, WorkerInv, LockDiscipline
  <2>2. LockDiscipline(w)' /\ FlushIsExact(w)' /\ Bounded(w)'
    BY <1>2, <2>1 DEF Start, ManagerInv, ManagerTypes, WorkerInv, LockDiscipline, FlushIsExact,
       Bounded
  <2>3. Held(w)' = Held(w)
    BY DEF Start, Held
  <2>4. Accounted(w)'
    BY <2>3 DEF Start, historyVars, ManagerInv, WorkerInv, Accounted, Occurrences
  <2> QED BY <2>2, <2>4 DEF WorkerInv
<1> QED
  BY <1>1, <1>2, <1>3, OneWorkerStep DEF Start, ManagerInv, ManagerTypes, historyVars

\* The process ends, and what it held is lost.
LEMMA EndsInv ==
  ASSUME IInv, ManagerInv, NEW w \in Worker, Ends(w)
  PROVE  ManagerInv'
<1> USE ManagerAssumption
<1>1. Held(w) \in Seq(Id) /\ lost \in [Worker -> [Id -> Nat]]
  BY HeldType DEF ManagerInv, ManagerTypes
<1>2. /\ lost' \in [Worker -> [Id -> Nat]]
      /\ \A m \in Id : lost'[w][m] = lost[w][m] + Occurrences(m, Held(w))
      /\ \A v \in Worker \ {w} : lost'[v] = lost[v]
  BY <1>1, CreditType DEF Ends
<1>3. ManagerTypes'
  <2>1. inflight' \in [Worker -> Seq(Id)] /\ pending' \in [Worker -> Seq(Id)]
    BY DEF Ends, ManagerInv, ManagerTypes
  <2>2. /\ lock' \in [Worker -> {"free", "consumer", "flusher"}]
        /\ stage' \in [Worker -> {"none", "copied", "calling"}]
        /\ flusher' \in [Worker -> {"off", "sleep", "due"}]
    BY DEF Ends, ManagerInv, ManagerTypes
  <2>3. /\ elapsed' \in [Worker -> BOOLEAN]
        /\ taken' \in [Worker -> [Id -> Nat]] /\ processed' \in [Worker -> [Id -> Nat]]
    BY DEF Ends, ManagerInv, ManagerTypes
  <2> QED BY <1>2, <2>1, <2>2, <2>3 DEF ManagerTypes
<1>4. /\ pc'[w] = "down" /\ \A v \in Worker \ {w} : pc'[v] = pc[v] /\ batch'[v] = batch[v]
  BY DEF Ends, Exit, Crash, Vanish, Goto, IInv, TypeOK
<1>5. WorkerInv(w)'
  <2>1. LockDiscipline(w)' /\ FlushIsExact(w)' /\ Bounded(w)'
    BY <1>4 DEF Ends, ManagerInv, ManagerTypes, LockDiscipline, FlushIsExact, Bounded
  <2>2. Held(w)' = <<>>
    BY DEF Ends, ManagerInv, ManagerTypes, Held
  <2>3. Accounted(w)'
    <3> SUFFICES ASSUME NEW m \in Id
                 PROVE  taken'[w][m] = processed'[w][m] + lost'[w][m]
                                         + Occurrences(m, Held(w)')
      BY DEF Accounted, Occurrences
    <3>1. taken[w][m] = processed[w][m] + lost[w][m] + Occurrences(m, Held(w))
      BY DEF ManagerInv, WorkerInv, Accounted
    <3>2. /\ processed[w][m] \in Nat /\ lost[w][m] \in Nat
          /\ Occurrences(m, Held(w)) \in Nat
      BY HeldType DEF ManagerInv, ManagerTypes
    <3>3. processed' = processed /\ taken' = taken
      BY DEF Ends
    <3> QED BY <1>2, <2>2, <3>1, <3>2, <3>3, OccurrencesEmpty
  <2> QED BY <2>1, <2>3 DEF WorkerInv
<1> QED BY <1>2, <1>3, <1>4, <1>5, OneWorkerStep DEF Ends, ManagerInv, ManagerTypes

-----------------------------------------------------------------------------
\* The theorems.

\* Every step keeps the invariant.
LEMMA NextManagerInv == IInv /\ ManagerInv /\ [ManagerNext]_allVars => ManagerInv'
<1> SUFFICES ASSUME IInv, ManagerInv, [ManagerNext]_allVars PROVE ManagerInv'
  OBVIOUS
<1>1. CASE UNCHANGED allVars
  <2>1. ManagerTypes'
    BY <1>1 DEF allVars, managerVars, historyVars, ManagerInv, ManagerTypes
  <2>2. ASSUME NEW v \in Worker PROVE WorkerInv(v)'
    BY <1>1, WorkerFrame DEF allVars, managerVars, historyVars, vars, workerVars, ManagerInv
  <2> QED BY <2>1, <2>2 DEF ManagerInv
<1>2. CASE Outside
  BY <1>2, ConsumerOnlyInv
<1>3. ASSUME NEW w \in Worker, ConsumerThread(w) PROVE ManagerInv'
  BY <1>3, StartInv, ConsumerOnlyInv, AccumulateInv, AccumulateFullInv, FlushEndsInv,
     FlushClearInv DEF ConsumerThread
<1>4. ASSUME NEW w \in Worker, FlusherThread(w) \/ IntervalElapses(w) PROVE ManagerInv'
  BY <1>4, FlusherInv, FlushEndsInv, FlushClearInv DEF FlusherThread
<1>5. ASSUME NEW w \in Worker, Ends(w) PROVE ManagerInv'
  BY <1>5, EndsInv
<1> QED BY <1>1, <1>2, <1>3, <1>4, <1>5 DEF ManagerNext

\* The invariant holds in every reachable state.
THEOREM ManagerInvariance == ManagerSpec => []ManagerInv
BY InitManagerInv, NextManagerInv, ConsumerInvariance, PTL DEF ManagerSpec

\* The manager's state has the declared types, and only a thread that is in _flush
\* holds _lock.
THEOREM ManagerTypeCorrect == ManagerSpec => []ManagerTypeOK
<1>1. ManagerInv => ManagerTypeOK
  BY DEF ManagerInv, ManagerTypes, WorkerInv, LockDiscipline, ManagerTypeOK
<1> QED BY <1>1, ManagerInvariance, PTL

\* An alert _handle_message took is in exactly one place, whichever thread flushes,
\* whatever the callback raises and whenever the process ends.
THEOREM AlertsAreInOnePlace == ManagerSpec => []EveryAlertInOnePlace
<1>1. ManagerInv => EveryAlertInOnePlace
  BY DEF ManagerInv, WorkerInv, Accounted, EveryAlertInOnePlace
<1> QED BY <1>1, ManagerInvariance, PTL

\* The batch never outgrows batch_size, and a full one is being flushed by the
\* consumer's thread.
THEOREM BatchStaysBounded == ManagerSpec => []BatchIsBounded
<1>1. ManagerInv => BatchIsBounded
  BY DEF ManagerInv, WorkerInv, Bounded, BatchIsBounded
<1> QED BY <1>1, ManagerInvariance, PTL

=============================================================================
