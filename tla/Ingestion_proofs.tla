---------------------------- MODULE Ingestion_proofs ----------------------------
(***************************************************************************)
(* Theorems about Ingestion, for every number of connectors and threads,   *)
(* every feed and every size and TTL of the cache: run_batch accounts for  *)
(* what it fetched, the unlocked cache hardly outgrows its size, and only  *)
(* threads in process with the same hash at once defeat deduplication.     *)
(***************************************************************************)
EXTENDS Ingestion, FiniteSetTheorems, TLAPS

-----------------------------------------------------------------------------
\* The inductive invariants.

\* A thread at work on an alert.
Busy == AtAlert \cup {"next"}

ResultType == [alerts : Seq(Event), deduplicated : Nat, errors : Nat]
Counted(r) == Len(r.alerts) + r.deduplicated + r.errors

\* The heartbeats among the first p raw alerts of connector c.
Beats(c, p) == Cardinality({i \in 1 .. p : Feed[c][i] \in Heartbeat})

\* How many raw alerts the thread of c is through with.
Position(c) == Len(Feed[c]) - Len(todo[c])

\* The executor's queue holds each connector that has not started once.
QueueInv ==
  IsInjective(queue) /\ \A i \in DOMAIN queue : at[queue[i]] = "queued"

\* What is left to do is the end of the feed, and the result accounts for
\* what comes before it.
AccountInv(c) ==
  /\ at[c] = "queued" => result[c] = EmptyResult
  /\ at[c] \in Busy =>
       /\ Len(todo[c]) <= Len(Feed[c])
       /\ \A i \in 1 .. Len(todo[c]) : todo[c][i] = Feed[c][Position(c) + i]
       /\ Counted(result[c]) = Position(c) - Beats(c, Position(c))
  /\ at[c] = "done" =>
       Counted(result[c]) \in {0, Len(Feed[c]) - Beats(c, Len(Feed[c]))}

ThreadInv(c) ==
  /\ at[c] \in AtAlert => todo[c] # <<>> /\ Current(c) \notin Heartbeat \cup Malformed
  /\ stamp[c] <= now

IInv ==
  /\ TypeOK
  /\ QueueInv
  /\ \A c \in Connector : ThreadInv(c) /\ AccountInv(c)
  /\ CacheBounded

\* Thread d is about to store the hash k.
Storing(d, k) == at[d] \in {"add", "store"} /\ Hash(d) = k

\* What the cache says of a hash: an entry has the time the hash was admitted
\* with, and a hash without an entry was never admitted, or evicted, or is old,
\* or a thread that raced for it is about to store it.
KeyInv ==
  \A k \in Key :
    /\ Cached(k) => admitted[k] # Never
    /\ admitted[k] # Never => insertedAt[k] = admitted[k]
    /\ \/ Cached(k)
       \/ admitted[k] = Never
       \/ k \in evicted
       \/ now - admitted[k] > TTL
       \/ \E d \in raced : Storing(d, k)

\* Threads in process with the same hash have raced.
RacedInv ==
  \A c, d \in Connector :
    c # d /\ at[c] \in AtAlert /\ at[d] \in AtAlert /\ Hash(c) = Hash(d) => c \in raced

\* What a thread that met no other knows of its hash between two calls.
WindowInv(c) ==
  c \notin raced =>
    /\ at[c] = "fresh" => admitted[Hash(c)] # Never /\ stamp[c] - admitted[Hash(c)] <= TTL
    /\ at[c] = "stale" => admitted[Hash(c)] # Never /\ stamp[c] - admitted[Hash(c)] > TTL
    /\ at[c] = "add" => ~Cached(Hash(c))
    /\ at[c] = "store" =>
         \/ admitted[Hash(c)] = Never
         \/ stamp[c] - admitted[Hash(c)] > TTL
         \/ Hash(c) \in evicted

KnownInv == KeyInv /\ RacedInv /\ \A c \in Connector : WindowInv(c)

-----------------------------------------------------------------------------
\* Facts about the OrderedDict as a sequence without duplicates.

\* Deleting an entry deletes it alone.
LEMMA RemoveFirstFacts ==
  ASSUME NEW S, NEW s \in Seq(S), IsInjective(s), NEW k, Contains(s, k)
  PROVE  /\ RemoveFirst(s, k) \in Seq(S)
         /\ IsInjective(RemoveFirst(s, k))
         /\ Len(RemoveFirst(s, k)) = Len(s) - 1
         /\ \A x : Contains(RemoveFirst(s, k), x) <=> Contains(s, x) /\ x # k
<1>1. PICK i \in 1 .. Len(s) : s[i] = k
  BY DEF Contains
<1> DEFINE I == {j \in 1 .. Len(s) : s[j] = k}
           t == RemoveAt(s, i)
<1>2. RemoveFirst(s, k) = t
  <2>1. I = {i}
    BY <1>1 DEF IsInjective
  <2>2. Min({i}) = i
    BY <1>1 DEF Min
  <2>3. SelectInSeq(s, LAMBDA v : v = k) = IF I # {} THEN Min(I) ELSE 0
    BY DEF SelectInSeq
  <2> HIDE DEF I
  <2>4. SelectInSeq(s, LAMBDA v : v = k) = i
    BY <2>1, <2>2, <2>3
  <2>5. RemoveFirst(s, k) = RemoveAt(s, SelectInSeq(s, LAMBDA v : v = k))
    BY <1>1 DEF RemoveFirst
  <2> QED BY <2>4, <2>5
<1>3. /\ t \in Seq(S) /\ Len(t) = Len(s) - 1
      /\ \A j \in 1 .. Len(t) : t[j] = IF j < i THEN s[j] ELSE s[j + 1]
  <2> DEFINE a == SubSeq(s, 1, i - 1)
             b == SubSeq(s, i + 1, Len(s))
  <2>1. /\ a \in Seq(S) /\ Len(a) = i - 1 /\ \A j \in 1 .. i - 1 : a[j] = s[j]
    OBVIOUS
  <2>2. /\ b \in Seq(S) /\ Len(b) = Len(s) - i
        /\ \A j \in 1 .. Len(s) - i : b[j] = s[i + j]
    OBVIOUS
  <2>3. t = a \o b
    BY DEF RemoveAt
  <2>4. Len(s) \in Nat /\ i \in 1 .. Len(s)
    OBVIOUS
  <2> HIDE DEF a, b, t
  <2>5. t \in Seq(S) /\ Len(t) = Len(s) - 1
    BY <2>1, <2>2, <2>3, <2>4
  <2>6. ASSUME NEW j \in 1 .. Len(t) PROVE t[j] = IF j < i THEN s[j] ELSE s[j + 1]
    <3>1. CASE j < i
      BY <2>1, <2>2, <2>3, <2>4, <2>5, <3>1
    <3>2. CASE j >= i
      <4>1. t[j] = b[j - (i - 1)]
        BY <2>1, <2>2, <2>3, <2>4, <2>5, <3>2
      <4>2. j - (i - 1) \in 1 .. Len(s) - i /\ i + (j - (i - 1)) = j + 1
        BY <2>4, <2>5, <3>2
      <4> QED BY <2>2, <2>4, <3>2, <4>1, <4>2
    <3> QED BY <2>4, <3>1, <3>2
  <2> QED BY <2>5, <2>6
<1> HIDE DEF t
<1> DEFINE Was(j) == IF j < i THEN j ELSE j + 1
<1>a. \A j \in 1 .. Len(t) : Was(j) \in 1 .. Len(s) /\ Was(j) # i /\ t[j] = s[Was(j)]
  BY <1>1, <1>3
<1>b. \A p, q \in 1 .. Len(t) : Was(p) = Was(q) => p = q
  BY <1>1, <1>3
<1>c. DOMAIN t = 1 .. Len(t) /\ DOMAIN s = 1 .. Len(s)
  BY <1>3
<1> HIDE DEF Was
<1>4. IsInjective(t)
  BY <1>a, <1>b, <1>c DEF IsInjective
<1>5. ASSUME NEW x PROVE Contains(t, x) <=> Contains(s, x) /\ x # k
  <2>1. ASSUME Contains(t, x) PROVE Contains(s, x) /\ x # k
    BY <1>1, <1>a, <1>c, <2>1 DEF Contains, IsInjective
  <2>2. ASSUME Contains(s, x), x # k PROVE Contains(t, x)
    <3>1. PICK j \in 1 .. Len(s) : s[j] = x
      BY <2>2 DEF Contains
    <3>2. CASE j < i
      BY <1>1, <1>3, <3>1, <3>2 DEF Contains
    <3>3. CASE j > i
      <4>1. j - 1 \in 1 .. Len(t) /\ t[j - 1] = x
        BY <1>1, <1>3, <3>1, <3>3
      <4> QED BY <4>1 DEF Contains
    <3> QED BY <1>1, <2>2, <3>1, <3>2, <3>3
  <2> QED BY <2>1, <2>2
<1> QED BY <1>2, <1>3, <1>4, <1>5

\* Storing a new entry adds it alone.
LEMMA AppendFacts ==
  ASSUME NEW S, NEW s \in Seq(S), IsInjective(s), NEW k \in S, ~Contains(s, k)
  PROVE  /\ Append(s, k) \in Seq(S)
         /\ IsInjective(Append(s, k))
         /\ Len(Append(s, k)) = Len(s) + 1
         /\ \A x : Contains(Append(s, k), x) <=> Contains(s, x) \/ x = k
<1> DEFINE t == Append(s, k)
<1>1. /\ t \in Seq(S) /\ Len(t) = Len(s) + 1
      /\ \A j \in 1 .. Len(s) : t[j] = s[j]
      /\ t[Len(s) + 1] = k
  OBVIOUS
<1> HIDE DEF t
<1>2. IsInjective(t)
  BY <1>1 DEF IsInjective, Contains
<1>3. ASSUME NEW x PROVE Contains(t, x) <=> Contains(s, x) \/ x = k
  BY <1>1 DEF Contains
<1> QED BY <1>1, <1>2, <1>3 DEF t

\* Touching an entry only moves it.
LEMMA TouchFacts ==
  ASSUME TypeOK, NEW k \in Key, Cached(k)
  PROVE  /\ Touch(k) \in Seq(Key)
         /\ IsInjective(Touch(k))
         /\ Len(Touch(k)) = Len(store)
         /\ \A x : Contains(Touch(k), x) <=> Contains(store, x)
<1>1. store \in Seq(Key) /\ IsInjective(store) /\ Contains(store, k)
  BY DEF TypeOK, Cached
<1> DEFINE t == RemoveFirst(store, k)
<1>2. /\ t \in Seq(Key) /\ IsInjective(t) /\ Len(t) = Len(store) - 1
      /\ \A x : Contains(t, x) <=> Contains(store, x) /\ x # k
  BY <1>1, RemoveFirstFacts
<1> HIDE DEF t
<1>3. /\ Append(t, k) \in Seq(Key) /\ IsInjective(Append(t, k))
      /\ Len(Append(t, k)) = Len(t) + 1
      /\ \A x : Contains(Append(t, k), x) <=> Contains(t, x) \/ x = k
  BY <1>2, AppendFacts
<1>4. Len(store) \in Nat /\ Len(t) \in Nat
  BY <1>1, <1>2
<1> QED BY <1>1, <1>2, <1>3, <1>4 DEF Touch, t

\* Evicting drops the first entry alone.
LEMMA TailFacts ==
  ASSUME NEW S, NEW s \in Seq(S), IsInjective(s), s # <<>>
  PROVE  /\ Head(s) \in S /\ Tail(s) \in Seq(S)
         /\ IsInjective(Tail(s))
         /\ Len(Tail(s)) = Len(s) - 1
         /\ \A x : Contains(Tail(s), x) <=> Contains(s, x) /\ x # Head(s)
<1> DEFINE t == Tail(s)
<1>1. /\ t \in Seq(S) /\ Len(t) = Len(s) - 1 /\ Head(s) = s[1] /\ s[1] \in S
      /\ Len(s) \in Nat \ {0}
      /\ \A j \in 1 .. Len(t) : t[j] = s[j + 1]
  OBVIOUS
<1> HIDE DEF t
<1>2. IsInjective(t)
  <2>1. DOMAIN t = 1 .. Len(t) /\ DOMAIN s = 1 .. Len(s)
    BY <1>1
  <2>2. ASSUME NEW p \in 1 .. Len(t), NEW q \in 1 .. Len(t), t[p] = t[q] PROVE p = q
    <3>1. p + 1 \in DOMAIN s /\ q + 1 \in DOMAIN s /\ s[p + 1] = s[q + 1]
      BY <1>1, <2>1, <2>2
    <3>2. p + 1 = q + 1
      BY <3>1 DEF IsInjective
    <3> QED BY <1>1, <3>2
  <2> QED BY <2>1, <2>2 DEF IsInjective
<1>3. ASSUME NEW x, Contains(t, x) PROVE Contains(s, x) /\ x # Head(s)
  BY <1>1, <1>3 DEF Contains, IsInjective
<1>4. ASSUME NEW x, Contains(s, x), x # Head(s) PROVE Contains(t, x)
  <2>1. PICK j \in 1 .. Len(s) : s[j] = x
    BY <1>4 DEF Contains
  <2>2. j - 1 \in 1 .. Len(t) /\ t[j - 1] = x
    BY <1>1, <1>4, <2>1
  <2> QED BY <2>2 DEF Contains
<1> QED BY <1>1, <1>2, <1>3, <1>4 DEF t

-----------------------------------------------------------------------------
\* Facts about the constants and the counts.

\* There are finitely many connectors: they are in a list.
LEMMA ConnectorFinite == IsFiniteSet(Connector)
<1>1. Connectors \in Surjection(1 .. Len(Connectors), Connector)
  <2>1. Connectors \in [1 .. Len(Connectors) -> Connector]
    BY IngestionAssumption
  <2>2. Connector = {Connectors[i] : i \in 1 .. Len(Connectors)}
    BY <2>1 DEF Connector, ToSet
  <2> QED BY <2>1, <2>2 DEF Surjection
<1>2. IsFiniteSet(1 .. Len(Connectors))
  BY IngestionAssumption, FS_Interval
<1> QED BY <1>1, <1>2, FS_Surjection

\* The number of threads about to evict is a natural number.
LEMMA EvictorsFinite ==
  IsFiniteSet({c \in Connector : at[c] = "evict"})
BY ConnectorFinite, FS_Subset

\* One raw alert further there is one heartbeat more, or not.
LEMMA BeatsNext ==
  ASSUME NEW c \in Connector, NEW p \in Nat
  PROVE  /\ Beats(c, p) \in Nat
         /\ Beats(c, 0) = 0
         /\ Beats(c, p + 1) = Beats(c, p) + (IF Feed[c][p + 1] \in Heartbeat THEN 1 ELSE 0)
<1> DEFINE B(q) == {i \in 1 .. q : Feed[c][i] \in Heartbeat}
<1>1. IsFiniteSet(B(p))
  <2>1. IsFiniteSet(1 .. p) /\ B(p) \subseteq 1 .. p
    BY FS_Interval
  <2> QED BY <2>1, FS_Subset
<1>2. p + 1 \notin B(p)
  OBVIOUS
<1>3. Feed[c][p + 1] \in Heartbeat => B(p + 1) = B(p) \cup {p + 1}
  OBVIOUS
<1>4. Feed[c][p + 1] \notin Heartbeat => B(p + 1) = B(p)
  OBVIOUS
<1>5. Beats(c, p) = Cardinality(B(p)) /\ Beats(c, p + 1) = Cardinality(B(p + 1))
  BY DEF Beats
<1>6. B(0) = {} /\ Beats(c, 0) = Cardinality(B(0))
  BY DEF Beats
<1> HIDE DEF B
<1>7. Cardinality(B(p)) \in Nat /\ Beats(c, 0) = 0
  BY <1>1, <1>6, FS_CardinalityType, FS_EmptySet
<1> QED BY <1>1, <1>2, <1>3, <1>4, <1>5, <1>7, FS_AddElement

\* The rest of a feed without its first alert is again the rest of the feed.
LEMMA RestOfFeed ==
  ASSUME NEW f \in Seq(Event), NEW rest \in Seq(Event), rest # <<>>, Len(rest) <= Len(f),
         \A i \in 1 .. Len(rest) : rest[i] = f[Len(f) - Len(rest) + i]
  PROVE  /\ Len(f) - Len(rest) \in Nat
         /\ Len(f) - Len(Tail(rest)) = Len(f) - Len(rest) + 1
         /\ Head(rest) = f[Len(f) - Len(rest) + 1]
         /\ Len(Tail(rest)) <= Len(f)
         /\ \A i \in 1 .. Len(Tail(rest)) : Tail(rest)[i] = f[Len(f) - Len(Tail(rest)) + i]
<1> DEFINE n == Len(rest)
           t == Tail(rest)
<1>1. /\ n \in Nat \ {0} /\ Len(f) \in Nat /\ n <= Len(f) /\ Len(t) = n - 1
      /\ Head(rest) = rest[1]
  OBVIOUS
<1>2. \A i \in 1 .. n - 1 : t[i] = rest[i + 1]
  OBVIOUS
<1>3. \A i \in 1 .. n : rest[i] = f[Len(f) - n + i]
  OBVIOUS
<1> HIDE DEF n, t
<1>4. ASSUME NEW i \in 1 .. n - 1 PROVE t[i] = f[Len(f) - (n - 1) + i]
  <2>1. i + 1 \in 1 .. n /\ Len(f) - n + (i + 1) = Len(f) - (n - 1) + i
    BY <1>1
  <2> QED BY <1>2, <1>3, <2>1
<1>5. Head(rest) = f[Len(f) - n + 1]
  BY <1>1, <1>3
<1> QED BY <1>1, <1>4, <1>5 DEF n, t

\* What ends an alert counts it: as an alert, a duplicate or an error.
LEMMA EndOfAlertCounts ==
  ASSUME TypeOK, NEW c \in Connector, todo[c] # <<>>,
         \/ LetThrough(c) \/ Raise(c)
         \/ GoOn(c, [result[c] EXCEPT !.deduplicated = @ + 1])
  PROVE  \E r \in ResultType : Counted(r) = Counted(result[c]) + 1 /\ GoOn(c, r)
<1> DEFINE old == result[c]
<1>1. /\ old \in ResultType /\ Len(old.alerts) \in Nat /\ Current(c) \in Event
      /\ Current(c) = todo[c][1]
  BY DEF TypeOK, ResultType, Current
<1> HIDE DEF old
<1>2. CASE GoOn(c, [old EXCEPT !.errors = @ + 1])
  <2>1. [old EXCEPT !.errors = @ + 1] \in ResultType
    BY <1>1 DEF ResultType
  <2>2. Counted([old EXCEPT !.errors = @ + 1]) = Counted(old) + 1
    BY <1>1 DEF ResultType, Counted
  <2> QED BY <1>2, <2>1, <2>2 DEF old
<1>3. CASE GoOn(c, [old EXCEPT !.deduplicated = @ + 1])
  <2>1. [old EXCEPT !.deduplicated = @ + 1] \in ResultType
    BY <1>1 DEF ResultType
  <2>2. Counted([old EXCEPT !.deduplicated = @ + 1]) = Counted(old) + 1
    BY <1>1 DEF ResultType, Counted
  <2> QED BY <1>3, <2>1, <2>2 DEF old
<1>4. CASE GoOn(c, [old EXCEPT !.alerts = Append(@, Current(c))])
  <2>1. [old EXCEPT !.alerts = Append(@, Current(c))] \in ResultType
    BY <1>1 DEF ResultType
  <2>2. Counted([old EXCEPT !.alerts = Append(@, Current(c))]) = Counted(old) + 1
    BY <1>1 DEF ResultType, Counted
  <2> QED BY <1>4, <2>1, <2>2 DEF old
<1> QED BY <1>2, <1>3, <1>4 DEF LetThrough, Raise, old

-----------------------------------------------------------------------------
\* What the steps of one thread do to the thread.

\* The thread goes on to its next alert, or to its next step on this one.
NextAlert(c) ==
  \E r \in ResultType :
    /\ GoOn(c, r)
    /\ Counted(r) = Counted(result[c]) + (IF Current(c) \in Heartbeat THEN 0 ELSE 1)

NextStep(c, p) ==
  /\ at' = [at EXCEPT ![c] = p]
  /\ stamp' = stamp \/ stamp' = [stamp EXCEPT ![c] = now]
  /\ UNCHANGED <<todo, result>>
  /\ raced \subseteq raced' /\ raced' \subseteq Connector
  /\ Current(c) \notin Heartbeat \cup Malformed

\* Every step on an alert is one of the two.
LEMMA AlertSteps ==
  ASSUME IInv, NEW c \in Connector,
         \/ NotAnAlert(c) \/ LookUp(c) \/ Suppress(c) \/ Forget(c)
         \/ Add(c) \/ Store(c) \/ Evict(c)
  PROVE  /\ at[c] \in Busy /\ todo[c] # <<>>
         /\ NextAlert(c) \/ \E p \in AtAlert : NextStep(c, p)
<1>1. at[c] \in Busy /\ todo[c] # <<>>
  BY DEF NotAnAlert, LookUp, Suppress, Forget, Add, Store, Evict, IInv, ThreadInv, AtAlert, Busy
<1>2. at[c] # "next" => Current(c) \notin Heartbeat \cup Malformed
  BY <1>1 DEF IInv, ThreadInv, Busy
<1>3. result[c] \in ResultType /\ Counted(result[c]) \in Nat
  BY DEF IInv, TypeOK, ResultType, Counted
<1>4. ASSUME Current(c) \notin Heartbeat,
             \/ LetThrough(c) \/ Raise(c)
             \/ GoOn(c, [result[c] EXCEPT !.deduplicated = @ + 1])
      PROVE  NextAlert(c)
  BY <1>1, <1>4, EndOfAlertCounts DEF NextAlert, IInv
<1>5. CASE NotAnAlert(c)
  <2>1. CASE Current(c) \in Heartbeat /\ GoOn(c, result[c])
    <3>1. Counted(result[c]) = Counted(result[c]) + (IF Current(c) \in Heartbeat THEN 0 ELSE 1)
      BY <1>3, <2>1
    <3> QED BY <1>1, <1>3, <2>1, <3>1 DEF NextAlert
  <2>2. CASE Current(c) \in Malformed \ Heartbeat /\ Raise(c)
    <3>1. Current(c) \notin Heartbeat /\ Raise(c)
      BY <2>2
    <3> QED BY <1>1, <1>4, <3>1
  <2> QED BY <1>1, <1>5, <2>1, <2>2 DEF NotAnAlert
<1>a. raced \subseteq Connector
  BY DEF IInv, TypeOK
<1>6. CASE LookUp(c)
  <2>1. raced \subseteq raced' /\ raced' \subseteq Connector
    BY <1>6, <1>a DEF LookUp, Rivals
  <2> QED BY <1>1, <1>6, <2>1 DEF LookUp, NextStep, AtAlert
<1>7. CASE Suppress(c)
  BY <1>1, <1>2, <1>4, <1>7 DEF Suppress
<1>8. CASE Forget(c)
  BY <1>1, <1>2, <1>4, <1>8, <1>a DEF Forget, NextStep, AtAlert
<1>9. CASE Add(c)
  BY <1>1, <1>2, <1>4, <1>9, <1>a DEF Add, NextStep, AtAlert
<1>10. CASE Store(c)
  BY <1>1, <1>2, <1>4, <1>10, <1>a DEF Store, NextStep, AtAlert
<1>11. CASE Evict(c)
  BY <1>1, <1>2, <1>4, <1>11 DEF Evict
<1> QED BY <1>1, <1>5, <1>6, <1>7, <1>8, <1>9, <1>10, <1>11

\* Such a step keeps what the invariant says of the threads.
LEMMA AlertStepInv ==
  ASSUME IInv, NEW c \in Connector, at[c] \in Busy, todo[c] # <<>>,
         NextAlert(c) \/ \E p \in AtAlert : NextStep(c, p),
         now' = now, queue' = queue
  PROVE  /\ at' \in [Connector -> Place] /\ todo' \in [Connector -> Seq(Event)]
         /\ stamp' \in [Connector -> Time] /\ result' \in [Connector -> ResultType]
         /\ raced' \subseteq Connector
         /\ QueueInv'
         /\ \A d \in Connector : ThreadInv(d)' /\ AccountInv(d)'
<1>1. /\ at \in [Connector -> Place] /\ todo \in [Connector -> Seq(Event)]
      /\ stamp \in [Connector -> Time] /\ result \in [Connector -> ResultType]
      /\ now \in Time /\ 0 \in Time /\ Time \subseteq Nat /\ Feed[c] \in Seq(Event)
      /\ queue \in Seq(Connector)
  BY IngestionAssumption DEF IInv, TypeOK, ResultType, Time
<1>2. /\ \A d \in Connector \ {c} : /\ at'[d] = at[d] /\ todo'[d] = todo[d]
                                    /\ stamp'[d] = stamp[d] /\ result'[d] = result[d]
      /\ at'[c] \in Busy
  BY <1>1 DEF NextAlert, NextStep, GoOn, AtAlert, Busy
<1>3. /\ at' \in [Connector -> Place] /\ todo' \in [Connector -> Seq(Event)]
      /\ stamp' \in [Connector -> Time] /\ result' \in [Connector -> ResultType]
  <2>1. Tail(todo[c]) \in Seq(Event)
    BY <1>1
  <2>2. at' \in [Connector -> Place]
    BY <1>1 DEF NextAlert, NextStep, GoOn, AtAlert, Place
  <2>3. todo' \in [Connector -> Seq(Event)]
    BY <1>1, <2>1 DEF NextAlert, NextStep, GoOn
  <2>4. stamp' \in [Connector -> Time]
    BY <1>1 DEF NextAlert, NextStep, GoOn
  <2>5. result' \in [Connector -> ResultType]
    BY <1>1 DEF NextAlert, NextStep, GoOn
  <2> QED BY <2>2, <2>3, <2>4, <2>5
<1>a. raced' \subseteq Connector
  <2>1. raced \subseteq Connector
    BY DEF IInv, TypeOK
  <2> QED BY <2>1 DEF NextAlert, NextStep, GoOn
<1>4. QueueInv'
  BY <1>1, <1>2 DEF IInv, QueueInv, Busy, AtAlert
<1>5. ASSUME NEW d \in Connector \ {c} PROVE ThreadInv(d)' /\ AccountInv(d)'
  <2>1. /\ at'[d] = at[d] /\ todo'[d] = todo[d] /\ stamp'[d] = stamp[d]
        /\ result'[d] = result[d] /\ ThreadInv(d) /\ AccountInv(d)
    BY <1>2 DEF IInv
  <2>2. ThreadInv(d)'
    BY <2>1 DEF ThreadInv, Current
  <2>3. Position(d)' = Position(d)
    BY <2>1 DEF Position
  <2>4. AccountInv(d)'
    BY <2>1, <2>3 DEF AccountInv, Counted, Beats
  <2> QED BY <2>2, <2>4
<1>6. ThreadInv(c)'
  <2>1. CASE NextAlert(c)
    BY <1>1, <2>1 DEF NextAlert, GoOn, ThreadInv, AtAlert
  <2>2. ASSUME NEW p \in AtAlert, NextStep(c, p) PROVE ThreadInv(c)'
    BY <1>1, <2>2 DEF NextStep, IInv, ThreadInv, Current
  <2> QED BY <2>1, <2>2
<1>7. AccountInv(c)'
  <2>1. /\ Len(todo[c]) <= Len(Feed[c])
        /\ \A i \in 1 .. Len(todo[c]) : todo[c][i] = Feed[c][Position(c) + i]
        /\ Counted(result[c]) = Position(c) - Beats(c, Position(c))
    BY DEF IInv, AccountInv
  <2>2. CASE NextAlert(c)
    <3>1. PICK r \in ResultType :
            /\ GoOn(c, r)
            /\ Counted(r) = Counted(result[c]) + (IF Current(c) \in Heartbeat THEN 0 ELSE 1)
      BY <2>2 DEF NextAlert
    <3>2. /\ todo'[c] = Tail(todo[c]) /\ result'[c] = r /\ at'[c] = "next"
      BY <1>1, <3>1 DEF GoOn
    <3> DEFINE p == Position(c)
    <3>3. /\ p \in Nat /\ Position(c)' = p + 1
          /\ Current(c) = Feed[c][p + 1]
          /\ Len(todo'[c]) <= Len(Feed[c])
          /\ \A i \in 1 .. Len(todo'[c]) : todo'[c][i] = Feed[c][Position(c)' + i]
      <4>1. todo[c] \in Seq(Event) /\ Feed[c] \in Seq(Event)
        BY <1>1
      <4>2. /\ Len(Feed[c]) - Len(todo[c]) \in Nat
            /\ Len(Feed[c]) - Len(Tail(todo[c])) = Len(Feed[c]) - Len(todo[c]) + 1
            /\ Head(todo[c]) = Feed[c][Len(Feed[c]) - Len(todo[c]) + 1]
            /\ Len(Tail(todo[c])) <= Len(Feed[c])
            /\ \A i \in 1 .. Len(Tail(todo[c])) :
                 Tail(todo[c])[i] = Feed[c][Len(Feed[c]) - Len(Tail(todo[c])) + i]
        <5>1. \A i \in 1 .. Len(todo[c]) :
                todo[c][i] = Feed[c][Len(Feed[c]) - Len(todo[c]) + i]
          BY <2>1 DEF Position
        <5> HIDE DEF p
        <5>2. todo[c] # <<>> /\ Len(todo[c]) <= Len(Feed[c])
          BY <2>1
        <5> QED BY <4>1, <5>1, <5>2, RestOfFeed
      <4> QED BY <3>2, <4>2 DEF Position, Current
    <3>4. Counted(result[c]) = p - Beats(c, p)
      BY <2>1
    <3> HIDE DEF p
    <3>5. Beats(c, p) \in Nat
          /\ Beats(c, p + 1) = Beats(c, p) + (IF Current(c) \in Heartbeat THEN 1 ELSE 0)
      BY <3>3, BeatsNext
    <3>6. Counted(r) = (p + 1) - Beats(c, p + 1)
      <4> DEFINE n == Counted(result[c])
                 b == Beats(c, p)
      <4>1. n = p - b /\ p \in Nat /\ b \in Nat
        BY <3>3, <3>4, <3>5
      <4>2. CASE Current(c) \in Heartbeat
        <5>1. Counted(r) = n + 0 /\ Beats(c, p + 1) = b + 1
          BY <3>1, <3>5, <4>2
        <5> QED BY <4>1, <5>1
      <4>3. CASE Current(c) \notin Heartbeat
        <5>1. Counted(r) = n + 1 /\ Beats(c, p + 1) = b + 0
          BY <3>1, <3>5, <4>3
        <5> QED BY <4>1, <5>1
      <4> QED BY <4>2, <4>3
    <3> QED BY <3>2, <3>3, <3>6 DEF AccountInv, Counted, Beats
  <2>3. ASSUME NEW p \in AtAlert, NextStep(c, p) PROVE AccountInv(c)'
    <3>1. at'[c] = p /\ todo'[c] = todo[c] /\ result'[c] = result[c]
      BY <1>1, <2>3 DEF NextStep
    <3>2. Position(c)' = Position(c)
      BY <3>1 DEF Position
    <3> QED BY <2>1, <3>1, <3>2 DEF AccountInv, Counted, Beats, AtAlert
  <2> QED BY <2>2, <2>3
<1> QED BY <1>3, <1>a, <1>4, <1>5, <1>6, <1>7

-----------------------------------------------------------------------------
\* What the steps of one thread do to the cache.

CacheTypes ==
  /\ store \in Seq(Key) /\ IsInjective(store)
  /\ insertedAt \in [Key -> Time]
  /\ admitted \in [Key -> Time \cup {Never}]
  /\ evicted \subseteq Key
  /\ dropped \subseteq Connector \X Event

\* A thread at an alert has a hash.
LEMMA HashType ==
  ASSUME TypeOK, NEW c \in Connector, todo[c] # <<>>
  PROVE  Hash(c) \in Key /\ Current(c) \in Event
<1>1. Current(c) \in Event
  BY DEF TypeOK, Current
<1> QED BY <1>1 DEF Hash, Key, Source

\* The steps that leave entries where they are, but for touching one.
LEMMA LookUpCache ==
  ASSUME IInv, NEW c \in Connector, todo[c] # <<>>,
         NotAnAlert(c) \/ LookUp(c) \/ Suppress(c) \/ Add(c)
  PROVE  /\ CacheTypes' /\ UNCHANGED <<insertedAt, admitted, evicted, dropped>>
         /\ Len(store') = Len(store)
         /\ \A x : Contains(store', x) <=> Contains(store, x)
         /\ at[c] # "evict" /\ at'[c] # "evict"
<1>1. /\ UNCHANGED <<insertedAt, admitted, evicted, dropped>>
      /\ store' = store \/ (Cached(Hash(c)) /\ store' = Touch(Hash(c)))
  BY DEF NotAnAlert, LookUp, Suppress, Add, cacheVars, historyVars
<1>2. Hash(c) \in Key /\ TypeOK
  BY HashType DEF IInv
<1>3. /\ store' \in Seq(Key) /\ IsInjective(store') /\ Len(store') = Len(store)
      /\ \A x : Contains(store', x) <=> Contains(store, x)
  <2>1. CASE store' = store
    BY <1>2, <2>1 DEF TypeOK
  <2>2. CASE Cached(Hash(c)) /\ store' = Touch(Hash(c))
    BY <1>2, <2>2, TouchFacts
  <2> QED BY <1>1, <2>1, <2>2
<1>4. at \in [Connector -> Place]
  BY DEF IInv, TypeOK
<1>5. at[c] # "evict" /\ at'[c] # "evict"
  BY <1>4 DEF NotAnAlert, LookUp, Suppress, Add, GoOn, Raise, LetThrough
<1> QED BY <1>1, <1>2, <1>3, <1>5 DEF CacheTypes, TypeOK

\* Deleting a stale entry.
LEMMA ForgetCache ==
  ASSUME IInv, NEW c \in Connector, Forget(c)
  PROVE  /\ CacheTypes' /\ UNCHANGED <<insertedAt, admitted, evicted>>
         /\ Len(store') <= Len(store)
         /\ \A x : Contains(store', x) <=> Contains(store, x) /\ x # Hash(c)
         /\ at[c] # "evict" /\ at'[c] # "evict"
<1>1. todo[c] # <<>> /\ TypeOK /\ at[c] = "stale"
  BY DEF IInv, ThreadInv, AtAlert, Forget
<1>2. Hash(c) \in Key /\ Current(c) \in Event
  BY <1>1, HashType
<1>3. store \in Seq(Key) /\ IsInjective(store) /\ Len(store) \in Nat
  BY <1>1 DEF TypeOK
<1>4. /\ store' \in Seq(Key) /\ IsInjective(store') /\ Len(store') <= Len(store)
      /\ \A x : Contains(store', x) <=> Contains(store, x) /\ x # Hash(c)
  <2>1. CASE Cached(Hash(c))
    <3> DEFINE s == RemoveFirst(store, Hash(c))
    <3>1. /\ s \in Seq(Key) /\ IsInjective(s) /\ Len(s) = Len(store) - 1
          /\ \A x : Contains(s, x) <=> Contains(store, x) /\ x # Hash(c)
      BY <1>3, <2>1, RemoveFirstFacts DEF Cached
    <3>2. store' = s
      BY <2>1 DEF Forget
    <3> HIDE DEF s
    <3> QED BY <1>3, <3>1, <3>2
  <2>2. CASE ~Cached(Hash(c))
    <3>1. store' = store
      BY <2>2 DEF Forget
    <3> QED BY <1>3, <2>2, <3>1 DEF Cached
  <2> QED BY <2>1, <2>2
<1>5. dropped' \subseteq Connector \X Event
  BY <1>1, <1>2 DEF Forget, TypeOK
<1>6. UNCHANGED <<insertedAt, admitted, evicted>>
  BY DEF Forget
<1>7. at[c] # "evict" /\ at'[c] # "evict"
  BY <1>1 DEF Forget, Raise, GoOn, TypeOK
<1> QED BY <1>1, <1>4, <1>5, <1>6, <1>7 DEF CacheTypes, TypeOK

\* Storing an entry.
LEMMA StoreCache ==
  ASSUME IInv, NEW c \in Connector, Store(c)
  PROVE  /\ CacheTypes'
         /\ Len(store') <= Len(store) + 1
         /\ \A x : Contains(store', x) <=> Contains(store, x) \/ x = Hash(c)
         /\ at[c] = "store" /\ at'[c] = IF TooBig(store') THEN "evict" ELSE "next"
<1>1. todo[c] # <<>> /\ TypeOK /\ at[c] = "store"
  BY DEF IInv, ThreadInv, AtAlert, Store
<1>2. Hash(c) \in Key /\ stamp[c] \in Time
  BY <1>1, HashType DEF TypeOK
<1>3. store \in Seq(Key) /\ IsInjective(store) /\ Len(store) \in Nat
  BY <1>1 DEF TypeOK
<1>4. /\ store' \in Seq(Key) /\ IsInjective(store') /\ Len(store') <= Len(store) + 1
      /\ \A x : Contains(store', x) <=> Contains(store, x) \/ x = Hash(c)
  <2>1. CASE Cached(Hash(c))
    <3>1. store' = store
      BY <2>1 DEF Store
    <3> QED BY <1>3, <2>1, <3>1 DEF Cached
  <2>2. CASE ~Cached(Hash(c))
    <3> DEFINE s == Append(store, Hash(c))
    <3>1. /\ s \in Seq(Key) /\ IsInjective(s) /\ Len(s) = Len(store) + 1
          /\ \A x : Contains(s, x) <=> Contains(store, x) \/ x = Hash(c)
      BY <1>2, <1>3, <2>2, AppendFacts DEF Cached
    <3>2. store' = s
      BY <2>2 DEF Store
    <3> HIDE DEF s
    <3> QED BY <1>3, <3>1, <3>2
  <2> QED BY <2>1, <2>2
<1>5. insertedAt' \in [Key -> Time] /\ admitted' \in [Key -> Time \cup {Never}]
  BY <1>1, <1>2 DEF Store, TypeOK
<1>6. evicted' \subseteq Key /\ dropped' = dropped
  BY <1>1 DEF Store, TypeOK
<1>7. at'[c] = IF TooBig(store') THEN "evict" ELSE "next"
  BY <1>1 DEF Store, LetThrough, Raise, GoOn, TypeOK
<1> QED BY <1>1, <1>4, <1>5, <1>6, <1>7 DEF CacheTypes, TypeOK

\* Evicting the least recently used entry.
LEMMA EvictCache ==
  ASSUME IInv, NEW c \in Connector, Evict(c)
  PROVE  /\ CacheTypes' /\ UNCHANGED <<insertedAt, admitted>>
         /\ evicted \subseteq evicted'
         /\ \A x : Contains(store', x) => Contains(store, x)
         /\ \A x : Contains(store, x) => Contains(store', x) \/ x \in evicted'
         /\ Len(store') = IF store = <<>> THEN 0 ELSE Len(store) - 1
         /\ at[c] = "evict" /\ at'[c] = "next"
<1>1. todo[c] # <<>> /\ TypeOK /\ at[c] = "evict"
  BY DEF IInv, ThreadInv, AtAlert, Evict
<1>2. Current(c) \in Event
  BY <1>1, HashType
<1>3. store \in Seq(Key) /\ IsInjective(store)
  BY <1>1 DEF TypeOK
<1>4. CASE store # <<>>
  <2> DEFINE s == Tail(store)
  <2>1. /\ s \in Seq(Key) /\ IsInjective(s) /\ Len(s) = Len(store) - 1 /\ Head(store) \in Key
        /\ \A x : Contains(s, x) <=> Contains(store, x) /\ x # Head(store)
    BY <1>3, <1>4, TailFacts
  <2>2. /\ store' = s /\ evicted' = evicted \cup {Head(store)}
        /\ UNCHANGED <<insertedAt, admitted, dropped>>
    BY <1>4 DEF Evict
  <2>3. at'[c] = "next"
    BY <1>1, <1>4 DEF Evict, LetThrough, Raise, GoOn, TypeOK
  <2> HIDE DEF s
  <2> QED BY <1>1, <1>4, <2>1, <2>2, <2>3 DEF CacheTypes, TypeOK
<1>5. CASE store = <<>>
  <2>1. /\ dropped' \subseteq Connector \X Event
        /\ UNCHANGED <<store, insertedAt, admitted, evicted>>
    BY <1>1, <1>2, <1>5 DEF Evict, TypeOK
  <2>2. at'[c] = "next"
    BY <1>1, <1>5 DEF Evict, LetThrough, Raise, GoOn, TypeOK
  <2> QED BY <1>1, <1>5, <2>1, <2>2 DEF CacheTypes, TypeOK
<1> QED BY <1>4, <1>5

\* A step on an alert keeps the bound: an entry more is a thread more that will
\* evict, and a thread that evicted took an entry out, if there was one.
LEMMA AlertStepBounded ==
  ASSUME IInv, NEW c \in Connector, CacheTypes',
         at' \in [Connector -> Place],
         \A d \in Connector \ {c} : at'[d] = at[d],
         \/ /\ at[c] # "evict" /\ at'[c] # "evict"
            /\ Len(store') <= Len(store)
         \/ /\ at[c] = "store" /\ Len(store') <= Len(store) + 1
            /\ at'[c] = IF TooBig(store') THEN "evict" ELSE "next"
         \/ /\ at[c] = "evict" /\ at'[c] = "next"
            /\ Len(store') = IF store = <<>> THEN 0 ELSE Len(store) - 1
  PROVE  CacheBounded'
<1> DEFINE E == {d \in Connector : at[d] = "evict"}
           F == {d \in Connector : at'[d] = "evict"}
<1>1. IsFiniteSet(E) /\ IsFiniteSet(F)
  BY ConnectorFinite, FS_Subset
<1>2. /\ at[c] # "evict" /\ at'[c] # "evict" => F = E
      /\ at[c] = "store" /\ at'[c] = "evict" => F = E \cup {c} /\ c \notin E
      /\ at[c] = "evict" /\ at'[c] = "next" => F = E \ {c} /\ c \in E
  OBVIOUS
<1>3. /\ Len(store) \in Nat /\ Len(store') \in Nat /\ MaxSize \in Nat
      /\ Len(store) <= MaxSize + Cardinality(E)
  BY IngestionAssumption DEF IInv, TypeOK, CacheTypes, CacheBounded
<1>4. CacheBounded' <=> Len(store') <= MaxSize + Cardinality(F)
  BY DEF CacheBounded
<1> HIDE DEF E, F
<1>5. Cardinality(E) \in Nat /\ Cardinality(F) \in Nat
  BY <1>1, FS_CardinalityType
<1>6. CASE at[c] # "evict" /\ at'[c] # "evict" /\ Len(store') <= Len(store)
  BY <1>2, <1>3, <1>4, <1>5, <1>6
<1>7. CASE at[c] = "store" /\ at'[c] = "evict" /\ Len(store') <= Len(store) + 1
  <2>1. Cardinality(F) = Cardinality(E) + 1
    BY <1>1, <1>2, <1>7, FS_AddElement
  <2> QED BY <1>3, <1>4, <1>5, <1>7, <2>1
<1>8. CASE at'[c] = "next" /\ ~TooBig(store')
  BY <1>3, <1>4, <1>5, <1>8 DEF TooBig
<1>9. CASE at[c] = "evict" /\ at'[c] = "next"
           /\ Len(store') = IF store = <<>> THEN 0 ELSE Len(store) - 1
  <2>1. Cardinality(F) = Cardinality(E) - 1
    BY <1>1, <1>2, <1>9, FS_RemoveElement
  <2> QED BY <1>3, <1>4, <1>5, <1>9, <2>1
<1> QED BY <1>6, <1>7, <1>8, <1>9

-----------------------------------------------------------------------------
\* The invariant.

\* It holds when run_batch has not been called yet.
LEMMA InitIInv == Init => IInv
<1> SUFFICES ASSUME Init PROVE IInv
  OBVIOUS
<1> USE IngestionAssumption
<1>1. TypeOK
  <2>1. IsInjective(<<>>) /\ store = <<>>
    BY DEF Init, IsInjective
  <2> QED BY <2>1 DEF Init, TypeOK, Time, Never, Place, EmptyResult
<1>2. QueueInv
  BY DEF Init, QueueInv, IsInjective
<1>3. ASSUME NEW c \in Connector PROVE ThreadInv(c) /\ AccountInv(c)
  BY DEF Init, ThreadInv, AccountInv, AtAlert, Busy
<1>4. CacheBounded
  <2>1. Cardinality({c \in Connector : at[c] = "evict"}) \in Nat /\ Len(store) = 0
    BY EvictorsFinite, FS_CardinalityType DEF Init
  <2> QED BY <2>1 DEF CacheBounded
<1> QED BY <1>1, <1>2, <1>3, <1>4 DEF IInv

\* run_batch submits every connector.
LEMMA RunBatchInv == IInv /\ RunBatch => IInv'
<1> SUFFICES ASSUME IInv, RunBatch PROVE IInv'
  OBVIOUS
<1> USE IngestionAssumption DEF RunBatch, cacheVars, historyVars
<1>1. TypeOK'
  <2>1. batches' \in 0 .. MaxBatches
    BY DEF IInv, TypeOK
  <2>2. EmptyResult \in [alerts : Seq(Event), deduplicated : Nat, errors : Nat]
    BY DEF EmptyResult
  <2>3. /\ queue' \in Seq(Connector) /\ at' \in [Connector -> Place]
        /\ result' \in [Connector -> [alerts : Seq(Event), deduplicated : Nat, errors : Nat]]
        /\ collected' \in [Connector -> Seq(Event)]
    BY <2>2 DEF Place
  <2> QED BY <2>1, <2>3 DEF IInv, TypeOK
<1>2. QueueInv'
  BY DEF QueueInv
<1>3. ASSUME NEW c \in Connector PROVE ThreadInv(c)' /\ AccountInv(c)'
  BY DEF IInv, ThreadInv, AccountInv, AtAlert, Busy
<1>4. CacheBounded'
  <2>1. {c \in Connector : at'[c] = "evict"} = {c \in Connector : at[c] = "evict"}
    OBVIOUS
  <2> QED BY <2>1 DEF IInv, CacheBounded
<1> QED BY <1>1, <1>2, <1>3, <1>4 DEF IInv

\* Executing, finishing and collecting a connector's future.
LEMMA FutureInv ==
  ASSUME IInv, NEW c \in Connector,
         StartConnector(c) \/ FinishConnector(c) \/ Collect(c)
  PROVE  IInv'
<1> USE IngestionAssumption
<1>1. /\ UNCHANGED <<now, batches, stamp, raced, result, cacheVars, historyVars>>
      /\ \A d \in Connector \ {c} : at'[d] = at[d] /\ todo'[d] = todo[d]
      /\ at[c] \in {"queued", "next", "done"} /\ at'[c] \in {"next", "done", "out"}
      /\ at' \in [Connector -> Place] /\ todo' \in [Connector -> Seq(Event)]
      /\ collected' \in [Connector -> Seq(Event)]
  <2>1. CASE StartConnector(c)
    <3>1. at[c] = "queued"
      BY <2>1 DEF StartConnector, IInv, TypeOK, QueueInv
    <3> QED BY <2>1, <3>1 DEF StartConnector, IInv, TypeOK, Place
  <2>2. CASE FinishConnector(c)
    BY <2>2 DEF FinishConnector, IInv, TypeOK, Place
  <2>3. CASE Collect(c)
    BY <2>3 DEF Collect, IInv, TypeOK, Place
  <2> QED BY <2>1, <2>2, <2>3
<1>2. queue' \in Seq(Connector) /\ QueueInv'
  <2>1. CASE StartConnector(c)
    <3>1. /\ queue \in Seq(Connector) /\ queue # <<>> /\ IsInjective(queue)
          /\ \A i \in DOMAIN queue : at[queue[i]] = "queued"
          /\ c = Head(queue) /\ queue' = Tail(queue)
      BY <2>1 DEF StartConnector, IInv, TypeOK, QueueInv
    <3>2. /\ Tail(queue) \in Seq(Connector) /\ IsInjective(Tail(queue))
          /\ \A x : Contains(Tail(queue), x) <=> Contains(queue, x) /\ x # c
      BY <3>1, TailFacts
    <3>3. ASSUME NEW i \in DOMAIN queue' PROVE at'[queue'[i]] = "queued"
      <4>1. queue'[i] \in Connector /\ Contains(Tail(queue), queue'[i])
        <5>1. queue' \in Seq(Connector) /\ i \in 1 .. Len(queue')
          BY <3>1, <3>2
        <5>2. Contains(queue', queue'[i])
          BY <5>1 DEF Contains
        <5> QED BY <3>1, <5>1, <5>2
      <4>2. queue'[i] # c /\ Contains(queue, queue'[i])
        BY <3>2, <4>1
      <4>3. at[queue'[i]] = "queued"
        BY <3>1, <4>2 DEF Contains
      <4> QED BY <1>1, <4>1, <4>2, <4>3
    <3> QED BY <3>1, <3>2, <3>3 DEF QueueInv
  <2>2. CASE FinishConnector(c) \/ Collect(c)
    <3>1. queue' = queue /\ at[c] # "queued"
      BY <2>2 DEF FinishConnector, Collect
    <3> QED BY <1>1, <3>1 DEF IInv, TypeOK, QueueInv
  <2> QED BY <2>1, <2>2
<1>3. TypeOK'
  BY <1>1, <1>2 DEF IInv, TypeOK, cacheVars, historyVars
<1>4. ASSUME NEW d \in Connector \ {c} PROVE ThreadInv(d)' /\ AccountInv(d)'
  <2>1. /\ at'[d] = at[d] /\ todo'[d] = todo[d] /\ stamp'[d] = stamp[d] /\ now' = now
        /\ result'[d] = result[d] /\ ThreadInv(d) /\ AccountInv(d)
    BY <1>1 DEF IInv
  <2>2. ThreadInv(d)'
    BY <2>1 DEF ThreadInv, Current
  <2>3. Position(d)' = Position(d)
    BY <2>1 DEF Position
  <2>4. AccountInv(d)'
    BY <2>1, <2>3 DEF AccountInv, Counted, Beats
  <2> QED BY <2>2, <2>4
<1>5. ThreadInv(c)'
  BY <1>1 DEF IInv, ThreadInv, AtAlert
<1>6. AccountInv(c)'
  <2>0. StartConnector(c) => at[c] = "queued" /\ (at'[c] = "next" => todo'[c] = Feed[c])
    BY DEF StartConnector, IInv, QueueInv, TypeOK
  <2>1. AccountInv(c) /\ result'[c] = result[c] /\ Feed[c] \in Seq(Event)
    BY <1>1 DEF IInv
  <2>2. CASE StartConnector(c) /\ at'[c] = "done"
    <3>1. result'[c] = EmptyResult
      BY <2>0, <2>1, <2>2 DEF AccountInv
    <3>2. Counted(EmptyResult) = 0
      BY DEF Counted, EmptyResult
    <3> QED BY <2>2, <3>1, <3>2 DEF AccountInv, Busy, AtAlert, Counted
  <2>3. CASE StartConnector(c) /\ at'[c] = "next"
    <3>1. result'[c] = EmptyResult /\ todo'[c] = Feed[c]
      BY <2>0, <2>1, <2>3 DEF AccountInv
    <3>2. Counted(EmptyResult) = 0
      BY DEF Counted, EmptyResult
    <3>3. Position(c)' = 0 /\ Beats(c, 0) = 0 /\ Len(Feed[c]) \in Nat
      BY <2>1, <3>1, BeatsNext DEF Position
    <3>4. \A i \in 1 .. Len(Feed[c]) : Feed[c][i] = Feed[c][0 + i]
      BY <3>3
    <3> QED BY <2>3, <3>1, <3>2, <3>3, <3>4 DEF AccountInv, Busy, AtAlert, Counted, Beats
  <2>4. CASE FinishConnector(c)
    <3>1. at[c] = "next" /\ at'[c] = "done" /\ todo[c] = <<>>
      BY <2>4 DEF FinishConnector, IInv, TypeOK
    <3>2. Position(c) = Len(Feed[c])
      BY <2>1, <3>1 DEF Position
    <3> QED BY <2>1, <3>1, <3>2 DEF AccountInv, Busy, AtAlert, Counted, Beats
  <2>5. CASE Collect(c)
    <3>1. at'[c] = "out"
      BY <2>5 DEF Collect, IInv, TypeOK
    <3> QED BY <3>1 DEF AccountInv, Busy, AtAlert
  <2>6. StartConnector(c) => at'[c] \in {"next", "done"}
    BY DEF StartConnector, IInv, TypeOK
  <2> QED BY <2>2, <2>3, <2>4, <2>5, <2>6
<1>7. CacheBounded'
  <2>1. {d \in Connector : at'[d] = "evict"} = {d \in Connector : at[d] = "evict"}
    BY <1>1
  <2> QED BY <1>1, <2>1 DEF IInv, CacheBounded, cacheVars
<1> QED BY <1>2, <1>3, <1>4, <1>5, <1>6, <1>7 DEF IInv

\* A step on an alert.
LEMMA AlertInv ==
  ASSUME IInv, NEW c \in Connector,
         \/ NotAnAlert(c) \/ LookUp(c) \/ Suppress(c) \/ Forget(c)
         \/ Add(c) \/ Store(c) \/ Evict(c)
  PROVE  IInv'
<1>1. UNCHANGED <<now, batches, queue, collected>>
  BY DEF NotAnAlert, LookUp, Suppress, Forget, Add, Store, Evict
<1>2. /\ at[c] \in Busy /\ todo[c] # <<>>
      /\ NextAlert(c) \/ \E p \in AtAlert : NextStep(c, p)
  BY AlertSteps
<1>3. /\ at' \in [Connector -> Place] /\ todo' \in [Connector -> Seq(Event)]
      /\ stamp' \in [Connector -> Time] /\ result' \in [Connector -> ResultType]
      /\ raced' \subseteq Connector
      /\ QueueInv'
      /\ \A d \in Connector : ThreadInv(d)' /\ AccountInv(d)'
  BY <1>1, <1>2, AlertStepInv
<1>4. \A d \in Connector \ {c} : at'[d] = at[d]
  BY <1>2 DEF NextAlert, NextStep, GoOn, IInv, TypeOK
<1>5. CacheTypes' /\ CacheBounded'
  <2>1. CASE NotAnAlert(c) \/ LookUp(c) \/ Suppress(c) \/ Add(c)
    <3>1. /\ CacheTypes' /\ Len(store') = Len(store)
          /\ at[c] # "evict" /\ at'[c] # "evict"
      BY <1>2, <2>1, LookUpCache
    <3>2. Len(store) \in Nat
      BY DEF IInv, TypeOK
    <3>3. Len(store') <= Len(store)
      BY <3>1, <3>2
    <3> QED BY <1>3, <1>4, <3>1, <3>3, AlertStepBounded
  <2>2. CASE Forget(c)
    BY <1>3, <1>4, <2>2, ForgetCache, AlertStepBounded
  <2>3. CASE Store(c)
    BY <1>3, <1>4, <2>3, StoreCache, AlertStepBounded
  <2>4. CASE Evict(c)
    BY <1>3, <1>4, <2>4, EvictCache, AlertStepBounded
  <2> QED BY <2>1, <2>2, <2>3, <2>4
<1>6. TypeOK'
  BY <1>1, <1>3, <1>5 DEF IInv, TypeOK, CacheTypes, ResultType
<1> QED BY <1>3, <1>5, <1>6 DEF IInv

\* Every step keeps the invariant.
LEMMA NextIInv == IInv /\ [Next]_vars => IInv'
<1> SUFFICES ASSUME IInv, [Next]_vars PROVE IInv'
  OBVIOUS
<1>1. ASSUME UNCHANGED <<batches, threadVars, collected, cacheVars, historyVars>>,
             now' = now \/ (now < MaxTime /\ now' = now + 1)
      PROVE  IInv'
  <2> USE <1>1 DEF threadVars, cacheVars, historyVars
  <2>1. now \in Nat /\ now' \in Time /\ now' >= now
    <3>1. now \in 0 .. MaxTime /\ MaxTime \in Nat
      BY IngestionAssumption DEF IInv, TypeOK, Time
    <3> QED BY <3>1 DEF Time
  <2>2. TypeOK'
    BY <2>1 DEF IInv, TypeOK
  <2>3. QueueInv' /\ CacheBounded'
    BY DEF IInv, QueueInv, CacheBounded
  <2>4. ASSUME NEW c \in Connector PROVE ThreadInv(c)' /\ AccountInv(c)'
    <3>1. stamp[c] \in Nat /\ stamp[c] <= now
      BY IngestionAssumption DEF IInv, TypeOK, ThreadInv, Time
    <3>2. ThreadInv(c)'
      BY <2>1, <3>1 DEF IInv, ThreadInv, Current
    <3>3. Position(c)' = Position(c)
      BY DEF Position
    <3>4. AccountInv(c)'
      BY <3>3 DEF IInv, AccountInv, Counted, Beats
    <3> QED BY <3>2, <3>4
  <2> QED BY <2>2, <2>3, <2>4 DEF IInv
<1>2. CASE UNCHANGED vars
  BY <1>1, <1>2 DEF vars
<1>3. CASE Tick
  BY <1>1, <1>3 DEF Tick
<1>4. CASE RunBatch
  BY <1>4, RunBatchInv
<1>5. ASSUME NEW c \in Connector, Thread(c) PROVE IInv'
  BY <1>5, FutureInv, AlertInv DEF Thread
<1> QED BY <1>2, <1>3, <1>4, <1>5 DEF Next

\* The invariant holds in every reachable state.
THEOREM Invariance == Spec => []IInv
BY InitIInv, NextIInv, PTL DEF Spec

\* The state has the declared types, and the OrderedDict no hash twice.
THEOREM IngestionTypes == Spec => []TypeOK
<1>1. IInv => TypeOK
  BY DEF IInv
<1> QED BY <1>1, Invariance, PTL

\* The unlocked cache exceeds dedup_cache_size by no more than the entries of the
\* threads that are about to evict.
THEOREM CacheStaysBounded == Spec => []CacheBounded
<1>1. IInv => CacheBounded
  BY DEF IInv
<1> QED BY <1>1, Invariance, PTL

\* The IngestResult of a completed future accounts for every raw alert.
THEOREM EveryAlertIsAccounted == Spec => []EveryAlertAccounted
<1>1. IInv => EveryAlertAccounted
  <2> SUFFICES ASSUME IInv, NEW c \in Connector, at[c] = "done"
               PROVE  Counted(result[c]) \in
                        {0, Len(Feed[c]) - Cardinality({i \in DOMAIN Feed[c] : Feed[c][i] \in Heartbeat})}
    BY DEF EveryAlertAccounted, Counted
  <2>1. DOMAIN Feed[c] = 1 .. Len(Feed[c])
    BY IngestionAssumption
  <2> QED BY <2>1 DEF IInv, AccountInv, Beats
<1> QED BY <1>1, Invariance, PTL

-----------------------------------------------------------------------------
\* What is known of the hashes.

\* Before the first batch nothing is known, so what is known is so.
LEMMA InitKnown == Init => KnownInv
<1> SUFFICES ASSUME Init PROVE KnownInv
  OBVIOUS
<1>1. KeyInv
  BY DEF Init, KeyInv, Cached, Contains
<1>2. RacedInv
  BY DEF Init, RacedInv, AtAlert
<1>3. ASSUME NEW c \in Connector PROVE WindowInv(c)
  BY DEF Init, WindowInv
<1> QED BY <1>1, <1>2, <1>3 DEF KnownInv

\* A thread that does not move knows what it knew, as long as its hash is left
\* alone.
LEMMA WindowFrame ==
  ASSUME NEW d \in Connector, WindowInv(d),
         at'[d] = at[d], todo'[d] = todo[d], stamp'[d] = stamp[d],
         d \in raced => d \in raced',
         at[d] \in AtAlert /\ d \notin raced =>
           /\ admitted'[Hash(d)] = admitted[Hash(d)]
           /\ Contains(store', Hash(d)) => Contains(store, Hash(d))
           /\ Hash(d) \in evicted => Hash(d) \in evicted'
  PROVE  WindowInv(d)'
<1>1. Hash(d)' = Hash(d)
  BY DEF Hash, Current
<1>2. CASE d \in raced'
  BY <1>2 DEF WindowInv
<1>3. CASE d \notin raced'
  BY <1>1, <1>3 DEF WindowInv, Cached, AtAlert
<1> QED BY <1>2, <1>3

\* Steps that do not touch the cache, apart from touching an entry, keep what is
\* known of the hashes; so does time.
LEMMA KeyFrame ==
  ASSUME IInv, KeyInv, now' \in Time, now' >= now,
         UNCHANGED <<insertedAt, admitted, evicted>>,
         \A x : Contains(store', x) <=> Contains(store, x),
         \A d \in raced, x \in Key : Storing(d, x) =>
           Contains(store, x) \/ (d \in raced' /\ Storing(d, x)')
  PROVE  KeyInv'
<1> SUFFICES ASSUME NEW k \in Key
             PROVE  /\ Contains(store', k) => admitted'[k] # Never
                    /\ admitted'[k] # Never => insertedAt'[k] = admitted'[k]
                    /\ \/ Contains(store', k)
                       \/ admitted'[k] = Never
                       \/ k \in evicted'
                       \/ now' - admitted'[k] > TTL
                       \/ \E d \in raced' : Storing(d, k)'
  BY DEF KeyInv, Cached
<1>1. /\ Contains(store, k) => admitted[k] # Never
      /\ admitted[k] # Never => insertedAt[k] = admitted[k]
      /\ \/ Contains(store, k)
         \/ admitted[k] = Never
         \/ k \in evicted
         \/ now - admitted[k] > TTL
         \/ \E d \in raced : Storing(d, k)
  BY DEF KeyInv, Cached
<1>2. now \in Nat /\ now' \in Nat /\ TTL \in Nat /\ admitted[k] \in Int
  BY IngestionAssumption DEF IInv, TypeOK, Time, Never
<1>3. now - admitted[k] > TTL => now' - admitted'[k] > TTL
  BY <1>2
<1> QED BY <1>1, <1>3

\* A thread that does not move, or is not at an alert, does not race.
LEMMA RacedFrame ==
  ASSUME RacedInv, raced' = raced,
         \A d \in Connector :
           \/ at'[d] = at[d] /\ todo'[d] = todo[d]
           \/ at'[d] \notin AtAlert
  PROVE  RacedInv'
<1> SUFFICES ASSUME NEW c \in Connector, NEW d \in Connector, c # d,
                    at'[c] \in AtAlert, at'[d] \in AtAlert, Hash(c)' = Hash(d)'
             PROVE  c \in raced'
  BY DEF RacedInv
<1>1. Hash(c)' = Hash(c) /\ Hash(d)' = Hash(d)
  BY DEF Hash, Current
<1> QED BY <1>1 DEF RacedInv

\* A step of run_batch or of the clock.
LEMMA QuietKnown ==
  ASSUME IInv, KnownInv, now' \in Time, now' >= now,
         UNCHANGED <<raced, cacheVars, historyVars>>,
         \A d \in Connector :
           \/ at'[d] = at[d] /\ todo'[d] = todo[d] /\ stamp'[d] = stamp[d]
           \/ at[d] \notin AtAlert /\ at'[d] \notin AtAlert
  PROVE  KnownInv'
<1> USE DEF cacheVars, historyVars
<1>1. KeyInv'
  <2>1. ASSUME NEW d \in raced, NEW x \in Key, Storing(d, x)
        PROVE  d \in raced' /\ Storing(d, x)'
    <3>1. d \in Connector /\ at[d] \in AtAlert
      BY <2>1 DEF IInv, TypeOK, Storing, AtAlert
    <3> QED BY <2>1, <3>1 DEF Storing, Hash, Current
  <2> QED BY <2>1, KeyFrame DEF KnownInv
<1>2. RacedInv'
  BY RacedFrame DEF KnownInv
<1>3. ASSUME NEW d \in Connector PROVE WindowInv(d)'
  <2>1. CASE at'[d] \notin AtAlert
    BY <2>1 DEF WindowInv, AtAlert
  <2>2. CASE at'[d] = at[d] /\ todo'[d] = todo[d] /\ stamp'[d] = stamp[d]
    BY <2>2, WindowFrame DEF KnownInv
  <2> QED BY <2>1, <2>2
<1> QED BY <1>1, <1>2, <1>3 DEF KnownInv

\* A step of thread c leaves what other threads have met.
LEMMA AlertRaced ==
  ASSUME IInv, RacedInv, NEW c \in Connector,
         \/ NotAnAlert(c) \/ LookUp(c) \/ Suppress(c) \/ Forget(c)
         \/ Add(c) \/ Store(c) \/ Evict(c)
  PROVE  RacedInv' /\ \A d \in Connector \ {c} : d \in raced => d \in raced'
<1>1. /\ at[c] \in Busy /\ todo[c] # <<>>
      /\ NextAlert(c) \/ \E p \in AtAlert : NextStep(c, p)
  BY AlertSteps
<1>2. /\ \A d \in Connector \ {c} : at'[d] = at[d] /\ todo'[d] = todo[d]
      /\ at \in [Connector -> Place]
  BY <1>1 DEF NextAlert, NextStep, GoOn, IInv, TypeOK
<1>3. \A d \in Connector : todo'[d] = todo[d] => Hash(d)' = Hash(d)
  BY DEF Hash, Current
<1>4. \A d \in Connector \ {c} : d \in raced => d \in raced'
  BY <1>1 DEF NextAlert, NextStep, GoOn
<1> SUFFICES ASSUME NEW d \in Connector, NEW e \in Connector, d # e,
                    at'[d] \in AtAlert, at'[e] \in AtAlert, Hash(d)' = Hash(e)'
             PROVE  d \in raced'
  BY <1>4 DEF RacedInv
<1>5. CASE d # c /\ e # c
  BY <1>2, <1>3, <1>4, <1>5 DEF RacedInv
<1>6. CASE NextAlert(c)
  <2>1. at'[c] = "next"
    BY <1>2, <1>6 DEF NextAlert, GoOn
  <2> QED BY <1>5, <2>1 DEF AtAlert
<1>7. CASE LookUp(c)
  <2>1. /\ Hash(c)' = Hash(c)
        /\ raced' = IF Rivals(c) = {} THEN raced ELSE raced \cup Rivals(c) \cup {c}
    BY <1>3, <1>7 DEF LookUp
  <2>2. CASE d = c
    <3>1. e \in Rivals(c)
      BY <1>2, <1>3, <2>1, <2>2 DEF Rivals
    <3> QED BY <2>1, <2>2, <3>1
  <2>3. CASE e = c
    <3>1. d \in Rivals(c)
      BY <1>2, <1>3, <2>1, <2>3 DEF Rivals
    <3> QED BY <2>1, <3>1
  <2> QED BY <1>5, <2>2, <2>3
<1>8. CASE ~NextAlert(c) /\ ~LookUp(c)
  <2>1. PICK p \in AtAlert : NextStep(c, p)
    BY <1>1, <1>8
  <2>2. /\ todo' = todo /\ raced \subseteq raced'
        /\ at[c] = "next" => NotAnAlert(c)
    BY <1>8, <2>1 DEF NextStep, Suppress, Forget, Add, Store, Evict
  <2>3. at[c] \in AtAlert
    <3>1. NotAnAlert(c) => at'[c] = "next"
      BY <1>2 DEF NotAnAlert, GoOn, Raise
    <3>2. at'[c] = p
      BY <1>2, <2>1 DEF NextStep
    <3> QED BY <1>1, <2>2, <3>1, <3>2 DEF Busy, AtAlert
  <2>4. at[d] \in AtAlert /\ at[e] \in AtAlert /\ Hash(d) = Hash(e)
    BY <1>2, <1>3, <2>2, <2>3
  <2> QED BY <2>2, <2>4 DEF RacedInv
<1> QED BY <1>6, <1>7, <1>8

\* A step of thread c on an alert: what the other threads know holds on, if the
\* cache changes at the hash of c alone, or only shrinks.
LEMMA OthersKnow ==
  ASSUME IInv, KnownInv, NEW c \in Connector,
         \/ NotAnAlert(c) \/ LookUp(c) \/ Suppress(c) \/ Forget(c)
         \/ Add(c) \/ Store(c) \/ Evict(c),
         \A x : x # Hash(c) \/ at[c] \notin AtAlert =>
           /\ x \in Key => admitted'[x] = admitted[x]
           /\ Contains(store', x) => Contains(store, x)
           /\ x \in evicted => x \in evicted'
  PROVE  \A d \in Connector \ {c} : WindowInv(d)'
<1> TAKE d \in Connector \ {c}
<1>0. NextAlert(c) \/ \E p \in AtAlert : NextStep(c, p)
  BY AlertSteps
<1>1. at'[d] = at[d] /\ todo'[d] = todo[d] /\ stamp'[d] = stamp[d]
  BY <1>0 DEF NextAlert, NextStep, GoOn, IInv, TypeOK
<1>2. d \in raced => d \in raced'
  BY AlertRaced DEF KnownInv
<1>3. at[d] \in AtAlert /\ d \notin raced => Hash(d) # Hash(c) \/ at[c] \notin AtAlert
  BY DEF KnownInv, RacedInv
<1>4. at[d] \in AtAlert => Hash(d) \in Key
  BY HashType DEF IInv, ThreadInv
<1> QED BY <1>1, <1>2, <1>3, <1>4, WindowFrame DEF KnownInv

\* A thread that goes on to its next alert knows nothing.
LEMMA NextKnowsNothing ==
  ASSUME IInv, NEW c \in Connector, NextAlert(c)
  PROVE  WindowInv(c)'
<1>1. at'[c] = "next"
  BY DEF NextAlert, GoOn, IInv, TypeOK
<1> QED BY <1>1 DEF WindowInv

\* Who else is about to store a hash still is.
LEMMA StillStoring ==
  ASSUME IInv, KnownInv, NEW c \in Connector,
         \/ NotAnAlert(c) \/ LookUp(c) \/ Suppress(c) \/ Forget(c)
         \/ Add(c) \/ Store(c) \/ Evict(c),
         NEW d \in raced, d # c, NEW x, Storing(d, x)
  PROVE  d \in raced' /\ Storing(d, x)'
<1>1. d \in Connector
  BY DEF IInv, TypeOK
<1>0. NextAlert(c) \/ \E p \in AtAlert : NextStep(c, p)
  BY AlertSteps
<1>2. at'[d] = at[d] /\ todo'[d] = todo[d]
  BY <1>0, <1>1 DEF NextAlert, NextStep, GoOn, IInv, TypeOK
<1>3. d \in raced'
  BY <1>1, AlertRaced DEF KnownInv
<1> QED BY <1>2, <1>3 DEF Storing, Hash, Current

\* A step that leaves the entries where they are.
LEMMA LookUpKnown ==
  ASSUME IInv, KnownInv, NEW c \in Connector,
         NotAnAlert(c) \/ LookUp(c) \/ Suppress(c) \/ Add(c)
  PROVE  KeyInv' /\ \A d \in Connector : WindowInv(d)'
<1>1. now' = now
  BY DEF NotAnAlert, LookUp, Suppress, Add
<1>2. /\ at[c] \in Busy /\ todo[c] # <<>>
      /\ NextAlert(c) \/ \E p \in AtAlert : NextStep(c, p)
  BY AlertSteps
<1> DEFINE k == Hash(c)
<1>3. k \in Key
  BY <1>2, HashType DEF IInv
<1>4. /\ now \in Nat /\ now \in Time /\ TTL \in Nat
      /\ at \in [Connector -> Place] /\ stamp \in [Connector -> Time]
      /\ raced \subseteq Connector
  BY IngestionAssumption DEF IInv, TypeOK, Time
<1>a. admitted[k] \in Int
  BY <1>3, IngestionAssumption DEF IInv, TypeOK, Time, Never
<1>5. /\ Contains(store, k) => admitted[k] # Never /\ insertedAt[k] = admitted[k]
      /\ \/ Contains(store, k) \/ admitted[k] = Never \/ k \in evicted
         \/ now - admitted[k] > TTL \/ \E d \in raced : Storing(d, k)
      /\ WindowInv(c)
  BY <1>3 DEF KnownInv, KeyInv, Cached
<1>6. todo' = todo => Hash(c)' = k
  BY DEF Hash, Current
<1>7. /\ UNCHANGED <<insertedAt, admitted, evicted>>
      /\ \A x : Contains(store', x) <=> Contains(store, x)
  BY <1>2, LookUpCache
<1>8. KeyInv'
  <2>1. ASSUME NEW d \in raced, NEW x \in Key, Storing(d, x)
        PROVE  Contains(store, x) \/ (d \in raced' /\ Storing(d, x)')
    <3>1. CASE d # c
      BY <2>1, <3>1, StillStoring
    <3>2. CASE d = c
      <4>1. at[c] = "add" /\ x = k /\ Add(c)
        BY <2>1, <3>2 DEF Storing, NotAnAlert, LookUp, Suppress, Add
      <4>2. CASE ~Cached(k)
        <5>1. at'[c] = "store" /\ UNCHANGED <<todo, raced>>
          BY <1>4, <4>1, <4>2 DEF Add
        <5> QED BY <1>6, <2>1, <3>2, <4>1, <5>1 DEF Storing
      <4> QED BY <4>1, <4>2 DEF Cached
    <3> QED BY <3>1, <3>2
  <2> QED BY <1>1, <1>4, <1>7, <2>1, KeyFrame DEF KnownInv
<1>9. \A d \in Connector \ {c} : WindowInv(d)'
  BY <1>7, OthersKnow
<1>10. WindowInv(c)'
  <2>1. CASE NextAlert(c)
    BY <2>1, NextKnowsNothing
  <2>2. CASE LookUp(c)
    <3>1. UNCHANGED todo /\ Hash(c)' = k
      BY <1>6, <2>2 DEF LookUp
    <3>2. CASE Cached(k)
      <4>1. /\ at'[c] = IF Expired(k) THEN "stale" ELSE "fresh"
            /\ stamp'[c] = now
        BY <1>4, <2>2, <3>2 DEF LookUp
      <4>2. admitted[k] # Never /\ insertedAt[k] = admitted[k]
        BY <1>5, <3>2 DEF Cached
      <4>3. admitted'[k] = admitted[k] /\ insertedAt[k] = admitted[k]
        BY <1>7, <4>2
      <4>4. Expired(k) <=> now - admitted[k] > TTL
        BY <4>2 DEF Expired
      <4>5. /\ at'[c] = "fresh" => stamp'[c] - admitted'[k] <= TTL
            /\ at'[c] = "stale" => stamp'[c] - admitted'[k] > TTL
        BY <1>4, <1>a, <4>1, <4>3, <4>4
      <4> QED BY <3>1, <4>1, <4>2, <4>3, <4>5 DEF WindowInv
    <3>3. CASE ~Cached(k)
      <4>1. at'[c] = "add"
        BY <1>4, <2>2, <3>3 DEF LookUp
      <4> QED BY <1>7, <3>1, <3>3, <4>1 DEF WindowInv, Cached
    <3> QED BY <3>2, <3>3
  <2>3. CASE Add(c) /\ ~NextAlert(c)
    <3>1. CASE c \in raced'
      BY <3>1 DEF WindowInv
    <3>2. CASE c \notin raced'
      <4>0. c \notin raced /\ at[c] = "add"
        BY <1>2, <2>3, <3>2 DEF NextStep, Add
      <4>1. at'[c] = "store" /\ stamp'[c] = now /\ UNCHANGED todo /\ ~Cached(k)
        <5>1. ~Cached(k)
          BY <1>5, <4>0 DEF WindowInv
        <5> QED BY <1>4, <2>3, <5>1 DEF Add
      <4>2. ASSUME NEW d \in raced PROVE ~Storing(d, k)
        <5>1. d \in Connector /\ d # c
          BY <1>4, <4>0, <4>2
        <5>2. at[d] \in AtAlert => Hash(d) # k
          BY <4>0, <5>1 DEF KnownInv, RacedInv, AtAlert
        <5> QED BY <5>2 DEF Storing, AtAlert
      <4>3. \/ admitted[k] = Never \/ k \in evicted \/ now - admitted[k] > TTL
        BY <1>5, <4>1, <4>2 DEF Cached
      <4>4. Hash(c)' = k
        BY <1>6, <4>1
      <4> QED BY <1>7, <4>1, <4>3, <4>4 DEF WindowInv
    <3> QED BY <3>1, <3>2
  <2>4. CASE NotAnAlert(c) \/ Suppress(c)
    <3>1. at'[c] = "next"
      BY <1>4, <2>4 DEF NotAnAlert, Suppress, GoOn, Raise
    <3> QED BY <3>1 DEF WindowInv
  <2> QED BY <2>1, <2>2, <2>3, <2>4
<1> QED BY <1>8, <1>9, <1>10

\* A thread that raced deletes what may be another's entry, and will store it.
LEMMA ForgetKnown ==
  ASSUME IInv, KnownInv, NEW c \in Connector, Forget(c)
  PROVE  KeyInv' /\ \A d \in Connector : WindowInv(d)'
<1>1. /\ now' = now /\ at[c] = "stale" /\ todo[c] # <<>>
  BY DEF Forget, IInv, ThreadInv, AtAlert
<1> DEFINE k == Hash(c)
<1>2. k \in Key
  BY <1>1, HashType DEF IInv
<1>3. /\ now \in Nat /\ TTL \in Nat /\ stamp[c] \in Nat /\ stamp[c] <= now
      /\ admitted[k] \in Int /\ at \in [Connector -> Place]
  BY <1>2, IngestionAssumption DEF IInv, TypeOK, ThreadInv, Time, Never
<1>4. /\ UNCHANGED <<insertedAt, admitted, evicted>>
      /\ \A x : Contains(store', x) <=> Contains(store, x) /\ x # k
  BY ForgetCache
<1>5. CASE ~Cached(k)
  <2>1. at'[c] = "next"
    BY <1>3, <1>5, <1>1 DEF Forget, Raise, GoOn
  <2>2. \A x : Contains(store', x) <=> Contains(store, x)
    BY <1>4, <1>5 DEF Cached
  <2>3. \A d \in raced, x \in Key : Storing(d, x) => d \in raced' /\ Storing(d, x)'
    BY <1>1, StillStoring DEF Storing
  <2>4. now \in Time /\ now' >= now
    BY <1>1, <1>3 DEF IInv, TypeOK
  <2>5. KeyInv'
    BY <1>1, <1>4, <2>2, <2>3, <2>4, KeyFrame DEF KnownInv
  <2>6. WindowInv(c)'
    BY <2>1 DEF WindowInv
  <2>7. \A d \in Connector \ {c} : WindowInv(d)'
    BY <1>4, OthersKnow
  <2> QED BY <2>5, <2>6, <2>7
<1>6. CASE Cached(k)
  <2>1. at'[c] = "add" /\ UNCHANGED <<todo, raced>>
    BY <1>3, <1>6 DEF Forget
  <2>2. Hash(c)' = k
    BY <2>1 DEF Hash, Current
  <2>3. c \notin raced => now - admitted[k] > TTL
    BY <1>1, <1>3 DEF KnownInv, WindowInv
  <2>4. c \in raced => c \in raced' /\ Storing(c, k)'
    BY <2>1, <2>2 DEF Storing
  <2>5. KeyInv'
    <3> SUFFICES ASSUME NEW x \in Key
                 PROVE  /\ Contains(store', x) => admitted'[x] # Never
                        /\ admitted'[x] # Never => insertedAt'[x] = admitted'[x]
                        /\ \/ Contains(store', x) \/ admitted'[x] = Never \/ x \in evicted'
                           \/ now' - admitted'[x] > TTL
                           \/ \E d \in raced' : Storing(d, x)'
      BY DEF KeyInv, Cached
    <3>1. /\ Contains(store, x) => admitted[x] # Never
          /\ admitted[x] # Never => insertedAt[x] = admitted[x]
          /\ \/ Contains(store, x) \/ admitted[x] = Never \/ x \in evicted
             \/ now - admitted[x] > TTL
             \/ \E d \in raced : Storing(d, x)
      BY DEF KnownInv, KeyInv, Cached
    <3>2. CASE x = k
      <4>1. ~Contains(store', x) /\ admitted'[x] = admitted[x] /\ insertedAt'[x] = insertedAt[x]
        BY <1>4, <3>2
      <4>2. CASE c \in raced
        <5>1. c \in raced' /\ Storing(c, x)'
          BY <2>1, <2>2, <3>2, <4>2 DEF Storing
        <5>2. \E d \in raced' : Storing(d, x)'
          BY <5>1
        <5> QED BY <3>1, <4>1, <5>2
      <4>3. CASE c \notin raced
        BY <1>1, <2>3, <3>1, <3>2, <4>1, <4>3
      <4> QED BY <4>2, <4>3
    <3>3. CASE x # k
      <4>1. \A d \in raced : Storing(d, x) => d \in raced' /\ Storing(d, x)'
        BY <1>1, StillStoring DEF Storing
      <4> QED BY <1>1, <1>4, <3>1, <3>3, <4>1
    <3> QED BY <3>2, <3>3
  <2>6. WindowInv(c)'
    BY <1>4, <2>1, <2>2 DEF WindowInv, Cached
  <2>7. \A d \in Connector \ {c} : WindowInv(d)'
    BY <1>4, OthersKnow
  <2> QED BY <2>5, <2>6, <2>7
<1> QED BY <1>5, <1>6

\* What is stored was just let through.
LEMMA StoreKnown ==
  ASSUME IInv, KnownInv, NEW c \in Connector, Store(c)
  PROVE  KeyInv' /\ \A d \in Connector : WindowInv(d)'
<1>1. /\ now' = now /\ at[c] = "store" /\ todo[c] # <<>>
  BY DEF Store, IInv, ThreadInv, AtAlert
<1> DEFINE k == Hash(c)
<1>2. k \in Key
  BY <1>1, HashType DEF IInv
<1>3. /\ stamp[c] \in Nat
      /\ insertedAt \in [Key -> Time] /\ admitted \in [Key -> Time \cup {Never}]
  BY IngestionAssumption DEF IInv, TypeOK, Time
<1>4. /\ insertedAt' = [insertedAt EXCEPT ![k] = stamp[c]]
      /\ admitted' = [admitted EXCEPT ![k] = stamp[c]]
      /\ evicted' = evicted \ {k}
  BY DEF Store
<1>5. /\ \A x : Contains(store', x) <=> Contains(store, x) \/ x = k
      /\ at'[c] = IF TooBig(store') THEN "evict" ELSE "next"
  BY StoreCache
<1>6. KeyInv'
  <2> SUFFICES ASSUME NEW x \in Key
               PROVE  /\ Contains(store', x) => admitted'[x] # Never
                      /\ admitted'[x] # Never => insertedAt'[x] = admitted'[x]
                      /\ \/ Contains(store', x) \/ admitted'[x] = Never \/ x \in evicted'
                         \/ now' - admitted'[x] > TTL
                         \/ \E d \in raced' : Storing(d, x)'
    BY DEF KeyInv, Cached
  <2>1. CASE x = k
    <3>1. admitted'[x] = stamp[c] /\ insertedAt'[x] = stamp[c] /\ Contains(store', x)
      BY <1>2, <1>3, <1>4, <1>5, <2>1
    <3> QED BY <1>3, <3>1 DEF Never
  <2>2. CASE x # k
    <3>1. admitted'[x] = admitted[x] /\ insertedAt'[x] = insertedAt[x]
          /\ (Contains(store', x) <=> Contains(store, x)) /\ (x \in evicted <=> x \in evicted')
      BY <1>3, <1>4, <1>5, <2>2
    <3>2. /\ Contains(store, x) => admitted[x] # Never
          /\ admitted[x] # Never => insertedAt[x] = admitted[x]
          /\ \/ Contains(store, x) \/ admitted[x] = Never \/ x \in evicted
             \/ now - admitted[x] > TTL
             \/ \E d \in raced : Storing(d, x)
      BY DEF KnownInv, KeyInv, Cached
    <3>3. \A d \in raced : Storing(d, x) => d \in raced' /\ Storing(d, x)'
      <4> TAKE d \in raced
      <4>1. Storing(d, x) => d # c
        BY <2>2 DEF Storing
      <4> QED BY <4>1, StillStoring
    <3> QED BY <1>1, <3>1, <3>2, <3>3
  <2> QED BY <2>1, <2>2
<1>7. \A x : x # k =>
         /\ x \in Key => admitted'[x] = admitted[x]
         /\ Contains(store', x) => Contains(store, x)
         /\ x \in evicted => x \in evicted'
  BY <1>3, <1>4, <1>5
<1>8. at[c] \in AtAlert
  BY <1>1 DEF AtAlert
<1>9. \A d \in Connector \ {c} : WindowInv(d)'
  BY <1>7, <1>8, OthersKnow
<1>10. WindowInv(c)'
  BY <1>5 DEF WindowInv
<1> QED BY <1>6, <1>9, <1>10

\* What is evicted is known to be.
LEMMA EvictKnown ==
  ASSUME IInv, KnownInv, NEW c \in Connector, Evict(c)
  PROVE  KeyInv' /\ \A d \in Connector : WindowInv(d)'
<1>1. /\ UNCHANGED <<insertedAt, admitted>>
      /\ evicted \subseteq evicted'
      /\ \A x : Contains(store', x) => Contains(store, x)
      /\ \A x : Contains(store, x) => Contains(store', x) \/ x \in evicted'
      /\ at[c] = "evict" /\ at'[c] = "next"
  BY EvictCache
<1>2. now' = now
  BY DEF Evict
<1>3. KeyInv'
  <2> SUFFICES ASSUME NEW x \in Key
               PROVE  /\ Contains(store', x) => admitted'[x] # Never
                      /\ admitted'[x] # Never => insertedAt'[x] = admitted'[x]
                      /\ \/ Contains(store', x) \/ admitted'[x] = Never \/ x \in evicted'
                         \/ now' - admitted'[x] > TTL
                         \/ \E d \in raced' : Storing(d, x)'
    BY DEF KeyInv, Cached
  <2>1. /\ Contains(store, x) => admitted[x] # Never
        /\ admitted[x] # Never => insertedAt[x] = admitted[x]
        /\ \/ Contains(store, x) \/ admitted[x] = Never \/ x \in evicted
           \/ now - admitted[x] > TTL
           \/ \E d \in raced : Storing(d, x)
    BY DEF KnownInv, KeyInv, Cached
  <2>2. \A d \in raced : Storing(d, x) => d \in raced' /\ Storing(d, x)'
    BY <1>1, StillStoring DEF Storing
  <2> QED BY <1>1, <1>2, <2>1, <2>2
<1>4. \A d \in Connector \ {c} : WindowInv(d)'
  BY <1>1, OthersKnow
<1>5. WindowInv(c)'
  BY <1>1 DEF WindowInv
<1> QED BY <1>3, <1>4, <1>5

\* Every step keeps what is known of the hashes.
LEMMA NextKnown == IInv /\ KnownInv /\ [Next]_vars => KnownInv'
<1> SUFFICES ASSUME IInv, KnownInv, [Next]_vars PROVE KnownInv'
  OBVIOUS
<1>0. now \in Time /\ now \in Nat /\ Time \subseteq Nat
  BY IngestionAssumption DEF IInv, TypeOK, Time
<1>1. CASE UNCHANGED vars
  BY <1>0, <1>1, QuietKnown DEF vars, threadVars
<1>2. CASE Tick
  <2>1. now' \in Time /\ now' >= now
    <3>1. now \in 0 .. MaxTime /\ MaxTime \in Nat /\ now' = now + 1 /\ now < MaxTime
      BY <1>2, IngestionAssumption DEF IInv, TypeOK, Time, Tick
    <3> QED BY <3>1 DEF Time
  <2> QED BY <1>2, <2>1, QuietKnown DEF Tick, threadVars
<1>3. CASE RunBatch
  <2>1. \A d \in Connector : at[d] \notin AtAlert /\ at'[d] \notin AtAlert
    BY <1>3 DEF RunBatch, AtAlert
  <2>2. now' = now /\ UNCHANGED <<raced, cacheVars, historyVars>>
    BY <1>3 DEF RunBatch
  <2> QED BY <1>0, <2>1, <2>2, QuietKnown
<1>4. ASSUME NEW c \in Connector, StartConnector(c) \/ FinishConnector(c) \/ Collect(c)
      PROVE  KnownInv'
  <2>1. now' = now /\ UNCHANGED <<raced, cacheVars, historyVars>>
    BY <1>4 DEF StartConnector, FinishConnector, Collect
  <2>2. StartConnector(c) => at[c] = "queued"
    BY DEF StartConnector, IInv, TypeOK, QueueInv
  <2>3. \A d \in Connector :
           \/ at'[d] = at[d] /\ todo'[d] = todo[d] /\ stamp'[d] = stamp[d]
           \/ at[d] \notin AtAlert /\ at'[d] \notin AtAlert
    BY <1>4, <2>2 DEF StartConnector, FinishConnector, Collect, IInv, TypeOK, AtAlert
  <2> QED BY <1>0, <2>1, <2>3, QuietKnown
<1>5. ASSUME NEW c \in Connector,
             \/ NotAnAlert(c) \/ LookUp(c) \/ Suppress(c) \/ Forget(c)
             \/ Add(c) \/ Store(c) \/ Evict(c)
      PROVE  KnownInv'
  <2>1. RacedInv'
    BY <1>5, AlertRaced DEF KnownInv
  <2>2. KeyInv' /\ \A d \in Connector : WindowInv(d)'
    BY <1>5, LookUpKnown, ForgetKnown, StoreKnown, EvictKnown
  <2> QED BY <2>1, <2>2 DEF KnownInv
<1> QED BY <1>1, <1>2, <1>3, <1>4, <1>5 DEF Next, Thread

\* What is known of the hashes is so in every reachable state.
THEOREM KnownInvariance == Spec => []KnownInv
BY InitKnown, NextKnown, Invariance, PTL DEF Spec

\* A hash passes twice in a window only after an eviction, or when another thread
\* was in process with it.
THEOREM DeduplicatesPerWindow == Spec => []OncePerWindow
<1>1. KnownInv => OncePerWindow
  BY DEF KnownInv, WindowInv, OncePerWindow
<1> QED BY <1>1, KnownInvariance, PTL

\* The window of a hash begins with its last insertion, and duplicates do not
\* renew it.
THEOREM WindowStaysFixed == Spec => []WindowIsFixed
<1>1. KnownInv => WindowIsFixed
  BY DEF KnownInv, WindowInv, WindowIsFixed
<1> QED BY <1>1, KnownInvariance, PTL

=============================================================================
