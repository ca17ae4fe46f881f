-------------------------- MODULE ThreatPipeline_proofs --------------------------
(***************************************************************************)
(* Proofs about ThreatPipeline.  Whatever several runners of the           *)
(* migrations and their failures leave, the schema is a prefix of the      *)
(* files, and it is complete when one returns.  And whatever runs, fails   *)
(* or crashes beside a run, a threat it stores has its evidence and its    *)
(* score, a report it counts is in the repository or among its errors,     *)
(* every decision was announced to the audit log, where a reader finds it, *)
(* and list, filter and metrics agree.                                     *)
(***************************************************************************)
EXTENDS ThreatPipeline, FiniteSetTheorems, TLAPS

-----------------------------------------------------------------------------
(* Schema migrations *)

FirstFiles(n) == {Files[i] : i \in 1 .. n}

RunnerState ==
  [at : {"idle", "apply", "failed", "done"}, known : SUBSET Version, todo : Seq(Version)]

\* What runner r has to do yet: the files from some place on, with every file
\* before it applied.
Remaining(r) ==
  \E n \in 0 .. Len(Files) :
    /\ runner[r].todo = SubSeq(Files, n + 1, Len(Files))
    /\ FirstFiles(n) \subseteq applied

MigrationInv ==
  /\ runner \in [Runners -> RunnerState]
  /\ applied \subseteq objects
  /\ \E n \in 0 .. Len(Files) : applied = FirstFiles(n)
  /\ \A r \in Runners :
       /\ runner[r].known \subseteq applied
       /\ runner[r].at = "apply" => Remaining(r)
       /\ runner[r].at = "done" => applied = Version

\* The files, one after the other, are the versions.
LEMMA FilesAreVersions ==
  /\ Files \in Seq(Version) /\ Len(Files) \in Nat
  /\ FirstFiles(Len(Files)) = Version
  /\ \A n \in 0 .. Len(Files) : FirstFiles(n) \subseteq Version
<1>1. Files \in Seq(Version) /\ DOMAIN Files = 1 .. Len(Files) /\ Len(Files) \in Nat
    BY MigrationAssumption DEF Version
<1>2. Version = {Files[i] : i \in DOMAIN Files}
    BY DEF Version, ToSet
<1> QED  BY <1>1, <1>2 DEF FirstFiles

\* Of a non-empty rest, the head is the next file and the tail is a rest too.
LEMMA RestOfFiles ==
  ASSUME NEW n \in 0 .. Len(Files), SubSeq(Files, n + 1, Len(Files)) # <<>>
  PROVE  /\ n + 1 \in 1 .. Len(Files)
         /\ Head(SubSeq(Files, n + 1, Len(Files))) = Files[n + 1]
         /\ Tail(SubSeq(Files, n + 1, Len(Files))) = SubSeq(Files, n + 2, Len(Files))
         /\ FirstFiles(n + 1) = FirstFiles(n) \cup {Files[n + 1]}
<1>1. Files \in Seq(Version) /\ Len(Files) \in Nat
    BY FilesAreVersions
<1>2. n < Len(Files)
    BY <1>1
<1>3. 1 .. n + 1 = (1 .. n) \cup {n + 1}
    OBVIOUS
<1>4. FirstFiles(n + 1) = FirstFiles(n) \cup {Files[n + 1]}
    BY <1>3 DEF FirstFiles
<1> QED  BY <1>1, <1>2, <1>4

\* Only the rest of a runner's files is replaced.
LEMMA TodoUpdate ==
  ASSUME NEW x \in RunnerState, NEW rest \in Seq(Version)
  PROVE  LET s == [x EXCEPT !.todo = rest]
         IN s \in RunnerState /\ s.at = x.at /\ s.known = x.known /\ s.todo = rest
<1> QED  BY DEF RunnerState

\* A step of runner r that leaves the database alone: the others are as before.
LEMMA OnlyRunner ==
  ASSUME MigrationInv, NEW r \in Runners, NEW s \in RunnerState,
         runner' = [runner EXCEPT ![r] = s], UNCHANGED <<objects, applied>>,
         s.known \subseteq applied,
         s.at = "apply" => \E n \in 0 .. Len(Files) :
                             /\ s.todo = SubSeq(Files, n + 1, Len(Files))
                             /\ FirstFiles(n) \subseteq applied,
         s.at = "done" => applied = Version
  PROVE  MigrationInv'
<1>1. runner' \in [Runners -> RunnerState] /\ runner'[r] = s
      /\ \A q \in Runners : q # r => runner'[q] = runner[q]
    BY DEF MigrationInv
<1>2. ASSUME NEW q \in Runners
      PROVE  /\ runner'[q].known \subseteq applied'
             /\ runner'[q].at = "apply" => Remaining(q)'
             /\ runner'[q].at = "done" => applied' = Version
  <2>1. CASE q = r
      BY <2>1, <1>1 DEF Remaining
  <2>2. CASE q # r
    <3>1. runner'[q] = runner[q]
        BY <2>2, <1>1
    <3> QED  BY <3>1 DEF MigrationInv, Remaining
  <2> QED  BY <2>1, <2>2
<1> QED  BY <1>1, <1>2 DEF MigrationInv

\* A file that no runner has applied is the next of the prefix.
LEMMA ApplyExtends ==
  ASSUME MigrationInv, NEW r \in Runners, Apply(r)
  PROVE  MigrationInv'
<1> DEFINE version == Head(runner[r].todo)
<1>1. /\ runner[r].at = "apply" /\ runner[r].todo # <<>>
      /\ version \notin runner[r].known \cup applied
      /\ objects' = objects \cup {version} /\ applied' = applied \cup {version}
      /\ runner' = [runner EXCEPT ![r].todo = Tail(@)]
    BY DEF Apply
<1>2. PICK n \in 0 .. Len(Files) : /\ runner[r].todo = SubSeq(Files, n + 1, Len(Files))
                                   /\ FirstFiles(n) \subseteq applied
    BY <1>1 DEF MigrationInv, Remaining
<1>3. /\ n + 1 \in 1 .. Len(Files) /\ version = Files[n + 1]
      /\ Tail(runner[r].todo) = SubSeq(Files, n + 2, Len(Files))
      /\ FirstFiles(n + 1) = FirstFiles(n) \cup {version}
    BY <1>1, <1>2, RestOfFiles
<1>4. applied = FirstFiles(n)
  <2>1. PICK m \in 0 .. Len(Files) : applied = FirstFiles(m)
      BY DEF MigrationInv
  <2>2. m <= n
    <3>1. n + 1 \in 1 .. m => Files[n + 1] \in applied
        BY <2>1 DEF FirstFiles
    <3>2. n + 1 \notin 1 .. m
        BY <3>1, <1>1, <1>3
    <3>3. m \in Nat /\ n \in Nat
        BY FilesAreVersions
    <3> QED  BY <3>2, <3>3
  <2>3. FirstFiles(m) \subseteq FirstFiles(n)
      BY <2>2, FilesAreVersions DEF FirstFiles
  <2> QED  BY <2>1, <2>3, <1>2
<1>5. applied' = FirstFiles(n + 1)
    BY <1>1, <1>3, <1>4
<1>6. applied' \subseteq Version
    BY <1>3, <1>5, FilesAreVersions
<1> DEFINE s == [runner[r] EXCEPT !.todo = Tail(@)]
<1>7. runner[r] \in RunnerState
    BY DEF MigrationInv
<1>8. s \in RunnerState /\ s.at = "apply" /\ s.known = runner[r].known
      /\ s.todo = SubSeq(Files, n + 2, Len(Files))
  <2>1. runner[r].todo \in Seq(Version)
      BY <1>7 DEF RunnerState
  <2>2. Tail(runner[r].todo) \in Seq(Version)
      BY <2>1, <1>1
  <2> QED  BY <2>2, <1>1, <1>3, <1>7, TodoUpdate
<1>9. runner' = [runner EXCEPT ![r] = s]
    BY <1>1
<1> HIDE DEF s, version
<1>10. runner' \in [Runners -> RunnerState] /\ runner'[r] = s
       /\ \A q \in Runners : q # r => runner'[q] = runner[q]
    BY <1>8, <1>9 DEF MigrationInv
<1>11. ASSUME NEW q \in Runners
       PROVE  /\ runner'[q].known \subseteq applied'
              /\ runner'[q].at = "apply" => Remaining(q)'
              /\ runner'[q].at = "done" => applied' = Version
  <2>1. CASE q = r
    <3>1. Remaining(q)'
      <4>1. n + 1 \in 0 .. Len(Files) /\ (n + 1) + 1 = n + 2
          BY <1>3
      <4>2. s.todo = SubSeq(Files, (n + 1) + 1, Len(Files))
          BY <1>8, <4>1
      <4> QED  BY <4>1, <4>2, <2>1, <1>5, <1>10 DEF Remaining
    <3> QED  BY <3>1, <2>1, <1>1, <1>8, <1>10 DEF MigrationInv
  <2>2. CASE q # r
    <3>1. runner'[q] = runner[q] /\ applied \subseteq applied'
        BY <2>2, <1>1, <1>10
    <3>2. runner[q].at = "apply" => Remaining(q)'
        BY <3>1 DEF MigrationInv, Remaining
    <3> QED  BY <3>1, <3>2, <1>6 DEF MigrationInv
  <2> QED  BY <2>1, <2>2
<1>12. applied' \subseteq objects'
    BY <1>1 DEF MigrationInv
<1> QED  BY <1>3, <1>5, <1>10, <1>11, <1>12 DEF MigrationInv

\* Reading, skipping, failing, returning and starting again only move a runner.
LEMMA RunnerSteps ==
  ASSUME MigrationInv, NEW r \in Runners,
         \/ ReadApplied(r) \/ SkipApplied(r) \/ Conflict(r) \/ Abort(r)
         \/ Return(r) \/ StartAgain(r)
  PROVE  MigrationInv'
<1>1. runner[r] \in RunnerState /\ runner[r].known \subseteq applied
    BY DEF MigrationInv
<1>2. CASE ReadApplied(r)
  <2> DEFINE s == [at |-> "apply", known |-> applied, todo |-> Files]
  <2>1. runner' = [runner EXCEPT ![r] = s] /\ UNCHANGED <<objects, applied>>
      BY <1>2 DEF ReadApplied
  <2>2. applied \subseteq Version
      BY FilesAreVersions DEF MigrationInv
  <2>3. s \in RunnerState
      BY <2>2, FilesAreVersions DEF RunnerState
  <2>4. /\ 0 \in 0 .. Len(Files) /\ s.todo = SubSeq(Files, 0 + 1, Len(Files))
        /\ FirstFiles(0) \subseteq applied
      BY FilesAreVersions DEF FirstFiles
  <2>5. s.at = "apply" /\ s.known = applied
      OBVIOUS
  <2> HIDE DEF s
  <2> QED  BY <2>1, <2>3, <2>4, <2>5, OnlyRunner
<1>3. CASE SkipApplied(r)
  <2> DEFINE s == [runner[r] EXCEPT !.todo = Tail(@)]
  <2>1. /\ runner' = [runner EXCEPT ![r] = s] /\ UNCHANGED <<objects, applied>>
        /\ runner[r].at = "apply" /\ runner[r].todo # <<>>
        /\ Head(runner[r].todo) \in runner[r].known
      BY <1>3 DEF SkipApplied
  <2>2. PICK n \in 0 .. Len(Files) : /\ runner[r].todo = SubSeq(Files, n + 1, Len(Files))
                                     /\ FirstFiles(n) \subseteq applied
      BY <2>1 DEF MigrationInv, Remaining
  <2>3. /\ n + 1 \in 0 .. Len(Files) /\ Tail(runner[r].todo) = SubSeq(Files, n + 2, Len(Files))
        /\ FirstFiles(n + 1) \subseteq applied
    <3>1. /\ n + 1 \in 1 .. Len(Files) /\ Head(runner[r].todo) = Files[n + 1]
          /\ Tail(runner[r].todo) = SubSeq(Files, n + 2, Len(Files))
          /\ FirstFiles(n + 1) = FirstFiles(n) \cup {Files[n + 1]}
        BY <2>1, <2>2, RestOfFiles
    <3>2. FirstFiles(n + 1) \subseteq applied
        BY <3>1, <2>1, <2>2, <1>1
    <3>3. n + 1 \in 0 .. Len(Files)
        BY <3>1
    <3> QED  BY <3>1, <3>2, <3>3
  <2>4. s \in RunnerState /\ s.at = "apply" /\ s.known = runner[r].known
        /\ s.todo = SubSeq(Files, n + 2, Len(Files))
    <3>1. runner[r].todo \in Seq(Version)
        BY <1>1 DEF RunnerState
    <3>2. Tail(runner[r].todo) \in Seq(Version)
        BY <3>1, <2>1
    <3> QED  BY <3>2, <2>1, <2>3, <1>1, TodoUpdate
  <2>5. s.todo = SubSeq(Files, (n + 1) + 1, Len(Files))
    <3>1. (n + 1) + 1 = n + 2
        BY FilesAreVersions
    <3> QED  BY <3>1, <2>4
  <2> HIDE DEF s
  <2> QED  BY <2>1, <2>3, <2>4, <2>5, <1>1, OnlyRunner
<1>4. CASE Conflict(r) \/ Abort(r)
  <2> DEFINE s == [runner[r] EXCEPT !.at = "failed"]
  <2>1. runner' = [runner EXCEPT ![r] = s] /\ UNCHANGED <<objects, applied>>
      BY <1>4 DEF Conflict, Abort
  <2>2. s \in RunnerState /\ s.at = "failed" /\ s.known = runner[r].known
      BY <1>1 DEF RunnerState
  <2> HIDE DEF s
  <2> QED  BY <2>1, <2>2, <1>1, OnlyRunner
<1>5. CASE Return(r)
  <2> DEFINE s == [runner[r] EXCEPT !.at = "done"]
  <2>1. /\ runner' = [runner EXCEPT ![r] = s] /\ UNCHANGED <<objects, applied>>
        /\ runner[r].at = "apply" /\ runner[r].todo = <<>>
      BY <1>5 DEF Return
  <2>2. s \in RunnerState /\ s.at = "done" /\ s.known = runner[r].known
      BY <1>1 DEF RunnerState
  <2>3. applied = Version
    <3>1. PICK n \in 0 .. Len(Files) : /\ runner[r].todo = SubSeq(Files, n + 1, Len(Files))
                                       /\ FirstFiles(n) \subseteq applied
        BY <2>1 DEF MigrationInv, Remaining
    <3>2. n = Len(Files)
        BY <3>1, <2>1, FilesAreVersions
    <3> QED  BY <3>1, <3>2, FilesAreVersions DEF MigrationInv
  <2> HIDE DEF s
  <2> QED  BY <2>1, <2>2, <2>3, <1>1, OnlyRunner
<1>6. CASE StartAgain(r)
  <2>1. runner' = [runner EXCEPT ![r] = IdleRunner] /\ UNCHANGED <<objects, applied>>
      BY <1>6 DEF StartAgain
  <2>2. IdleRunner \in RunnerState /\ IdleRunner.at = "idle" /\ IdleRunner.known = {}
      BY DEF IdleRunner, RunnerState
  <2> QED  BY <2>1, <2>2, OnlyRunner
<1> QED  BY <1>2, <1>3, <1>4, <1>5, <1>6

\* Requests, runs and crashes of the workers leave the schema alone.
LEMMA WorkersLeaveSchema ==
  ASSUME NEW w \in Workers,
         \/ \E key \in DOMAIN keys[w] :
              \/ \E s \in Submissions, runNow \in BOOLEAN : SubmitAlerts(w, key, s, runNow)
              \/ \E id \in IdsOf(threats), v \in Verdicts : SubmitFeedback(w, key, id, v)
              \/ \E role \in NewRoles : CreateApiKey(w, key, role)
         \/ \E s \in Submissions : Demo(w, s)
         \/ RunPipeline(w) \/ SaveAlert(w) \/ Correlate(w) \/ Score(w) \/ Report(w)
         \/ StoreThreat(w) \/ Restart(w)
  PROVE  UNCHANGED migrationVars
<1>1. ASSUME NEW key, NEW s, NEW runNow, SubmitAlerts(w, key, s, runNow)
      PROVE  UNCHANGED migrationVars
    BY <1>1 DEF SubmitAlerts
<1>2. ASSUME NEW key, NEW id, NEW v, SubmitFeedback(w, key, id, v)
      PROVE  UNCHANGED migrationVars
    BY <1>2 DEF SubmitFeedback
<1>3. ASSUME NEW key, NEW role, CreateApiKey(w, key, role) PROVE UNCHANGED migrationVars
    BY <1>3 DEF CreateApiKey
<1>4. ASSUME NEW s, Demo(w, s) PROVE UNCHANGED migrationVars
    BY <1>4 DEF Demo
<1>5. CASE RunPipeline(w)
    BY <1>5 DEF RunPipeline
<1>6. CASE SaveAlert(w)
    BY <1>6 DEF SaveAlert
<1>7. CASE Correlate(w)
    BY <1>7 DEF Correlate
<1>8. CASE Score(w)
    BY <1>8 DEF Score
<1>9. CASE Report(w)
    BY <1>9 DEF Report
<1>10. CASE StoreThreat(w)
    BY <1>10 DEF StoreThreat
<1>11. CASE Restart(w)
    BY <1>11 DEF Restart
<1> QED  BY <1>1, <1>2, <1>3, <1>4, <1>5, <1>6, <1>7, <1>8, <1>9, <1>10, <1>11

\* For any number of runners, files and failures: the versions recorded are a
\* prefix of the files, their objects exist, and run_migrations returns only
\* when all of them do.
THEOREM MigrationsComplete == Spec => []MigratedIsComplete
<1>1. Init => MigrationInv
  <2> SUFFICES ASSUME Init PROVE MigrationInv
      OBVIOUS
  <2>1. applied = {} /\ runner = [r \in Runners |-> IdleRunner]
      BY DEF Init, MigrationInit
  <2>2. IdleRunner \in RunnerState /\ IdleRunner.at = "idle" /\ IdleRunner.known = {}
      BY DEF IdleRunner, RunnerState
  <2>3. 0 \in 0 .. Len(Files) /\ FirstFiles(0) = {}
      BY FilesAreVersions DEF FirstFiles
  <2> QED  BY <2>1, <2>2, <2>3 DEF MigrationInv
<1>2. MigrationInv /\ [Next]_vars => MigrationInv'
  <2> SUFFICES ASSUME MigrationInv, [Next]_vars PROVE MigrationInv'
      OBVIOUS
  <2>1. CASE UNCHANGED migrationVars
      BY <2>1 DEF migrationVars, MigrationInv, Remaining
  <2>2. CASE Migrate
      BY <2>2, ApplyExtends, RunnerSteps DEF Migrate, MigrationNext
  <2>3. CASE UNCHANGED vars
      BY <2>3, <2>1 DEF vars
  <2> QED  BY <2>1, <2>2, <2>3, WorkersLeaveSchema DEF Next
<1>3. MigrationInv => MigratedIsComplete
    BY DEF MigrationInv, MigratedIsComplete, FirstFiles
<1> QED  BY <1>1, <1>2, <1>3, PTL DEF Spec
-----------------------------------------------------------------------------
(* Rows *)

\* A finite sequence, of whatever its rows are.
IsRun(s) == s \in Seq(ToSet(s))

IdsDistinct(rows) == \A i, j \in DOMAIN rows : rows[i].id = rows[j].id => i = j

\* A sequence over some set is a run.
LEMMA RunOf ==
  ASSUME NEW S, NEW s \in Seq(S)
  PROVE  IsRun(s) /\ Len(s) \in Nat /\ DOMAIN s = 1 .. Len(s)
<1>1. Len(s) \in Nat /\ DOMAIN s = 1 .. Len(s) /\ s = [i \in 1 .. Len(s) |-> s[i]]
    OBVIOUS
<1>2. s \in [1 .. Len(s) -> ToSet(s)]
    BY <1>1 DEF ToSet
<1> QED  BY <1>1, <1>2 DEF IsRun

\* A function on 1 .. n is a run.
LEMMA RunFrom ==
  ASSUME NEW n \in Nat, NEW s, s = [i \in 1 .. n |-> s[i]]
  PROVE  IsRun(s) /\ Len(s) = n /\ DOMAIN s = 1 .. n
<1>1. s \in [1 .. n -> ToSet(s)]
    BY DEF ToSet
<1>2. s \in Seq(ToSet(s)) /\ Len(s) = n /\ DOMAIN s = 1 .. n
    BY <1>1
<1> QED  BY <1>2 DEF IsRun

\* Nothing is a run.
LEMMA EmptyRun == IsRun(<<>>) /\ DOMAIN <<>> = {}
<1>1. <<>> \in Seq(ToSet(<<>>))
    OBVIOUS
<1> QED  BY <1>1 DEF IsRun

\* One more row.
LEMMA AppendRun ==
  ASSUME NEW s, IsRun(s), NEW x, NEW t, t = Append(s, x)
  PROVE  /\ IsRun(t)
         /\ DOMAIN t = 1 .. Len(s) + 1 /\ Len(s) \in Nat /\ DOMAIN s = 1 .. Len(s)
         /\ \A i \in DOMAIN s : t[i] = s[i]
         /\ t[Len(s) + 1] = x
<1> DEFINE S == ToSet(s) \cup {x}
<1>1. s \in Seq(S)
    BY DEF IsRun
<1>2. /\ t \in Seq(S) /\ Len(t) = Len(s) + 1 /\ DOMAIN t = 1 .. Len(s) + 1
      /\ Len(s) \in Nat /\ DOMAIN s = 1 .. Len(s)
      /\ \A i \in DOMAIN s : t[i] = s[i]
      /\ t[Len(s) + 1] = x
    BY <1>1
<1> HIDE DEF S
<1>3. IsRun(t)
    BY <1>2, RunOf
<1> QED  BY <1>2, <1>3

\* One more id.
LEMMA AppendIds ==
  ASSUME NEW s, IsRun(s), NEW x, NEW t, t = Append(s, x)
  PROVE  IdsOf(t) = IdsOf(s) \cup {x.id}
<1>1. /\ DOMAIN t = 1 .. Len(s) + 1 /\ Len(s) \in Nat /\ DOMAIN s = 1 .. Len(s)
      /\ \A i \in DOMAIN s : t[i] = s[i]
      /\ t[Len(s) + 1] = x
    BY AppendRun
<1>2. 1 .. Len(s) + 1 = (1 .. Len(s)) \cup {Len(s) + 1}
    BY <1>1
<1> QED  BY <1>1, <1>2 DEF IdsOf

\* One row less.
LEMMA TailRun ==
  ASSUME NEW s, IsRun(s), s # <<>>
  PROVE  /\ IsRun(Tail(s)) /\ IdsOf(s) = {Head(s).id} \cup IdsOf(Tail(s))
         /\ Len(s) \in Nat \ {0} /\ Len(Tail(s)) = Len(s) - 1
         /\ DOMAIN s = 1 .. Len(s) /\ DOMAIN Tail(s) = 1 .. Len(s) - 1
         /\ \A i \in DOMAIN Tail(s) : i + 1 \in DOMAIN s /\ Tail(s)[i] = s[i + 1]
         /\ Head(s) = s[1]
<1> DEFINE t == Tail(s)
<1>1. s \in Seq(ToSet(s))
    BY DEF IsRun
<1>2. /\ t \in Seq(ToSet(s)) /\ Len(t) = Len(s) - 1 /\ DOMAIN t = 1 .. Len(s) - 1
      /\ Len(s) \in Nat \ {0} /\ DOMAIN s = 1 .. Len(s)
      /\ \A i \in DOMAIN t : i + 1 \in DOMAIN s /\ t[i] = s[i + 1]
      /\ Head(s) = s[1]
    BY <1>1
<1> HIDE DEF t
<1>3. IsRun(t)
    BY <1>2, RunOf
<1>4. \A i \in DOMAIN s : i = 1 \/ (i - 1 \in DOMAIN t /\ s[i] = t[i - 1])
    BY <1>2
<1>5. 1 \in DOMAIN s
    BY <1>2
<1>6. IdsOf(s) = {Head(s).id} \cup IdsOf(t)
    BY <1>2, <1>4, <1>5 DEF IdsOf
<1> QED  BY <1>2, <1>3, <1>6 DEF t

\* One row in the place of another with its id.
LEMMA ReplaceRun ==
  ASSUME NEW s, IsRun(s), NEW k \in DOMAIN s, NEW x
  PROVE  LET t == [s EXCEPT ![k] = x]
         IN /\ IsRun(t) /\ DOMAIN t = DOMAIN s /\ t[k] = x
            /\ \A i \in DOMAIN s \ {k} : t[i] = s[i]
<1> DEFINE t == [s EXCEPT ![k] = x]
<1>1. s \in Seq(ToSet(s)) /\ Len(s) \in Nat /\ DOMAIN s = 1 .. Len(s)
    BY RunOf DEF IsRun
<1>2. t = [i \in 1 .. Len(s) |-> t[i]]
    BY <1>1
<1>3. DOMAIN t = DOMAIN s /\ t[k] = x /\ \A i \in DOMAIN s \ {k} : t[i] = s[i]
    OBVIOUS
<1> HIDE DEF t
<1>4. IsRun(t)
    BY <1>1, <1>2, RunFrom
<1> QED  BY <1>3, <1>4 DEF t

\* The row of an id that is there.
LEMMA RowOf ==
  ASSUME NEW rows, NEW id \in IdsOf(rows)
  PROVE  RowNumber(rows, id) \in DOMAIN rows /\ rows[RowNumber(rows, id)].id = id
<1> QED  BY DEF IdsOf, RowNumber
-----------------------------------------------------------------------------
(* Lists in order *)

\* R orders S strictly and totally.
Orders(R, S) ==
  /\ \A i \in S : <<i, i>> \notin R
  /\ \A i, j, k \in S : <<i, j>> \in R /\ <<j, k>> \in R => <<i, k>> \in R
  /\ \A i, j \in S : i = j \/ <<i, j>> \in R \/ <<j, i>> \in R

\* f lists S as R orders it.
Lists(f, S, R) ==
  /\ f \in [1 .. Cardinality(S) -> S]
  /\ \A i \in S : \E n \in 1 .. Cardinality(S) : f[n] = i
  /\ \A m, n \in 1 .. Cardinality(S) : m < n => <<f[m], f[n]>> \in R

Before(i, S, R) == {j \in S : <<j, i>> \in R}

\* What is before i is fewer than what is before what comes after it.
LEMMA BeforeGrows ==
  ASSUME NEW S, IsFiniteSet(S), NEW R, Orders(R, S), NEW i \in S, NEW k \in S, <<i, k>> \in R
  PROVE  /\ Cardinality(Before(i, S, R)) \in Nat /\ Cardinality(Before(k, S, R)) \in Nat
         /\ Cardinality(Before(i, S, R)) < Cardinality(Before(k, S, R))
<1> DEFINE a == Before(i, S, R)
           b == Before(k, S, R)
<1>1. a \in SUBSET S /\ b \in SUBSET S
    BY DEF Before
<1>2. i \notin a /\ a \cup {i} \in SUBSET b
    BY DEF Before, Orders
<1> HIDE DEF a, b
<1>3. IsFiniteSet(a) /\ IsFiniteSet(b) /\ Cardinality(a) \in Nat /\ Cardinality(b) \in Nat
    BY <1>1, FS_Subset, FS_CardinalityType
<1>4. Cardinality(a \cup {i}) = Cardinality(a) + 1
    BY <1>2, <1>3, FS_AddElement
<1>5. Cardinality(a \cup {i}) <= Cardinality(b)
    BY <1>2, <1>3, FS_Subset
<1>6. Cardinality(a) < Cardinality(b)
    BY <1>3, <1>4, <1>5
<1> QED  BY <1>3, <1>6 DEF a, b

\* There are fewer before a member than there are members.
LEMMA BeforeBounded ==
  ASSUME NEW S, IsFiniteSet(S), NEW R, Orders(R, S), NEW i \in S
  PROVE  Cardinality(Before(i, S, R)) \in 0 .. Cardinality(S) - 1
<1> DEFINE a == Before(i, S, R)
           rest == S \ {i}
<1>1. a \in SUBSET rest
    BY DEF Before, Orders
<1> HIDE DEF a
<1>2. IsFiniteSet(rest) /\ Cardinality(rest) = Cardinality(S) - 1 /\ Cardinality(S) \in Nat
    BY FS_RemoveElement, FS_CardinalityType
<1> HIDE DEF rest
<1>3. Cardinality(a) \in Nat /\ Cardinality(a) <= Cardinality(rest)
    BY <1>1, <1>2, FS_Subset, FS_CardinalityType
<1>4. Cardinality(a) \in 0 .. Cardinality(S) - 1
    BY <1>2, <1>3
<1> QED  BY <1>4 DEF a

\* The nth member in order is the one with n - 1 before it, and there is one.
LEMMA PlacesFilled ==
  ASSUME NEW S, IsFiniteSet(S), NEW R, Orders(R, S)
  PROVE  \A n \in 1 .. Cardinality(S) : \E i \in S : Cardinality(Before(i, S, R)) = n - 1
<1> DEFINE N == Cardinality(S)
           T == 0 .. (N - 1)
           place == [i \in S |-> Cardinality(Before(i, S, R))]
<1>1. N \in Nat
    BY FS_CardinalityType
<1> HIDE DEF N
<1>2. IsFiniteSet(T) /\ Cardinality(T) = N
  <2>1. 0 \in Int /\ N - 1 \in Int /\ (0 > N - 1 => N = 0) /\ (N - 1) - 0 + 1 = N
      BY <1>1
  <2> QED  BY <2>1, FS_Interval
<1>3. place \in [S -> T]
    BY BeforeBounded DEF N
<1>4. \A i, k \in S : i # k => place[i] # place[k]
  <2> SUFFICES ASSUME NEW i \in S, NEW k \in S, i # k PROVE place[i] # place[k]
      OBVIOUS
  <2>1. <<i, k>> \in R \/ <<k, i>> \in R
      BY DEF Orders
  <2>2. \/ /\ Cardinality(Before(i, S, R)) \in Nat /\ Cardinality(Before(k, S, R)) \in Nat
           /\ Cardinality(Before(i, S, R)) < Cardinality(Before(k, S, R))
        \/ /\ Cardinality(Before(i, S, R)) \in Nat /\ Cardinality(Before(k, S, R)) \in Nat
           /\ Cardinality(Before(k, S, R)) < Cardinality(Before(i, S, R))
      BY <2>1, BeforeGrows
  <2> QED  BY <2>2
<1> HIDE DEF place
<1>5. place \in Injection(S, T)
    BY <1>3, <1>4 DEF Injection, IsInjective
<1> HIDE DEF T
<1>6. place \in Surjection(S, T)
    BY <1>2, <1>5, FS_Injection DEF N
<1>7. ASSUME NEW n \in 1 .. N PROVE \E i \in S : place[i] = n - 1
    BY <1>1, <1>6, <1>7 DEF Surjection, T
<1> QED  BY <1>7 DEF N, place

\* InOrder lists the set.
LEMMA InOrderLists ==
  ASSUME NEW S, IsFiniteSet(S), NEW R, Orders(R, S)
  PROVE  Lists(InOrder(S, R), S, R)
<1> DEFINE N == Cardinality(S)
           f == InOrder(S, R)
           nth(n) == CHOOSE i \in S : Cardinality({j \in S : <<j, i>> \in R}) = n - 1
<1>1. f = [n \in 1 .. N |-> nth(n)]
    BY Zenon DEF InOrder
<1>2. \A n \in 1 .. N : nth(n) \in S /\ Cardinality(Before(nth(n), S, R)) = n - 1
  <2> SUFFICES ASSUME NEW n \in 1 .. N
               PROVE  \E i \in S : Cardinality({j \in S : <<j, i>> \in R}) = n - 1
      BY Zenon DEF Before
  <2> QED  BY PlacesFilled DEF Before
<1> HIDE DEF nth, f
<1>3. \A n \in 1 .. N : f[n] \in S /\ Cardinality(Before(f[n], S, R)) = n - 1
    BY <1>1, <1>2
<1>4. N \in Nat
    BY FS_CardinalityType
<1>5. f \in [1 .. N -> S]
    BY <1>1, <1>2
<1> HIDE DEF N
<1>6. ASSUME NEW i \in S, NEW k \in S, Cardinality(Before(i, S, R)) = Cardinality(Before(k, S, R))
      PROVE  i = k
  <2>1. <<i, k>> \notin R /\ <<k, i>> \notin R
      BY <1>6, BeforeGrows
  <2> QED  BY <2>1 DEF Orders
<1>7. ASSUME NEW i \in S PROVE \E n \in 1 .. N : f[n] = i
  <2>1. PICK b \in 0 .. N - 1 : b = Cardinality(Before(i, S, R))
      BY BeforeBounded DEF N
  <2>2. b + 1 \in 1 .. N /\ (b + 1) - 1 = b
      BY <1>4, <2>1
  <2> QED  BY <1>3, <1>6, <2>1, <2>2
<1>8. ASSUME NEW m \in 1 .. N, NEW n \in 1 .. N, m < n PROVE <<f[m], f[n]>> \in R
  <2>1. f[m] # f[n]
      BY <1>3, <1>8
  <2>2. ASSUME <<f[n], f[m]>> \in R PROVE FALSE
    <3>1. Cardinality(Before(f[n], S, R)) < Cardinality(Before(f[m], S, R))
        BY <1>3, <2>2, BeforeGrows
    <3>2. n - 1 < m - 1
        BY <1>3, <3>1
    <3> QED  BY <1>8, <3>2
  <2> QED  BY <1>3, <2>1, <2>2 DEF Orders
<1> QED  BY <1>5, <1>7, <1>8 DEF Lists, N, f

\* A list in order has n - 1 members before the nth.
LEMMA ListedPlace ==
  ASSUME NEW S, IsFiniteSet(S), NEW R, Orders(R, S), NEW f, Lists(f, S, R),
         NEW n \in 1 .. Cardinality(S)
  PROVE  Cardinality(Before(f[n], S, R)) = n - 1
<1> DEFINE N == Cardinality(S)
           T == 1 .. (n - 1)
           g == [m \in T |-> f[m]]
           b == Before(f[n], S, R)
<1>0. N \in Nat
    BY FS_CardinalityType
<1>1. T \subseteq 1 .. N /\ n \in Nat /\ n \in 1 .. N
    BY <1>0
<1> HIDE DEF N
<1>2. \A m \in T : m \in 1 .. N /\ m < n
    BY <1>0, <1>1
<1>3. g \in [T -> b]
    BY <1>2 DEF Before, Lists, N
<1>4. \A i \in b : \E m \in T : g[m] = i
  <2> SUFFICES ASSUME NEW i \in b PROVE \E m \in T : g[m] = i
      OBVIOUS
  <2>1. i \in S /\ <<i, f[n]>> \in R /\ f[n] \in S
      BY DEF Before, Lists
  <2>2. PICK m \in 1 .. N : f[m] = i
      BY <2>1 DEF Lists, N
  <2>3. m # n
      BY <2>1, <2>2 DEF Orders
  <2>4. ~ (n < m)
    <3> SUFFICES ASSUME n < m PROVE FALSE
        OBVIOUS
    <3>1. <<f[n], f[m]>> \in R
        BY <1>1 DEF Lists, N
    <3> QED  BY <2>1, <2>2, <3>1 DEF Orders
  <2>5. m \in T
      BY <1>0, <1>1, <2>3, <2>4
  <2> QED  BY <2>2, <2>5
<1>5. \A m, k \in T : m # k => g[m] # g[k]
  <2> SUFFICES ASSUME NEW m \in T, NEW k \in T, m < k PROVE g[m] # g[k]
      BY <1>2
  <2>1. <<f[m], f[k]>> \in R /\ f[m] \in S
      BY <1>2 DEF Lists, N
  <2> QED  BY <2>1 DEF Orders
<1> HIDE DEF g, b
<1>6. g \in Bijection(T, b)
    BY <1>3, <1>4, <1>5 DEF Bijection, Injection, Surjection, IsInjective
<1>7. IsFiniteSet(T) /\ Cardinality(T) = n - 1
  <2>1. 1 \in Int /\ n - 1 \in Int /\ (1 > n - 1 => n - 1 = 0) /\ (n - 1) - 1 + 1 = n - 1
      BY <1>0, <1>1
  <2> QED  BY <2>1, FS_Interval
<1> HIDE DEF T
<1>8. Cardinality(b) = n - 1
  <2>1. ExistsBijection(T, b)
      BY <1>6 DEF ExistsBijection
  <2> QED  BY <1>7, <2>1, FS_Bijection
<1> QED  BY <1>8 DEF b

\* So there is one such list.
LEMMA ListsUnique ==
  ASSUME NEW S, IsFiniteSet(S), NEW R, Orders(R, S), NEW f, NEW g,
         Lists(f, S, R), Lists(g, S, R)
  PROVE  f = g
<1>1. ASSUME NEW n \in 1 .. Cardinality(S) PROVE f[n] = g[n]
  <2>1. Cardinality(Before(f[n], S, R)) = n - 1 /\ Cardinality(Before(g[n], S, R)) = n - 1
      BY ListedPlace
  <2>2. f[n] \in S /\ g[n] \in S
      BY DEF Lists
  <2>3. <<f[n], g[n]>> \notin R /\ <<g[n], f[n]>> \notin R
      BY <2>1, <2>2, BeforeGrows
  <2> QED  BY <2>2, <2>3 DEF Orders
<1>2. /\ f = [n \in 1 .. Cardinality(S) |-> f[n]]
      /\ g = [n \in 1 .. Cardinality(S) |-> g[n]]
    BY DEF Lists
<1> QED  BY <1>1, <1>2

\* P are the places in f of the members of T, and h gives them in turn.
Places(h, P, f, S, T) ==
  /\ P \in SUBSET (1 .. Cardinality(S))
  /\ \A i \in 1 .. Cardinality(S) : i \in P <=> f[i] \in T
  /\ h \in [1 .. Cardinality(P) -> P]
  /\ \A i \in P : \E n \in 1 .. Cardinality(P) : h[n] = i
  /\ \A m, n \in 1 .. Cardinality(P) : m < n => h[m] < h[n]

\* A filter and an order may be swapped: of a list in order, the places of a part
\* of the set list that part in order.
LEMMA FilterLists ==
  ASSUME NEW S, IsFiniteSet(S), NEW R, Orders(R, S), NEW f, Lists(f, S, R),
         NEW T \in SUBSET S, NEW P, NEW h, Places(h, P, f, S, T)
  PROVE  /\ Cardinality(P) = Cardinality(T) /\ Cardinality(T) \in Nat
         /\ \A n \in 1 .. Cardinality(T) : f[h[n]] = InOrder(T, R)[n]
<1> DEFINE N == Cardinality(S)
           c == [i \in P |-> f[i]]
           fh == [n \in 1 .. Cardinality(T) |-> f[h[n]]]
<1>1. N \in Nat /\ IsFiniteSet(T) /\ Cardinality(T) \in Nat /\ Orders(R, T)
    BY FS_Subset, FS_CardinalityType DEF Orders
<1>2. /\ f \in [1 .. N -> S] /\ \A i \in S : \E n \in 1 .. N : f[n] = i
      /\ \A m, n \in 1 .. N : m < n => <<f[m], f[n]>> \in R
    BY DEF Lists
<1>3. P \subseteq 1 .. N /\ \A i \in P : f[i] \in T /\ i \in 1 .. N
    BY DEF Places
<1>4. \A i \in T : \E n \in P : f[n] = i
    BY <1>2 DEF Places
<1> HIDE DEF N
<1>5. \A i, k \in P : i < k => <<f[i], f[k]>> \in R
    BY <1>2, <1>3
<1>6. \A i, k \in P : i # k => f[i] # f[k]
  <2> SUFFICES ASSUME NEW i \in P, NEW k \in P, i < k PROVE f[i] # f[k]
      BY <1>1, <1>3
  <2>1. <<f[i], f[k]>> \in R /\ f[i] \in S
      BY <1>3, <1>5
  <2> QED  BY <2>1 DEF Orders
<1>7. c \in Bijection(P, T)
    BY <1>3, <1>4, <1>6 DEF Bijection, Injection, Surjection, IsInjective
<1> HIDE DEF c
<1>8. IsFiniteSet(P)
  <2>1. IsFiniteSet(1 .. N)
      BY <1>1, FS_Interval
  <2> QED  BY <1>3, <2>1, FS_Subset
<1>9. Cardinality(P) = Cardinality(T)
  <2>1. ExistsBijection(P, T)
      BY <1>7 DEF ExistsBijection
  <2> QED  BY <1>8, <2>1, FS_Bijection
<1>10. /\ h \in [1 .. Cardinality(T) -> P]
       /\ \A i \in P : \E n \in 1 .. Cardinality(T) : h[n] = i
       /\ \A m, n \in 1 .. Cardinality(T) : m < n => h[m] < h[n]
    BY <1>9 DEF Places
<1>11. fh \in [1 .. Cardinality(T) -> T]
    BY <1>3, <1>10
<1>12. \A i \in T : \E n \in 1 .. Cardinality(T) : fh[n] = i
  <2> SUFFICES ASSUME NEW i \in T PROVE \E n \in 1 .. Cardinality(T) : fh[n] = i
      OBVIOUS
  <2>1. PICK k \in P : f[k] = i
      BY <1>4
  <2>2. PICK n \in 1 .. Cardinality(T) : h[n] = k
      BY <1>10
  <2> QED  BY <2>1, <2>2
<1>13. \A m, n \in 1 .. Cardinality(T) : m < n => <<fh[m], fh[n]>> \in R
    BY <1>5, <1>10
<1>14. Lists(fh, T, R)
  <2> HIDE DEF fh
  <2> QED  BY <1>11, <1>12, <1>13 DEF Lists
<1>15. fh = InOrder(T, R)
  <2> HIDE DEF fh
  <2> QED  BY <1>1, <1>14, InOrderLists, ListsUnique
<1>16. \A n \in 1 .. Cardinality(T) : fh[n] = f[h[n]]
    OBVIOUS
<1> HIDE DEF fh
<1> QED  BY <1>1, <1>9, <1>15, <1>16

\* The rows of a selection are those with its numbers, in a list.
LEMMA SelectedRows ==
  ASSUME NEW rows, IsRun(rows), NEW S \in SUBSET DOMAIN rows
  PROVE  LET sel == Selected(rows, S)
             order == InOrder(S, {e \in S \X S : e[1] < e[2]})
         IN /\ IsFiniteSet(S) /\ Cardinality(S) \in Nat
            /\ IsRun(sel) /\ Len(sel) = Cardinality(S) /\ DOMAIN sel = 1 .. Cardinality(S)
            /\ \A i \in S : rows[i] \in ToSet(sel)
            /\ Orders({e \in S \X S : e[1] < e[2]}, S)
            /\ Lists(order, S, {e \in S \X S : e[1] < e[2]})
            /\ \A n \in DOMAIN sel : sel[n] = rows[order[n]]
<1> DEFINE R == {e \in S \X S : e[1] < e[2]}
           order == InOrder(S, R)
           sel == Selected(rows, S)
           n == Cardinality(S)
<1>1. Len(rows) \in Nat /\ DOMAIN rows = 1 .. Len(rows)
    BY RunOf DEF IsRun
<1>2. IsFiniteSet(S) /\ n \in Nat
  <2>1. 1 \in Int /\ Len(rows) \in Int
      BY <1>1
  <2>2. IsFiniteSet(DOMAIN rows)
      BY <1>1, <2>1, FS_Interval
  <2> QED  BY <2>2, FS_Subset, FS_CardinalityType
<1>3. Orders(R, S)
    BY <1>1 DEF Orders
<1> HIDE DEF R
<1>4. Lists(order, S, R)
    BY <1>2, <1>3, InOrderLists
<1>5. sel = [k \in DOMAIN order |-> rows[order[k]]]
    BY DEF Selected, R
<1> HIDE DEF order, sel
<1>6. order \in [1 .. n -> S] /\ \A i \in S : \E k \in 1 .. n : order[k] = i
    BY <1>4 DEF Lists
<1> HIDE DEF n
<1>7. sel = [k \in 1 .. n |-> sel[k]] /\ \A k \in 1 .. n : sel[k] = rows[order[k]]
    BY <1>5, <1>6
<1>8. IsRun(sel) /\ Len(sel) = n /\ DOMAIN sel = 1 .. n
    BY <1>2, <1>7, RunFrom
<1>9. \A i \in S : rows[i] \in ToSet(sel)
    BY <1>6, <1>7, <1>8 DEF ToSet
<1> QED  BY <1>2, <1>3, <1>4, <1>7, <1>8, <1>9 DEF n, sel, order, R

\* Two runs, one after the other, are a run.
LEMMA JoinRuns ==
  ASSUME NEW s, IsRun(s), NEW t, IsRun(t)
  PROVE  /\ IsRun(s \o t) /\ Len(s \o t) = Len(s) + Len(t) /\ Len(s) \in Nat /\ Len(t) \in Nat
         /\ DOMAIN (s \o t) = 1 .. Len(s) + Len(t)
         /\ \A i \in 1 .. Len(s) : (s \o t)[i] = s[i]
         /\ \A i \in 1 .. Len(t) : (s \o t)[Len(s) + i] = t[i]
         /\ ToSet(s \o t) = ToSet(s) \cup ToSet(t)
<1> DEFINE S == ToSet(s) \cup ToSet(t)
           u == s \o t
<1>1. s \in Seq(S) /\ t \in Seq(S) /\ DOMAIN s = 1 .. Len(s) /\ DOMAIN t = 1 .. Len(t)
    BY RunOf DEF IsRun
<1> HIDE DEF S
<1>2. /\ u \in Seq(S) /\ Len(u) = Len(s) + Len(t) /\ DOMAIN u = 1 .. Len(s) + Len(t)
      /\ Len(s) \in Nat /\ Len(t) \in Nat
      /\ \A i \in 1 .. Len(s) : u[i] = s[i]
      /\ \A i \in 1 .. Len(t) : u[Len(s) + i] = t[i]
    BY <1>1
<1> HIDE DEF u
<1>3. ToSet(u) = ToSet(s) \cup ToSet(t)
  <2>1. ASSUME NEW x \in ToSet(u) PROVE x \in ToSet(s) \cup ToSet(t)
    <3>1. PICK i \in 1 .. Len(s) + Len(t) : x = u[i]
        BY <1>2 DEF ToSet
    <3>2. CASE i <= Len(s)
        BY <1>1, <1>2, <3>1, <3>2 DEF ToSet
    <3>3. CASE i > Len(s)
      <4>1. i - Len(s) \in 1 .. Len(t) /\ Len(s) + (i - Len(s)) = i
          BY <1>2, <3>3
      <4> QED  BY <1>1, <1>2, <3>1, <4>1 DEF ToSet
    <3> QED  BY <1>2, <3>2, <3>3
  <2>2. ToSet(s) \subseteq ToSet(u)
      BY <1>1, <1>2 DEF ToSet
  <2>3. ASSUME NEW i \in 1 .. Len(t) PROVE t[i] \in ToSet(u)
    <3>1. Len(s) + i \in 1 .. Len(s) + Len(t)
        BY <1>2
    <3> QED  BY <1>2, <3>1 DEF ToSet
  <2> QED  BY <1>1, <2>1, <2>2, <2>3 DEF ToSet
<1> QED  BY <1>2, <1>3, RunOf DEF u

\* The end of a run is a run.
LEMMA EndOfRun ==
  ASSUME NEW s, IsRun(s), NEW m \in 1 .. Len(s)
  PROVE  /\ IsRun(SubSeq(s, m, Len(s)))
         /\ Len(s) \in Nat /\ Len(SubSeq(s, m, Len(s))) = Len(s) - m + 1
         /\ \A i \in 1 .. Len(s) - m + 1 : SubSeq(s, m, Len(s))[i] = s[m - 1 + i]
<1> DEFINE S == ToSet(s)
<1>1. s \in Seq(S) /\ Len(s) \in Nat
    BY RunOf DEF IsRun
<1> HIDE DEF S
<1>2. /\ SubSeq(s, m, Len(s)) \in Seq(S) /\ Len(SubSeq(s, m, Len(s))) = Len(s) - m + 1
      /\ \A i \in 1 .. Len(s) - m + 1 : SubSeq(s, m, Len(s))[i] = s[m - 1 + i]
    BY <1>1
<1> QED  BY <1>1, <1>2, RunOf

\* All rows are the rows.
LEMMA AllSelected ==
  ASSUME NEW rows, IsRun(rows)
  PROVE  Selected(rows, DOMAIN rows) = rows
<1> DEFINE n == Len(rows)
           D == 1 .. n
           R == {e \in D \X D : e[1] < e[2]}
           id == [k \in D |-> k]
           sel == Selected(rows, D)
<1>1. n \in Nat /\ DOMAIN rows = D /\ rows = [k \in D |-> rows[k]]
    BY RunOf DEF IsRun
<1>2. IsFiniteSet(D) /\ Cardinality(D) = n
  <2>1. 1 \in Int /\ n \in Int /\ (1 > n => n = 0) /\ n - 1 + 1 = n
      BY <1>1
  <2> QED  BY <2>1, FS_Interval
<1>3. Lists(id, D, R)
    BY <1>1, <1>2 DEF Lists
<1>4. D \in SUBSET DOMAIN rows
    BY <1>1
<1>5. /\ Orders(R, D) /\ Lists(InOrder(D, R), D, R)
      /\ IsRun(sel) /\ DOMAIN sel = 1 .. Cardinality(D)
      /\ \A k \in DOMAIN sel : sel[k] = rows[InOrder(D, R)[k]]
    BY <1>4, SelectedRows
<1>6. InOrder(D, R) = id
    BY <1>2, <1>3, <1>5, ListsUnique
<1>7. sel = [k \in DOMAIN sel |-> sel[k]]
    BY <1>5, RunOf DEF IsRun
<1> HIDE DEF sel, R
<1>8. sel = [k \in D |-> rows[k]]
    BY <1>1, <1>2, <1>5, <1>6, <1>7
<1> QED  BY <1>1, <1>8 DEF sel
-----------------------------------------------------------------------------
(* Evidence and reports *)

\* The alerts a threat may refer to.
Known == IdsOf(alerts) \cup dropped
Evident(t) == t.alerts # {} /\ t.alerts \subseteq Known

JobFields == {"at", "todo", "batch", "pending", "runs"}
ResultFields == {"reported", "errors", "stored"}
Saving(w) == job[w].at \in {"submit", "persist"}
Deciding(w) == job[w].at \in {"score", "report", "store"}

\* The threats a run has yet to store.
Due(w) == {job[w].pending[i].id : i \in DOMAIN job[w].pending}

\* Where a run is, its batch and its threats fit.
JobInv(w) ==
  /\ DOMAIN job[w] = JobFields
  /\ job[w].at = "idle" \/ Postgres \/ w = Server
  /\ Saving(w) => IsRun(job[w].todo) /\ job[w].todo # <<>>
  /\ Saving(w) \/ job[w].at = "correlate" => IsRun(job[w].batch) /\ job[w].batch # <<>>
  /\ job[w].at = "persist" => IdsOf(job[w].batch) \subseteq IdsOf(job[w].todo) \cup Known
  /\ job[w].at = "correlate" => IdsOf(job[w].batch) \subseteq Known
  /\ ~Deciding(w) => job[w].pending = <<>>
  /\ Deciding(w) => IsRun(job[w].pending) /\ job[w].pending # <<>>
  /\ IdsDistinct(job[w].pending)
  /\ \A i \in DOMAIN job[w].pending : Evident(job[w].pending[i])
  /\ \A id \in Due(w) : id \in Nat \ {0} /\ id <= nextId /\ id \notin IdsOf(threats)

\* In memory every report is saved, in PostgreSQL none.
ResultInv(w) ==
  /\ DOMAIN result[w] = ResultFields
  /\ Postgres \/ w = Server \/ result[w] = NoResult
  /\ result[w].stored \subseteq result[w].reported
  /\ job[w].at = "store" => Head(job[w].pending).id \in result[w].reported
  /\ result[w].errors = IF Postgres THEN result[w].reported ELSE {}
  /\ ~Postgres => result[w].reported \subseteq IdsOf(reports)

KeyInv(w) == "master" \in DOMAIN keys[w] /\ keys[w]["master"] = "admin"

StoreInv ==
  /\ nextId \in Nat
  /\ IsRun(alerts) /\ IsRun(threats) /\ IsRun(reports)
  /\ IdsDistinct(threats)
  /\ \A i \in DOMAIN threats :
       Evident(threats[i]) /\ threats[i].id \in Nat \ {0} /\ threats[i].id <= nextId
  /\ Postgres => reports = <<>>

PipelineInv ==
  /\ DOMAIN job = Workers /\ DOMAIN result = Workers /\ DOMAIN keys = Workers
  /\ StoreInv
  /\ \A w \in Workers : JobInv(w) /\ ResultInv(w) /\ KeyInv(w)
  /\ \A v, w \in Workers : v # w => Due(v) \cap Due(w) = {}

\* A step of worker w: the others go on as they were.
OnlyWorker(w) ==
  /\ backend' = backend
  /\ DOMAIN job' = Workers /\ DOMAIN result' = Workers /\ DOMAIN keys' = Workers
  /\ \A v \in Workers \ {w} :
       job'[v] = job[v] /\ result'[v] = result[v] /\ keys'[v] = keys[v]

\* What the others rely on is still there.
Grows(w) ==
  /\ Known \subseteq Known'
  /\ nextId' >= nextId
  /\ IdsOf(threats') \subseteq IdsOf(threats) \cup Due(w)
  /\ IdsOf(reports) \subseteq IdsOf(reports')

\* A step of one worker keeps the invariant if its own part and the stores do.
LEMMA StepKept ==
  ASSUME PipelineInv, NEW w \in Workers, OnlyWorker(w), Grows(w), StoreInv',
         JobInv(w)', ResultInv(w)', KeyInv(w)',
         \A id \in Due(w)' : id \in Due(w) \/ id > nextId
  PROVE  PipelineInv'
<1>1. ASSUME NEW v \in Workers, v # w PROVE JobInv(v)' /\ ResultInv(v)' /\ KeyInv(v)'
  <2>1. job'[v] = job[v] /\ result'[v] = result[v] /\ keys'[v] = keys[v] /\ backend' = backend
      BY <1>1 DEF OnlyWorker
  <2>2. JobInv(v) /\ ResultInv(v) /\ KeyInv(v) /\ Due(v) \cap Due(w) = {}
      BY <1>1 DEF PipelineInv
  <2>3. Due(v)' = Due(v)
      BY <2>1 DEF Due
  <2>4. \A i \in DOMAIN job[v].pending : Evident(job[v].pending[i])'
      BY <2>1, <2>2 DEF JobInv, Evident, Grows
  <2>5. \A id \in Due(v) : id \in Nat /\ id <= nextId' /\ id \notin IdsOf(threats')
    <3>1. nextId \in Nat /\ nextId' \in Nat
        BY DEF PipelineInv, StoreInv
    <3>2. \A id \in Due(v) : id \in Nat /\ id <= nextId /\ id \notin IdsOf(threats)
        BY <2>2 DEF JobInv
    <3> QED  BY <2>2, <3>1, <3>2 DEF Grows
  <2>6. JobInv(v)'
      BY <2>1, <2>2, <2>3, <2>4, <2>5 DEF JobInv, Saving, Deciding, Postgres, Grows
  <2>7. ResultInv(v)'
      BY <2>1, <2>2 DEF ResultInv, Postgres, Grows
  <2>8. KeyInv(v)'
      BY <2>1, <2>2 DEF KeyInv
  <2> QED  BY <2>6, <2>7, <2>8
<1>2. ASSUME NEW v \in Workers, v # w PROVE Due(v)' \cap Due(w)' = {}
  <2>1. Due(v)' = Due(v)
      BY <1>2 DEF Due, OnlyWorker
  <2>2. Due(v) \cap Due(w) = {}
      BY <1>2 DEF PipelineInv
  <2>3. nextId \in Nat /\ \A id \in Due(v) : id \in Nat /\ id <= nextId
      BY DEF PipelineInv, StoreInv, JobInv
  <2>4. \A id \in Due(v) : ~(id > nextId)
      BY <2>3
  <2> QED  BY <2>1, <2>2, <2>4
<1>3. \A u, v \in Workers : u # v => Due(u)' \cap Due(v)' = {}
  <2> SUFFICES ASSUME NEW u \in Workers, NEW v \in Workers, u # v
               PROVE  Due(u)' \cap Due(v)' = {}
      OBVIOUS
  <2>1. CASE u = w
      BY <2>1, <1>2
  <2>2. CASE v = w
      BY <2>2, <1>2
  <2>3. CASE u # w /\ v # w
    <3>1. Due(u)' = Due(u) /\ Due(v)' = Due(v)
        BY <2>3 DEF Due, OnlyWorker
    <3> QED  BY <3>1 DEF PipelineInv
  <2> QED  BY <2>1, <2>2, <2>3
<1> QED  BY <1>1, <1>3 DEF PipelineInv, OnlyWorker

\* What a step leaves alone stays as it is.
LEMMA StoresKept ==
  ASSUME PipelineInv, UNCHANGED <<backend, alerts, threats, reports, nextId, dropped>>
  PROVE  /\ StoreInv' /\ \A w : Grows(w)
         /\ \A t : Evident(t)' <=> Evident(t)
<1>1. nextId \in Nat
    BY DEF PipelineInv, StoreInv
<1>2. \A w : Grows(w)
    BY <1>1 DEF Grows, Known
<1> QED  BY <1>2 DEF PipelineInv, StoreInv, Evident, Known, Postgres

\* A request starts a run with alerts to save.
LEMMA StartKept ==
  ASSUME PipelineInv, NEW w \in Workers, NEW at \in {"submit", "persist"}, NEW batch, NEW runs,
         Take(w), Start(w, at, batch, runs), IsRun(batch), batch # <<>>,
         UNCHANGED <<backend, alerts, threats, reports, keys, nextId, dropped>>
  PROVE  PipelineInv'
<1>1. /\ job' = [job EXCEPT ![w] = [at |-> at, todo |-> batch, batch |-> batch,
                                    pending |-> <<>>, runs |-> runs]]
      /\ result' = [result EXCEPT ![w] = NoResult]
    BY DEF Start
<1>2. DOMAIN job = Workers /\ DOMAIN result = Workers /\ DOMAIN keys = Workers
    BY DEF PipelineInv
<1>3. /\ job'[w] = [at |-> at, todo |-> batch, batch |-> batch, pending |-> <<>>, runs |-> runs]
      /\ result'[w] = NoResult /\ keys'[w] = keys[w]
    BY <1>1, <1>2
<1>4. OnlyWorker(w)
    BY <1>1, <1>2 DEF OnlyWorker
<1>5. StoreInv' /\ Grows(w)
    BY StoresKept
<1>6. Due(w)' = {}
    BY <1>3 DEF Due
<1>7. Postgres' \/ w = Server
    BY DEF Take, Postgres
<1>8. JobInv(w)'
    BY <1>3, <1>6, <1>7 DEF JobInv, JobFields, Saving, Deciding, IdsDistinct
<1>9. ResultInv(w)'
    BY <1>3, <1>7 DEF ResultInv, ResultFields, NoResult
<1>10. KeyInv(w)'
    BY <1>3 DEF PipelineInv, KeyInv
<1> QED  BY <1>4, <1>5, <1>6, <1>8, <1>9, <1>10, StepKept

\* The alerts the most recent ones are.
LEMMA RecentIsRun ==
  ASSUME PipelineInv, NEW limit \in Nat
  PROVE  IsRun(RecentAlerts(limit, 0))
<1> DEFINE r == Reverse(alerts)
           n == IF 0 + limit < Len(r) THEN 0 + limit ELSE Len(r)
           page == SubSeq(r, 0 + 1, n)
<1>1. IsRun(alerts) /\ Len(alerts) \in Nat
    BY RunOf DEF PipelineInv, StoreInv, IsRun
<1>2. r = [i \in 1 .. Len(alerts) |-> r[i]]
    BY <1>1 DEF Reverse
<1> HIDE DEF r
<1>3. IsRun(r) /\ Len(r) = Len(alerts)
    BY <1>1, <1>2, RunFrom
<1>4. n \in Nat /\ n <= Len(r)
    BY <1>1, <1>3
<1>5. r \in Seq(ToSet(r))
    BY <1>3 DEF IsRun
<1> HIDE DEF n
<1>6. page \in Seq(ToSet(r))
    BY <1>1, <1>3, <1>4, <1>5
<1>7. IsRun(page)
    BY <1>6, RunOf
<1>8. MemoryRecentAlerts(alerts, limit, 0) = page
    BY DEF MemoryRecentAlerts, Page, r, n
<1> HIDE DEF page
<1> DEFINE rows == [i \in DOMAIN page |-> RowToAlert(page[i])]
<1>9. PostgresRecentAlerts(alerts, limit, 0) = rows
    BY DEF PostgresRecentAlerts, Page, r, n, page
<1>10. DOMAIN page = 1 .. Len(page) /\ Len(page) \in Nat
    BY <1>6, RunOf
<1>11. rows = [i \in 1 .. Len(page) |-> rows[i]]
    BY <1>10
<1> HIDE DEF rows
<1>12. IsRun(rows)
    BY <1>10, <1>11, RunFrom
<1> QED  BY <1>7, <1>8, <1>9, <1>12 DEF RecentAlerts

\* The alerts of a request.
LEMMA IngestedIsRun ==
  ASSUME NEW s \in Submissions, Ingested(s) # <<>>, NEW batch,
         batch = [i \in DOMAIN Ingested(s) |-> batch[i]]
  PROVE  IsRun(batch) /\ batch # <<>>
<1> DEFINE q == Ingested(s)
<1>1. Len(q) \in Nat /\ DOMAIN q = 1 .. Len(q) /\ q # <<>> /\ Len(q) # 0
  <2>1. q \in Seq([id : AlertId, version : Nat, valid : {TRUE}])
      BY PipelineAssumption
  <2> HIDE DEF q
  <2>2. Len(q) \in Nat /\ DOMAIN q = 1 .. Len(q)
      BY <2>1
  <2>3. q # <<>>
      BY DEF q
  <2> QED  BY <2>1, <2>2, <2>3
<1> HIDE DEF q
<1>2. batch = [i \in 1 .. Len(q) |-> batch[i]]
    BY <1>1 DEF q
<1>3. IsRun(batch) /\ Len(batch) = Len(q)
    BY <1>1, <1>2, RunFrom
<1>4. batch # <<>>
    BY <1>1, <1>3
<1> QED  BY <1>3, <1>4

\* Each request hands a run a batch that is not empty.
LEMMA RequestSteps ==
  ASSUME PipelineInv, NEW w \in Workers,
         \/ \E key \in DOMAIN keys[w], s \in Submissions, runNow \in BOOLEAN :
              SubmitAlerts(w, key, s, runNow)
         \/ \E s \in Submissions : Demo(w, s)
         \/ RunPipeline(w)
  PROVE  PipelineInv'
<1>1. ASSUME NEW key, NEW s \in Submissions, NEW runNow, SubmitAlerts(w, key, s, runNow)
      PROVE  PipelineInv'
  <2> DEFINE batch == [i \in DOMAIN Ingested(s) |->
                         [id |-> Ingested(s)[i].id, data |-> Ingested(s)[i].version,
                          tags |-> Ingested(s)[i].version, geo |-> TRUE]]
  <2>1. /\ Take(w) /\ Ingested(s) # <<>> /\ Start(w, "submit", batch, runNow)
        /\ UNCHANGED <<backend, alerts, threats, reports, keys, nextId, dropped>>
      BY <1>1 DEF SubmitAlerts, stores, apiVars
  <2>2. batch = [i \in DOMAIN Ingested(s) |-> batch[i]]
      OBVIOUS
  <2> HIDE DEF batch
  <2>3. IsRun(batch) /\ batch # <<>>
      BY <2>1, <2>2, IngestedIsRun
  <2> QED  BY <2>1, <2>3, StartKept
<1>2. ASSUME NEW s \in Submissions, Demo(w, s) PROVE PipelineInv'
  <2> DEFINE batch == [i \in DOMAIN Ingested(s) |->
                         [id |-> Ingested(s)[i].id, data |-> Ingested(s)[i].version,
                          tags |-> Ingested(s)[i].version, geo |-> TRUE]]
  <2>1. /\ Take(w) /\ Ingested(s) # <<>> /\ Start(w, "persist", batch, TRUE)
        /\ UNCHANGED <<backend, alerts, threats, reports, keys, nextId, dropped>>
      BY <1>2 DEF Demo, stores, apiVars
  <2>2. batch = [i \in DOMAIN Ingested(s) |-> batch[i]]
      OBVIOUS
  <2> HIDE DEF batch
  <2>3. IsRun(batch) /\ batch # <<>>
      BY <2>1, <2>2, IngestedIsRun
  <2> QED  BY <2>1, <2>3, StartKept
<1>3. CASE RunPipeline(w)
  <2> DEFINE batch == RecentAlerts(RunLimit, 0)
  <2>1. /\ Take(w) /\ batch # <<>> /\ Start(w, "persist", batch, TRUE)
        /\ UNCHANGED <<backend, alerts, threats, reports, keys, nextId, dropped>>
      BY <1>3 DEF RunPipeline, stores, apiVars
  <2>2. IsRun(batch)
      BY RecentIsRun, PipelineAssumption
  <2> HIDE DEF batch
  <2> QED  BY <2>1, <2>2, StartKept
<1> QED  BY <1>1, <1>2, <1>3

\* An alert is saved: it is there, or it was evicted.
LEMMA AlertsAfter ==
  ASSUME NEW a, IsRun(alerts), alerts' = SaveAlertRow(a)
  PROVE  IsRun(alerts')
<1> DEFINE k == RowNumber(alerts, a.id)
<1>1. CASE Postgres
  <2>1. CASE a.id \in IdsOf(alerts)
    <3> DEFINE x == [alerts[k] EXCEPT !.tags = a.tags]
    <3>1. alerts' = [alerts EXCEPT ![k] = x]
        BY <1>1, <2>1 DEF SaveAlertRow, PostgresSaveAlert
    <3>2. k \in DOMAIN alerts
        BY <2>1, RowOf
    <3>3. IsRun([alerts EXCEPT ![k] = x])
        BY <3>2, ReplaceRun
    <3> QED  BY <3>1, <3>3
  <2>2. CASE a.id \notin IdsOf(alerts)
    <3>1. alerts' = Append(alerts, AlertRow(a))
        BY <1>1, <2>2 DEF SaveAlertRow, PostgresSaveAlert
    <3> QED  BY <3>1, AppendRun
  <2> QED  BY <2>1, <2>2
<1>2. CASE ~Postgres
  <2> DEFINE stored == IF a.id \in IdsOf(alerts) THEN [alerts EXCEPT ![k] = a]
                                                 ELSE Append(alerts, a)
  <2>1. alerts' = IF Len(stored) > MaxAlerts THEN Tail(stored) ELSE stored
      BY <1>2 DEF SaveAlertRow, MemorySaveAlert
  <2>2. IsRun(stored)
    <3>1. CASE a.id \in IdsOf(alerts)
        BY <3>1, RowOf, ReplaceRun
    <3>2. CASE a.id \notin IdsOf(alerts)
        BY <3>2, AppendRun
    <3> QED  BY <3>1, <3>2
  <2> HIDE DEF stored
  <2>3. Len(stored) > MaxAlerts => stored # <<>>
    <3>1. MaxAlerts \in Nat /\ Len(<<>>) = 0
        BY StorageAssumption
    <3> QED  BY <3>1
  <2> QED  BY <2>1, <2>2, <2>3, TailRun
<1> QED  BY <1>1, <1>2

\* A run is over: after its last threat, or when something raises.
LEMMA RunEnds ==
  ASSUME PipelineInv, NEW w \in Workers, job' = [job EXCEPT ![w] = Idle], OnlyWorker(w),
         backend' = backend
  PROVE  JobInv(w)' /\ Due(w)' = {} /\ job'[w].at = "idle"
<1>1. job'[w] = Idle
    BY DEF PipelineInv
<1>2. Due(w)' = {}
    BY <1>1 DEF Due, Idle
<1> QED  BY <1>1, <1>2 DEF JobInv, JobFields, Saving, Deciding, IdsDistinct, Idle

\* The result of a worker is as it was, and the worker is not about to store.
LEMMA ResultKept ==
  ASSUME PipelineInv, NEW w \in Workers, backend' = backend, result'[w] = result[w],
         Grows(w), job'[w].at # "store"
  PROVE  ResultInv(w)'
<1> QED  BY DEF PipelineInv, ResultInv, Grows, Postgres

\* The rest of the batch is still to save, what is saved is known.
LEMMA SaveAlertStep ==
  ASSUME PipelineInv, NEW w \in Workers, SaveAlert(w)
  PROVE  PipelineInv'
<1> DEFINE j == job[w]
           rest == Tail(j.todo)
           a == Head(j.todo)
<1>1. /\ j.at \in {"submit", "persist"}
      /\ UNCHANGED <<backend, threats, reports, keys, result, nextId>>
    BY DEF SaveAlert, apiVars
<1>2. /\ DOMAIN job = Workers /\ DOMAIN j = JobFields
      /\ j.pending = <<>> /\ j.todo # <<>> /\ IsRun(j.todo)
      /\ IsRun(j.batch) /\ j.batch # <<>> /\ (Postgres \/ w = Server)
    BY <1>1 DEF PipelineInv, JobInv, Saving, Deciding
<1>3. KeyInv(w)'
    BY <1>1 DEF PipelineInv, KeyInv
<1>4. CASE Raise(w) /\ UNCHANGED <<alerts, dropped>>
  <2>1. OnlyWorker(w)
      BY <1>1, <1>4 DEF Raise, OnlyWorker, PipelineInv
  <2>2. StoreInv' /\ Grows(w)
      BY <1>1, <1>4, StoresKept
  <2>3. JobInv(w)' /\ Due(w)' = {} /\ job'[w].at = "idle"
      BY <1>1, <1>4, <2>1, RunEnds DEF Raise
  <2>4. ResultInv(w)'
      BY <1>1, <2>2, <2>3, ResultKept
  <2> QED  BY <1>3, <2>1, <2>2, <2>3, <2>4, StepKept
<1>5. ASSUME /\ alerts' = SaveAlertRow(a)
             /\ dropped' = dropped \cup ((IdsOf(alerts) \cup {a.id}) \ IdsOf(alerts'))
             /\ job' = [job EXCEPT ![w] =
                  IF rest # <<>> THEN [j EXCEPT !.todo = rest]
                  ELSE IF j.at = "persist" THEN [j EXCEPT !.at = "correlate", !.todo = <<>>]
                  ELSE IF j.runs THEN [j EXCEPT !.at = "persist", !.todo = j.batch]
                  ELSE Idle]
      PROVE  PipelineInv'
  <2>1. OnlyWorker(w)
      BY <1>1, <1>5 DEF OnlyWorker, PipelineInv
  <2>2. Known \cup {a.id} \subseteq Known'
      BY <1>5 DEF Known
  <2>3. nextId \in Nat
      BY DEF PipelineInv, StoreInv
  <2>4. Grows(w)
      BY <1>1, <2>2, <2>3 DEF Grows
  <2>5. \A t : Evident(t) => Evident(t)'
      BY <2>2 DEF Evident
  <2>6. IsRun(alerts')
      BY <1>5, AlertsAfter DEF PipelineInv, StoreInv
  <2>7. StoreInv'
      BY <1>1, <2>5, <2>6 DEF PipelineInv, StoreInv, Postgres
  <2>8. /\ IsRun(rest) /\ IdsOf(j.todo) = {a.id} \cup IdsOf(rest)
      BY <1>2, TailRun
  <2>9. j.at = "persist" => IdsOf(j.batch) \subseteq IdsOf(rest) \cup Known'
    <3>1. j.at = "persist" => IdsOf(j.batch) \subseteq IdsOf(j.todo) \cup Known
        BY DEF PipelineInv, JobInv
    <3> QED  BY <3>1, <2>2, <2>8
  <2>10. IdsOf(<<>>) = {}
      BY DEF IdsOf
  <2>11. JobInv(w)' /\ Due(w)' = {} /\ job'[w].at # "store"
    <3>1. CASE rest # <<>>
      <4>1. /\ DOMAIN job'[w] = JobFields /\ job'[w].at = j.at /\ job'[w].todo = rest
            /\ job'[w].batch = j.batch /\ job'[w].pending = <<>>
          BY <3>1, <1>2, <1>5 DEF JobFields
      <4>2. Due(w)' = {}
          BY <4>1 DEF Due
      <4> HIDE DEF j, rest, a
      <4> QED  BY <4>1, <4>2, <3>1, <1>1, <1>2, <2>8, <2>9
               DEF JobInv, Saving, Deciding, IdsDistinct, Postgres
    <3>2. CASE rest = <<>> /\ j.at = "persist"
      <4>1. /\ DOMAIN job'[w] = JobFields /\ job'[w].at = "correlate"
            /\ job'[w].batch = j.batch /\ job'[w].pending = <<>>
          BY <3>2, <1>2, <1>5 DEF JobFields
      <4>2. Due(w)' = {}
          BY <4>1 DEF Due
      <4> HIDE DEF j, rest, a
      <4> QED  BY <4>1, <4>2, <3>2, <1>1, <1>2, <2>9, <2>10
               DEF JobInv, Saving, Deciding, IdsDistinct, Postgres
    <3>3. CASE rest = <<>> /\ j.at # "persist" /\ j.runs
      <4>1. /\ DOMAIN job'[w] = JobFields /\ job'[w].at = "persist" /\ job'[w].todo = j.batch
            /\ job'[w].batch = j.batch /\ job'[w].pending = <<>>
          BY <3>3, <1>2, <1>5 DEF JobFields
      <4>2. Due(w)' = {}
          BY <4>1 DEF Due
      <4> HIDE DEF j, rest, a
      <4> QED  BY <4>1, <4>2, <1>1, <1>2 DEF JobInv, Saving, Deciding, IdsDistinct, Postgres
    <3>4. CASE rest = <<>> /\ j.at # "persist" /\ ~j.runs
      <4>1. job' = [job EXCEPT ![w] = Idle]
          BY <3>4, <1>5
      <4> QED  BY <4>1, <1>1, <2>1, RunEnds
    <3> QED  BY <3>1, <3>2, <3>3, <3>4
  <2>12. ResultInv(w)'
      BY <1>1, <2>4, <2>11, ResultKept
  <2> QED  BY <1>3, <2>1, <2>4, <2>7, <2>11, <2>12, StepKept
<1>6. \/ Raise(w) /\ UNCHANGED <<alerts, dropped>>
      \/ /\ alerts' = SaveAlertRow(a)
         /\ dropped' = dropped \cup ((IdsOf(alerts) \cup {a.id}) \ IdsOf(alerts'))
         /\ job' = [job EXCEPT ![w] =
              IF rest # <<>> THEN [j EXCEPT !.todo = rest]
              ELSE IF j.at = "persist" THEN [j EXCEPT !.at = "correlate", !.todo = <<>>]
              ELSE IF j.runs THEN [j EXCEPT !.at = "persist", !.todo = j.batch]
              ELSE Idle]
    BY DEF SaveAlert
<1> QED  BY <1>4, <1>5, <1>6

\* The groups of a batch, in some order.
LEMMA GroupsListed ==
  ASSUME NEW batch, IsRun(batch), batch # <<>>
  PROVE  LET G == {Group[id] : id \in IdsOf(batch)}
         IN /\ Cardinality(G) \in Nat \ {0}
            /\ SetToSeq(G) \in [1 .. Cardinality(G) -> G]
<1> DEFINE G == {Group[id] : id \in IdsOf(batch)}
           f == [i \in 1 .. Len(batch) |-> Group[batch[i].id]]
<1>1. Len(batch) \in Nat \ {0} /\ DOMAIN batch = 1 .. Len(batch)
    BY TailRun
<1>2. f \in Surjection(1 .. Len(batch), G)
    BY <1>1 DEF Surjection, IdsOf
<1>3. IsFiniteSet(1 .. Len(batch))
    BY <1>1, FS_Interval
<1>4. G # {}
  <2>1. 1 \in DOMAIN batch
      BY <1>1
  <2>2. batch[1].id \in IdsOf(batch)
      BY <2>1 DEF IdsOf
  <2> QED  BY <2>2
<1> HIDE DEF f, G
<1>5. IsFiniteSet(G)
    BY <1>2, <1>3, FS_Surjection
<1>6. Cardinality(G) \in Nat /\ ExistsBijection(1 .. Cardinality(G), G)
    BY <1>5, FS_CardinalityType
<1>7. Cardinality(G) # 0
    BY <1>4, <1>5, FS_EmptySet
<1>8. \E g \in [1 .. Cardinality(G) -> G] : IsInjective(g)
    BY <1>6 DEF ExistsBijection, Bijection, Injection
<1>9. SetToSeq(G) \in [1 .. Cardinality(G) -> G]
    BY <1>8 DEF SetToSeq
<1> QED  BY <1>6, <1>7, <1>9 DEF G

\* A threat of a group has the alerts of the batch that are in it.
LEMMA CorrelateStep ==
  ASSUME PipelineInv, NEW w \in Workers, Correlate(w)
  PROVE  PipelineInv'
<1> DEFINE j == job[w]
           ids == IdsOf(j.batch)
           G == {Group[id] : id \in ids}
           n == Cardinality(G)
           groups == SetToSeq(G)
           new == [i \in DOMAIN groups |->
                     [id |-> nextId + i, alerts |-> {id \in ids : Group[id] = groups[i]},
                      group |-> groups[i], status |-> "OPEN", methods |-> {"IOC_MATCH"}]]
<1>1. /\ j.at = "correlate"
      /\ UNCHANGED <<backend, alerts, threats, reports, keys, result, dropped>>
      /\ nextId' = nextId + Len(new)
      /\ job' = [job EXCEPT ![w].at = "score", ![w].pending = new]
    BY DEF Correlate, stores, apiVars
<1>2. /\ DOMAIN job = Workers /\ DOMAIN j = JobFields /\ (Postgres \/ w = Server)
      /\ IsRun(j.batch) /\ j.batch # <<>> /\ ids \subseteq Known /\ nextId \in Nat
    BY <1>1 DEF PipelineInv, StoreInv, JobInv
<1>3. n \in Nat \ {0} /\ groups \in [1 .. n -> G]
    BY <1>2, GroupsListed
<1> HIDE DEF n, groups
<1>4. /\ new = [i \in 1 .. n |-> new[i]]
      /\ \A i \in 1 .. n : /\ new[i].id = nextId + i
                           /\ new[i].alerts = {id \in ids : Group[id] = groups[i]}
    BY <1>3
<1>5. \A i \in 1 .. n : Evident(new[i])
  <2> SUFFICES ASSUME NEW i \in 1 .. n PROVE Evident(new[i])
      OBVIOUS
  <2>1. PICK id \in ids : Group[id] = groups[i]
      BY <1>3
  <2> QED  BY <2>1, <1>2, <1>4 DEF Evident
<1> HIDE DEF new, ids, G
<1>6. IsRun(new) /\ Len(new) = n /\ DOMAIN new = 1 .. n /\ new # <<>>
    BY <1>3, <1>4, RunFrom
<1>7. nextId' = nextId + n /\ nextId' \in Nat
    BY <1>1, <1>2, <1>3, <1>6
<1>8. /\ DOMAIN job'[w] = JobFields /\ job'[w].at = "score" /\ job'[w].pending = new
    BY <1>1, <1>2 DEF JobFields
<1>9. OnlyWorker(w)
    BY <1>1, <1>2 DEF OnlyWorker, PipelineInv
<1>10. Known' = Known
    BY <1>1 DEF Known
<1>11. StoreInv' /\ Grows(w) /\ \A t : Evident(t)' <=> Evident(t)
  <2>1. Grows(w)
      BY <1>1, <1>2, <1>3, <1>7, <1>10 DEF Grows
  <2>2. \A id \in Nat : id <= nextId => id <= nextId'
      BY <1>2, <1>3, <1>7
  <2> QED  BY <2>1, <2>2, <1>1, <1>7, <1>10 DEF PipelineInv, StoreInv, Evident, Postgres
<1>12. Due(w)' = {nextId + i : i \in 1 .. n}
    BY <1>4, <1>6, <1>8 DEF Due
<1>13. \A id \in IdsOf(threats) : id \in Nat /\ id <= nextId
    BY DEF PipelineInv, StoreInv, IdsOf
<1>14. \A id \in Due(w)' : id > nextId /\ id \in Nat /\ id <= nextId' /\ id \notin IdsOf(threats')
    BY <1>1, <1>2, <1>3, <1>7, <1>12, <1>13
<1>15. IdsDistinct(new)
    BY <1>2, <1>4, <1>6 DEF IdsDistinct
<1>16. JobInv(w)'
    BY <1>1, <1>2, <1>5, <1>6, <1>8, <1>11, <1>14, <1>15
       DEF JobInv, Saving, Deciding, Postgres
<1>17. ResultInv(w)' /\ KeyInv(w)'
    BY <1>1, <1>8, <1>11, ResultKept DEF PipelineInv, KeyInv
<1> QED  BY <1>9, <1>11, <1>14, <1>16, <1>17, StepKept

\* A failing call is one of the database.
LEMMA EmitFails ==
  ASSUME NEW records, NEW failed, NEW n, Emit(records, failed, n)
  PROVE  Fail(Cardinality(failed) + n)
<1> QED  BY DEF Emit

\* The threats left are as they were.
LEMMA PendingStep ==
  ASSUME PipelineInv, NEW w \in Workers, Deciding(w), NEW at \in {"report", "store"},
         job' = [job EXCEPT ![w].at = at],
         UNCHANGED <<backend, alerts, threats, keys, nextId, dropped>>
  PROVE  /\ JobInv(w)' /\ Due(w)' = Due(w) /\ KeyInv(w)'
         /\ job'[w].at = at /\ job'[w].pending = job[w].pending
<1>1. DOMAIN job = Workers /\ DOMAIN job[w] = JobFields
    BY DEF PipelineInv, JobInv
<1>2. /\ DOMAIN job'[w] = JobFields /\ job'[w].at = at /\ job'[w].pending = job[w].pending
    BY <1>1 DEF JobFields
<1>3. Due(w)' = Due(w) /\ \A t : Evident(t)' <=> Evident(t)
    BY <1>2 DEF Due, Evident, Known
<1>4. JobInv(w) /\ KeyInv(w)
    BY DEF PipelineInv
<1>5. JobInv(w)'
    BY <1>2, <1>3, <1>4 DEF JobInv, Deciding, Saving, Postgres
<1> QED  BY <1>2, <1>3, <1>4, <1>5 DEF KeyInv

\* score raises, or its threat is the next to report.
LEMMA ScoreStep ==
  ASSUME PipelineInv, NEW w \in Workers, Score(w)
  PROVE  PipelineInv'
<1>1. /\ Deciding(w)
      /\ UNCHANGED <<backend, alerts, threats, reports, keys, result, nextId, dropped>>
      /\ Raise(w) \/ job' = [job EXCEPT ![w].at = "report"]
    BY DEF Score, Deciding, stores, apiVars
<1>2. OnlyWorker(w) /\ KeyInv(w)'
    BY <1>1 DEF OnlyWorker, PipelineInv, Raise, KeyInv
<1>3. StoreInv' /\ Grows(w)
    BY <1>1, StoresKept
<1>4. JobInv(w)' /\ Due(w)' \subseteq Due(w) /\ job'[w].at # "store"
  <2>1. CASE Raise(w)
      BY <2>1, <1>1, <1>2, RunEnds DEF Raise
  <2>2. CASE job' = [job EXCEPT ![w].at = "report"]
      BY <2>2, <1>1, PendingStep
  <2> QED  BY <1>1, <2>1, <2>2
<1>5. ResultInv(w)'
    BY <1>1, <1>3, <1>4, ResultKept
<1> QED  BY <1>2, <1>3, <1>4, <1>5, StepKept

\* PostgreSQL refuses every report, as its threat is not stored yet; memory takes it.
LEMMA ReportStep ==
  ASSUME PipelineInv, NEW w \in Workers, Report(w)
  PROVE  PipelineInv'
<1> DEFINE j == job[w]
           t == Head(j.pending)
           report == [id |-> t.id, tier |-> GroupTier[t.group], narrative |-> TRUE]
<1>1. PICK failed \in SUBSET {Event("BLUF_GENERATED", t.id)}, saveFails \in 0 .. 1 :
        LET saved == saveFails = 0 /\ (Postgres => ForeignKeyHolds(threats, report)) IN
        /\ Emit(<<Event("BLUF_GENERATED", t.id)>>, failed, saveFails)
        /\ reports' = IF ~saved THEN reports
                      ELSE IF Postgres THEN PostgresSaveReport(reports, report)
                      ELSE MemorySaveReport(reports, report)
        /\ result' = [result EXCEPT ![w].reported = @ \cup {t.id},
                                    ![w].errors = ErrorsAfter(@, t.id, saved)]
    BY DEF Report
<1>2. /\ j.at = "report" /\ Deciding(w)
      /\ job' = [job EXCEPT ![w].at = "store"]
      /\ UNCHANGED <<backend, alerts, threats, keys, nextId, dropped>>
    BY DEF Report, Deciding, apiVars
<1>3. /\ DOMAIN job = Workers /\ DOMAIN result = Workers /\ DOMAIN result[w] = ResultFields
      /\ j.pending # <<>> /\ IsRun(j.pending) /\ (Postgres \/ w = Server)
    BY <1>2 DEF PipelineInv, JobInv, ResultInv
<1>4. OnlyWorker(w)
    BY <1>1, <1>2, <1>3 DEF OnlyWorker, PipelineInv
<1>5. /\ JobInv(w)' /\ Due(w)' = Due(w) /\ KeyInv(w)'
      /\ job'[w].at = "store" /\ job'[w].pending = j.pending
    BY <1>2, PendingStep
<1>6. t.id \in Due(w)
  <2>1. 1 \in DOMAIN j.pending /\ t = j.pending[1]
      BY <1>3, TailRun
  <2> QED  BY <2>1 DEF Due
<1>7. Postgres => ~ForeignKeyHolds(threats, report)
  <2>1. report.id = t.id
      OBVIOUS
  <2> HIDE DEF report
  <2> QED  BY <2>1, <1>6 DEF PipelineInv, JobInv, ForeignKeyHolds
<1>8. saveFails = 0 \/ Postgres
  <2> DEFINE r == Event("BLUF_GENERATED", t.id)
  <2>0. failed \in SUBSET {r}
      OBVIOUS
  <2> HIDE DEF r
  <2>1. IsFiniteSet(failed)
      BY <2>0, FS_Singleton, FS_Subset
  <2>2. Cardinality(failed) \in Nat
      BY <2>1, FS_CardinalityType
  <2>3. Fail(Cardinality(failed) + saveFails)
      BY <1>1, EmitFails
  <2>4. saveFails # 0 => Cardinality(failed) + saveFails > 0
      BY <2>2
  <2> QED  BY <2>3, <2>4 DEF Fail
<1>9. reports' = IF Postgres THEN reports ELSE Append(reports, report)
    BY <1>1, <1>7, <1>8 DEF MemorySaveReport
<1>10. /\ DOMAIN result'[w] = ResultFields
       /\ result'[w].reported = result[w].reported \cup {t.id}
       /\ result'[w].stored = result[w].stored
       /\ result'[w].errors = IF Postgres THEN result[w].errors \cup {t.id} ELSE result[w].errors
  <2> HIDE DEF j, t, report
  <2> QED  BY <1>1, <1>3, <1>7, <1>8 DEF ResultFields, ErrorsAfter
<1>11. /\ IsRun(reports') /\ IdsOf(reports) \subseteq IdsOf(reports')
       /\ ~Postgres => t.id \in IdsOf(reports')
  <2>1. report.id = t.id
      OBVIOUS
  <2>2. IsRun(reports)
      BY DEF PipelineInv, StoreInv
  <2> HIDE DEF report, t, j
  <2>3. IsRun(Append(reports, report))
      BY <2>2, AppendRun
  <2>4. IdsOf(Append(reports, report)) = IdsOf(reports) \cup {report.id}
      BY <2>2, AppendIds
  <2> QED  BY <1>9, <2>1, <2>2, <2>3, <2>4
<1>12. StoreInv' /\ Grows(w)
  <2>1. Known' = Known
      BY <1>2 DEF Known
  <2>2. nextId \in Nat
      BY DEF PipelineInv, StoreInv
  <2>3. Grows(w)
      BY <1>2, <1>11, <2>1, <2>2 DEF Grows
  <2>4. StoreInv'
    <3> HIDE DEF report, t, j
    <3> QED  BY <1>2, <1>9, <1>11, <2>1 DEF PipelineInv, StoreInv, Evident, Postgres
  <2> QED  BY <2>3, <2>4
<1> HIDE DEF report
<1>13. ResultInv(w)'
  <2>1. ResultInv(w) /\ Head(job'[w].pending).id = t.id
      BY <1>5 DEF PipelineInv
  <2> HIDE DEF t, j
  <2> QED  BY <2>1, <1>2, <1>3, <1>10, <1>11 DEF ResultInv, Postgres
<1> QED  BY <1>4, <1>5, <1>12, <1>13, StepKept

\* A threat is stored under an id no other one has.
LEMMA StoreThreatStep ==
  ASSUME PipelineInv, NEW w \in Workers, StoreThreat(w)
  PROVE  PipelineInv'
<1> DEFINE j == job[w]
           t == Head(j.pending)
<1>1. /\ j.at = "store" /\ Deciding(w)
      /\ UNCHANGED <<backend, alerts, reports, keys, nextId, dropped>>
    BY DEF StoreThreat, Deciding, apiVars
<1>2. /\ DOMAIN job = Workers /\ DOMAIN j = JobFields
      /\ DOMAIN result = Workers /\ DOMAIN result[w] = ResultFields
      /\ j.pending # <<>> /\ IsRun(j.pending) /\ (Postgres \/ w = Server)
      /\ IsRun(threats) /\ nextId \in Nat
      /\ IdsDistinct(j.pending) /\ IdsDistinct(threats)
    BY <1>1 DEF PipelineInv, StoreInv, JobInv, ResultInv
<1>3. KeyInv(w)'
    BY <1>1 DEF PipelineInv, KeyInv
<1>4. CASE Raise(w) /\ UNCHANGED <<threats, result>>
  <2>1. OnlyWorker(w)
      BY <1>1, <1>4 DEF Raise, OnlyWorker, PipelineInv
  <2>2. StoreInv' /\ Grows(w)
      BY <1>1, <1>4, StoresKept
  <2>3. JobInv(w)' /\ Due(w)' = {} /\ job'[w].at = "idle"
      BY <1>1, <1>4, <2>1, RunEnds DEF Raise
  <2>4. ResultInv(w)'
      BY <1>1, <1>4, <2>2, <2>3, ResultKept
  <2> QED  BY <1>3, <2>1, <2>2, <2>3, <2>4, StepKept
<1>5. ASSUME /\ threats' = IF Postgres THEN PostgresSaveThreat(threats, t)
                                       ELSE MemorySaveThreat(threats, t)
             /\ result' = [result EXCEPT ![w].stored = @ \cup {t.id}]
             /\ job' = [job EXCEPT ![w] = IF Len(j.pending) = 1 THEN Idle
                          ELSE [j EXCEPT !.at = "score", !.pending = Tail(j.pending)]]
      PROVE  PipelineInv'
  <2> DEFINE p == j.pending
             q == Tail(p)
  <2>1. OnlyWorker(w)
      BY <1>1, <1>2, <1>5 DEF OnlyWorker, PipelineInv
  <2>2. /\ IsRun(q) /\ Len(p) \in Nat \ {0} /\ Len(q) = Len(p) - 1 /\ DOMAIN p = 1 .. Len(p)
        /\ DOMAIN q = 1 .. Len(p) - 1 /\ t = p[1]
        /\ \A i \in DOMAIN q : i + 1 \in DOMAIN p /\ q[i] = p[i + 1]
      BY <1>2, TailRun
  <2>3. t.id \in Due(w) /\ Evident(t)
    <3>1. 1 \in DOMAIN p
        BY <2>2
    <3> QED  BY <2>2, <3>1 DEF Due, PipelineInv, JobInv
  <2>4. t.id \in Nat \ {0} /\ t.id <= nextId /\ t.id \notin IdsOf(threats)
      BY <2>3 DEF PipelineInv, JobInv
  <2>5. threats' = Append(threats, t)
      BY <1>5, <2>4 DEF PostgresSaveThreat, MemorySaveThreat
  <2>6. Known' = Known
      BY <1>1 DEF Known
  <2> HIDE DEF t, q, p
  <2>7. /\ IsRun(threats')
        /\ DOMAIN threats' = 1 .. Len(threats) + 1 /\ Len(threats) \in Nat
        /\ DOMAIN threats = 1 .. Len(threats)
        /\ \A i \in DOMAIN threats : threats'[i] = threats[i]
        /\ threats'[Len(threats) + 1] = t
    <3>1. IsRun(threats)
        BY <1>2
    <3> HIDE DEF j
    <3>2. IsRun(threats') /\ DOMAIN threats' = 1 .. Len(threats) + 1
        BY <2>5, <3>1, AppendRun
    <3>3. /\ Len(threats) \in Nat /\ DOMAIN threats = 1 .. Len(threats)
          /\ threats'[Len(threats) + 1] = t
        BY <2>5, <3>1, AppendRun
    <3>4. \A i \in DOMAIN threats : threats'[i] = threats[i]
        BY <2>5, <3>1, AppendRun
    <3> QED  BY <3>2, <3>3, <3>4
  <2>14. IdsOf(threats') = IdsOf(threats) \cup {t.id}
      BY <1>2, <2>5, AppendIds
  <2>8. \A i \in DOMAIN threats' : i \in DOMAIN threats \/ i = Len(threats) + 1
      BY <2>7
  <2>9. IdsDistinct(threats')
      BY <1>2, <2>4, <2>7, <2>8, <2>14 DEF IdsDistinct, IdsOf
  <2>10. Grows(w)
      BY <1>1, <1>2, <2>3, <2>6, <2>14 DEF Grows
  <2>11. StoreInv'
    <3>1. \A i \in DOMAIN threats' :
            Evident(threats'[i]) /\ threats'[i].id \in Nat \ {0} /\ threats'[i].id <= nextId
        BY <2>3, <2>4, <2>7, <2>8 DEF PipelineInv, StoreInv
    <3>2. \A x : Evident(x)' <=> Evident(x)
        BY <2>6 DEF Evident
    <3> QED  BY <1>1, <2>7, <2>9, <3>1, <3>2 DEF PipelineInv, StoreInv, Postgres
  <2>12. CASE Len(p) = 1
    <3>1. job' = [job EXCEPT ![w] = Idle]
        BY <1>5, <2>12 DEF p
    <3>2. JobInv(w)' /\ Due(w)' = {} /\ job'[w].at = "idle"
        BY <1>1, <3>1, <2>1, RunEnds
    <3> QED
      <4>1. ResultInv(w)'
        <5>1. t.id \in result[w].reported /\ ResultInv(w)
            BY <1>1 DEF PipelineInv, ResultInv, t
        <5>2. /\ DOMAIN result'[w] = ResultFields /\ result'[w].reported = result[w].reported
              /\ result'[w].errors = result[w].errors
              /\ result'[w].stored = result[w].stored \cup {t.id}
            BY <1>2, <1>5 DEF ResultFields
        <5> HIDE DEF j
        <5> QED  BY <1>1, <1>2, <3>2, <5>1, <5>2 DEF ResultInv, Postgres
      <4> QED  BY <1>3, <2>1, <2>10, <2>11, <3>2, <4>1, StepKept
  <2>13. CASE Len(p) # 1
    <3>1. /\ DOMAIN job'[w] = JobFields /\ job'[w].at = "score" /\ job'[w].pending = q
        BY <1>2, <1>5, <2>13 DEF JobFields, p, q
    <3>2. Due(w)' \subseteq Due(w) \ {t.id}
      <4>1. \A i \in DOMAIN q : q[i].id \in Due(w) /\ q[i].id # t.id
        <5> SUFFICES ASSUME NEW i \in DOMAIN q PROVE q[i].id \in Due(w) /\ q[i].id # t.id
            OBVIOUS
        <5>1. i + 1 \in DOMAIN p /\ 1 \in DOMAIN p /\ i + 1 # 1 /\ q[i] = p[i + 1]
            BY <2>2
        <5>2. IdsDistinct(p)
            BY <1>2 DEF p
        <5>3. p[i + 1].id # p[1].id
            BY <5>1, <5>2 DEF IdsDistinct
        <5> QED  BY <2>2, <5>1, <5>3 DEF Due, p
      <4> QED  BY <3>1, <4>1 DEF Due
    <3>3. IdsDistinct(q)
      <4>1. IdsDistinct(p)
          BY <1>2 DEF p
      <4>2. \A i \in DOMAIN q : i \in Nat
          BY <2>2
      <4> QED  BY <2>2, <4>1, <4>2 DEF IdsDistinct
    <3>4. q # <<>>
      <4>1. Len(q) # 0 /\ Len(<<>>) = 0
          BY <2>2, <2>13
      <4> QED  BY <4>1
    <3>5. (\A i \in DOMAIN q : Evident(q[i])) /\ \A x : Evident(x)' <=> Evident(x)
      <4>1. \A i \in DOMAIN p : Evident(p[i])
          BY DEF p, PipelineInv, JobInv
      <4>2. \A x : Evident(x)' <=> Evident(x)
          BY <2>6 DEF Evident
      <4>3. \A i \in DOMAIN q : Evident(q[i])
          BY <2>2, <4>1
      <4> QED  BY <4>2, <4>3
    <3>6. \A id \in Due(w)' : id \in Nat \ {0} /\ id <= nextId' /\ id \notin IdsOf(threats')
      <4>1. \A id \in Due(w) : id \in Nat \ {0} /\ id <= nextId /\ id \notin IdsOf(threats)
          BY DEF PipelineInv, JobInv
      <4> QED  BY <1>1, <2>14, <3>2, <4>1
    <3>7. JobInv(w)'
      <4> HIDE DEF j
      <4> QED  BY <1>1, <1>2, <2>2, <3>1, <3>3, <3>4, <3>5, <3>6
               DEF JobInv, Saving, Deciding, Postgres
    <3>8. ResultInv(w)'
      <4>1. t.id \in result[w].reported /\ ResultInv(w)
          BY <1>1 DEF PipelineInv, ResultInv, t
      <4>2. /\ DOMAIN result'[w] = ResultFields /\ result'[w].reported = result[w].reported
            /\ result'[w].errors = result[w].errors
            /\ result'[w].stored = result[w].stored \cup {t.id}
          BY <1>2, <1>5 DEF ResultFields
      <4> HIDE DEF j
      <4> QED  BY <1>1, <1>2, <3>1, <4>1, <4>2 DEF ResultInv, Postgres
    <3> QED  BY <1>3, <2>1, <2>10, <2>11, <3>2, <3>7, <3>8, StepKept
  <2> QED  BY <2>12, <2>13
<1>6. \/ Raise(w) /\ UNCHANGED <<threats, result>>
      \/ /\ threats' = IF Postgres THEN PostgresSaveThreat(threats, t)
                                   ELSE MemorySaveThreat(threats, t)
         /\ result' = [result EXCEPT ![w].stored = @ \cup {t.id}]
         /\ job' = [job EXCEPT ![w] = IF Len(j.pending) = 1 THEN Idle
                      ELSE [j EXCEPT !.at = "score", !.pending = Tail(j.pending)]]
    BY DEF StoreThreat
<1> QED  BY <1>4, <1>5, <1>6

\* A verdict and a new key leave the runs alone; no new key takes the place of
\* the master key.
LEMMA ApiSteps ==
  ASSUME PipelineInv, NEW w \in Workers,
         \/ \E key \in DOMAIN keys[w], id \in IdsOf(threats), v \in Verdicts :
              SubmitFeedback(w, key, id, v)
         \/ \E key \in DOMAIN keys[w], role \in NewRoles : CreateApiKey(w, key, role)
  PROVE  PipelineInv'
<1>1. /\ UNCHANGED <<backend, alerts, threats, reports, job, result, nextId, dropped>>
      /\ keys' = keys \/ \E role \in NewRoles : keys' = [keys EXCEPT ![w] = RegisterKey(@, role, role)]
    BY DEF SubmitFeedback, CreateApiKey, stores
<1>2. DOMAIN keys = Workers /\ KeyInv(w)
    BY DEF PipelineInv
<1>3. KeyInv(w)'
  <2>1. CASE keys' = keys
      BY <2>1, <1>2 DEF KeyInv
  <2>2. ASSUME NEW role \in NewRoles, keys' = [keys EXCEPT ![w] = RegisterKey(@, role, role)]
        PROVE  KeyInv(w)'
    <3>1. role \in Role
        BY PipelineAssumption
    <3>2. role # "master"
        BY <3>1 DEF Role, RoleHierarchy, ToSet
    <3>3. keys'[w] = RegisterKey(keys[w], role, role)
        BY <2>2, <1>2
    <3> QED  BY <1>2, <3>2, <3>3 DEF KeyInv, RegisterKey
  <2> QED  BY <1>1, <2>1, <2>2
<1>4. OnlyWorker(w)
    BY <1>1, <1>2 DEF OnlyWorker, PipelineInv
<1>5. StoreInv' /\ Grows(w) /\ \A t : Evident(t)' <=> Evident(t)
    BY <1>1, StoresKept
<1>6. Due(w)' = Due(w)
    BY <1>1 DEF Due
<1>7. JobInv(w)'
    BY <1>1, <1>5, <1>6 DEF PipelineInv, JobInv, Saving, Deciding, Postgres, Known
<1>8. ResultInv(w)'
    BY <1>1 DEF PipelineInv, ResultInv, Postgres
<1> QED  BY <1>3, <1>4, <1>5, <1>6, <1>7, <1>8, StepKept

\* The keys a process starts with.
LEMMA FreshMasterKey == "master" \in DOMAIN FreshKeys /\ FreshKeys["master"] = "admin"
<1> DEFINE e == [key |-> "ingest", role |-> "operator"]
           s == <<e>>
           base == [k \in {"master"} |-> "admin"]
           Op(known, x) ==
             RegisterKey(known, x.key, IF x.role \in Role THEN x.role ELSE "reader")
           Body(f, t) == IF t = {} THEN base ELSE Op(f[t \ {Max(t)}], s[Max(t)])
           iter == CHOOSE f : f = [t \in SUBSET {1} |-> Body(f, t)]
           g == [t \in SUBSET {1} |-> IF t = {} THEN base ELSE Op(base, e)]
<1>1. DOMAIN s = {1} /\ s[1] = e
    OBVIOUS
<1>2. FreshKeys = iter[{1}]
    BY <1>1, Zenon DEF FreshKeys, DevKeys, FoldLeft, MapThenFoldSet
<1>3. Max({1}) = 1
    BY DEF Max
<1> HIDE DEF Op, base, s, e
<1>4. g = [t \in SUBSET {1} |-> Body(g, t)]
  <2>1. \A t \in SUBSET {1} : t # {} => t = {1} /\ t \ {Max(t)} = {} /\ s[Max(t)] = e
      BY <1>1, <1>3
  <2>2. g[{}] = base
      OBVIOUS
  <2> QED  BY <2>1, <2>2
<1>5. iter = [t \in SUBSET {1} |-> Body(iter, t)]
    BY <1>4
<1> HIDE DEF iter
<1>6. iter[{}] = base
    BY <1>5
<1>7. iter[{1}] = Op(iter[{1} \ {Max({1})}], s[Max({1})])
    BY <1>5
<1>8. {1} \ {Max({1})} = {} /\ s[Max({1})] = e
    BY <1>1, <1>3
<1>9. FreshKeys = Op(base, e)
    BY <1>2, <1>6, <1>7, <1>8
<1> QED  BY <1>9 DEF Op, base, e, RegisterKey

\* A process that starts has no run; without PostgreSQL nothing is left.
LEMMA RestartStep ==
  ASSUME PipelineInv, NEW w \in Workers, Restart(w)
  PROVE  PipelineInv'
<1>1. /\ job' = [job EXCEPT ![w] = Idle] /\ result' = [result EXCEPT ![w] = NoResult]
      /\ keys' = [keys EXCEPT ![w] = FreshKeys]
      /\ UNCHANGED <<backend, nextId>> /\ (Postgres \/ w = Server)
    BY DEF Restart, Lifespan
<1>2. DOMAIN job = Workers /\ DOMAIN result = Workers /\ DOMAIN keys = Workers
    BY DEF PipelineInv
<1>3. job'[w] = Idle /\ result'[w] = NoResult /\ keys'[w] = FreshKeys
    BY <1>1, <1>2
<1>4. OnlyWorker(w)
    BY <1>1, <1>2 DEF OnlyWorker
<1>5. JobInv(w)' /\ Due(w)' = {}
    BY <1>1, <1>4, RunEnds
<1>6. ResultInv(w)' /\ KeyInv(w)'
    BY <1>3, FreshMasterKey DEF ResultInv, ResultFields, NoResult, KeyInv, Idle
<1>7. CASE Postgres
  <2>1. UNCHANGED <<alerts, threats, reports, dropped>>
      BY <1>7 DEF Restart, stores
  <2>2. StoreInv' /\ Grows(w)
      BY <1>1, <2>1, StoresKept
  <2> QED  BY <1>4, <1>5, <1>6, <2>2, StepKept
<1>8. CASE ~Postgres
  <2>1. alerts' = <<>> /\ threats' = <<>> /\ reports' = <<>>
      BY <1>8 DEF Restart
  <2>2. IsRun(<<>>) /\ DOMAIN <<>> = {}
      BY EmptyRun
  <2>3. StoreInv'
      BY <1>1, <2>1, <2>2 DEF PipelineInv, StoreInv, IdsDistinct, Postgres
  <2>4. ASSUME NEW v \in Workers
        PROVE  JobInv(v)' /\ ResultInv(v)' /\ KeyInv(v)' /\ Due(v)' = {}
    <3>1. CASE v = w
        BY <3>1, <1>5, <1>6
    <3>2. CASE v # w
      <4>1. /\ job'[v] = job[v] /\ result'[v] = result[v] /\ keys'[v] = keys[v]
            /\ job[v].at = "idle" /\ result[v] = NoResult /\ job[v].pending = <<>>
            /\ DOMAIN job[v] = JobFields /\ KeyInv(v)
          BY <3>2, <1>1, <1>4, <1>8
             DEF OnlyWorker, PipelineInv, JobInv, ResultInv, Deciding
      <4>2. Due(v)' = {}
          BY <4>1, <2>2 DEF Due
      <4>3. JobInv(v)'
          BY <4>1, <4>2, <2>2 DEF JobInv, Saving, Deciding, IdsDistinct
      <4>4. ResultInv(v)'
          BY <4>1 DEF ResultInv, ResultFields, NoResult
      <4> QED  BY <4>1, <4>2, <4>3, <4>4 DEF KeyInv
    <3> QED  BY <3>1, <3>2
  <2> QED  BY <1>4, <2>3, <2>4 DEF PipelineInv, OnlyWorker
<1> QED  BY <1>7, <1>8

\* The state of the server at its start.
LEMMA InitPipelineInv == Init => PipelineInv
<1> SUFFICES ASSUME Init PROVE PipelineInv
    OBVIOUS
<1>1. /\ alerts = <<>> /\ threats = <<>> /\ reports = <<>> /\ nextId = 0
      /\ job = [w \in Workers |-> Idle] /\ result = [w \in Workers |-> NoResult]
      /\ keys = [w \in Workers |-> FreshKeys]
    BY DEF Init, Lifespan
<1>2. IsRun(<<>>) /\ DOMAIN <<>> = {}
    BY EmptyRun
<1>3. StoreInv
    BY <1>1, <1>2 DEF StoreInv, IdsDistinct
<1>4. ASSUME NEW w \in Workers
      PROVE  JobInv(w) /\ ResultInv(w) /\ KeyInv(w) /\ Due(w) = {}
  <2>1. job[w] = Idle /\ result[w] = NoResult /\ keys[w] = FreshKeys
      BY <1>1
  <2>2. Due(w) = {}
      BY <2>1, <1>2 DEF Due, Idle
  <2>3. JobInv(w)
      BY <2>1, <2>2, <1>2 DEF JobInv, JobFields, Saving, Deciding, IdsDistinct, Idle
  <2>4. ResultInv(w) /\ KeyInv(w)
      BY <2>1, FreshMasterKey DEF ResultInv, ResultFields, NoResult, KeyInv, Idle
  <2> QED  BY <2>2, <2>3, <2>4
<1> QED  BY <1>1, <1>3, <1>4 DEF PipelineInv

\* Every step of the workers, the migrations and the crashes keeps the invariant.
THEOREM PipelineInvariance == Spec => []PipelineInv
<1>1. PipelineInv /\ [Next]_vars => PipelineInv'
  <2> SUFFICES ASSUME PipelineInv, [Next]_vars PROVE PipelineInv'
      OBVIOUS
  <2>1. CASE UNCHANGED <<backend, stores, keys, job, result, nextId, dropped>>
    <3>1. UNCHANGED <<alerts, threats, reports>>
        BY <2>1 DEF stores
    <3>2. StoreInv' /\ \A t : Evident(t)' <=> Evident(t)
        BY <2>1, <3>1, StoresKept
    <3>3. \A w : Due(w)' = Due(w)
        BY <2>1 DEF Due
    <3>4. ASSUME NEW w \in Workers PROVE JobInv(w)' /\ ResultInv(w)' /\ KeyInv(w)'
      <4>1. JobInv(w) /\ ResultInv(w) /\ KeyInv(w)
          BY DEF PipelineInv
      <4>2. JobInv(w)'
          BY <2>1, <3>1, <3>2, <3>3, <4>1 DEF JobInv, Saving, Deciding, Postgres, Known
      <4> QED  BY <2>1, <3>1, <4>1, <4>2 DEF ResultInv, KeyInv, Postgres
    <3> QED  BY <2>1, <3>2, <3>3, <3>4 DEF PipelineInv
  <2>2. Migrate \/ UNCHANGED vars => UNCHANGED <<backend, stores, keys, job, result, nextId, dropped>>
      BY DEF Migrate, vars, apiVars
  <2>3. ASSUME NEW w \in Workers,
               \/ \E key \in DOMAIN keys[w] :
                    \/ \E s \in Submissions, runNow \in BOOLEAN : SubmitAlerts(w, key, s, runNow)
                    \/ \E id \in IdsOf(threats), v \in Verdicts : SubmitFeedback(w, key, id, v)
                    \/ \E role \in NewRoles : CreateApiKey(w, key, role)
               \/ \E s \in Submissions : Demo(w, s)
               \/ RunPipeline(w) \/ SaveAlert(w) \/ Correlate(w) \/ Score(w) \/ Report(w)
               \/ StoreThreat(w) \/ Restart(w)
        PROVE  PipelineInv'
      BY <2>3, RequestSteps, ApiSteps, SaveAlertStep, CorrelateStep, ScoreStep, ReportStep,
         StoreThreatStep, RestartStep
  <2> QED  BY <2>1, <2>2, <2>3 DEF Next
<1> QED  BY <1>1, InitPipelineInv, PTL DEF Spec

\* The key of the server may see every threat.
LEMMA MasterIsAllowed ==
  ASSUME NEW w \in Workers, KeyInv(w)
  PROVE  Allowed(w, "master", "analyst")
<1>1. Authenticate(FALSE, keys[w], "master", NoToken) = "admin"
    BY DEF KeyInv, Authenticate, ValidateKey, NoKey
<1>2. Rank(RoleHierarchy, "admin") = 4 /\ Rank(RoleHierarchy, "analyst") = 2
  <2>1. /\ DOMAIN RoleHierarchy = 1 .. 4
        /\ RoleHierarchy[1] = "reader" /\ RoleHierarchy[2] = "analyst"
        /\ RoleHierarchy[3] = "operator" /\ RoleHierarchy[4] = "admin"
      BY DEF RoleHierarchy
  <2>2. \A i \in DOMAIN RoleHierarchy : /\ RoleHierarchy[i] = "admin" <=> i = 4
                                        /\ RoleHierarchy[i] = "analyst" <=> i = 2
      BY <2>1
  <2>3. 4 \in DOMAIN RoleHierarchy /\ 2 \in DOMAIN RoleHierarchy
      BY <2>1
  <2> QED  BY <2>2, <2>3 DEF Rank
<1>3. HasRole("admin", "analyst")
    BY <1>2 DEF HasRole, Refused
<1> QED  BY <1>1, <1>3 DEF Allowed

\* Whatever interleaves, fails or is evicted: the alerts a stored threat refers to
\* are stored or were evicted, and its graph shows those that are stored.
THEOREM ThreatsHaveEvidence == Spec => []EvidenceIsStored
<1>1. PipelineInv => EvidenceIsStored
  <2> SUFFICES ASSUME PipelineInv, NEW i \in DOMAIN threats
               PROVE  /\ threats[i].alerts # {}
                      /\ threats[i].alerts \subseteq IdsOf(alerts) \cup dropped
                      /\ \A w \in Workers :
                           GetThreatGraph(w, "master", threats[i].id).nodes \cup dropped
                             = threats[i].alerts \cup dropped
      BY DEF EvidenceIsStored
  <2>1. threats[i].alerts # {} /\ threats[i].alerts \subseteq IdsOf(alerts) \cup dropped
      BY DEF PipelineInv, StoreInv, Evident, Known
  <2>2. threats[i].id \in IdsOf(threats)
      BY DEF IdsOf
  <2>3. RowWith(threats, threats[i].id) = threats[i]
    <3>1. RowNumber(threats, threats[i].id) = i
        BY <2>2, RowOf DEF PipelineInv, StoreInv, IdsDistinct
    <3> QED  BY <3>1 DEF RowWith
  <2>4. ASSUME NEW w \in Workers
        PROVE  GetThreatGraph(w, "master", threats[i].id).nodes
                 = threats[i].alerts \cap IdsOf(alerts)
    <3>1. Allowed(w, "master", "analyst")
        BY MasterIsAllowed DEF PipelineInv
    <3> QED  BY <2>2, <2>3, <3>1 DEF GetThreatGraph
  <2> QED  BY <2>1, <2>4
<1> QED  BY <1>1, PipelineInvariance, PTL

\* Whatever fails: a threat a run reports has its report in the repository or is
\* among the run's errors, with PostgreSQL each of them.
THEOREM ReportsAreAccounted == Spec => []ReportsAccounted
<1>1. PipelineInv => ReportsAccounted
  <2> SUFFICES ASSUME PipelineInv, NEW w \in Workers
               PROVE  /\ result[w].stored \subseteq result[w].reported
                      /\ result[w].errors = result[w].reported \ IdsOf(reports)
                      /\ Postgres => result[w].errors = result[w].reported
      BY DEF ReportsAccounted
  <2>1. ResultInv(w)
      BY DEF PipelineInv
  <2>2. Postgres => IdsOf(reports) = {}
      BY DEF PipelineInv, StoreInv, IdsOf
  <2> QED  BY <2>1, <2>2 DEF ResultInv
<1> QED  BY <1>1, PipelineInvariance, PTL

-----------------------------------------------------------------------------
(* The audit log *)

\* Of all that was announced, the log has the newest, as many as it may.
Newest(log, all) ==
  /\ Len(log) <= Len(all)
  /\ Len(log) = Len(all) \/ Len(log) = MaxAudit
  /\ \A k \in 1 .. Len(log) : log[k] = all[Len(all) - Len(log) + k]

LogInv ==
  /\ IsRun(audit) /\ IsRun(announced)
  /\ faults \in Nat
  /\ IsFiniteSet(refused) /\ Cardinality(refused) <= faults
  /\ Postgres => ToSet(announced) \subseteq ToSet(audit) \cup refused
  /\ ~Postgres => Newest(audit, announced)

\* A run has finitely many rows.
LEMMA FinitelyMany ==
  ASSUME NEW s, IsRun(s)
  PROVE  IsFiniteSet(ToSet(s))
<1>1. Len(s) \in Nat /\ s \in Surjection(1 .. Len(s), ToSet(s))
  <2>1. /\ Len(s) \in Nat /\ DOMAIN s = 1 .. Len(s) /\ s = [i \in 1 .. Len(s) |-> s[i]]
      BY RunOf DEF IsRun
  <2> QED  BY <2>1 DEF Surjection, ToSet
<1>2. IsFiniteSet(1 .. Len(s))
    BY <1>1, FS_Interval
<1> QED  BY <1>1, <1>2, FS_Surjection

\* The newest of what there was and the new, cut, are the newest of all.
LEMMA CutIsNewest ==
  ASSUME NEW log, IsRun(log), NEW all, IsRun(all), Newest(log, all),
         NEW new, IsRun(new)
  PROVE  /\ IsRun(MemoryAppendAudit(log, new))
         /\ Newest(MemoryAppendAudit(log, new), all \o new)
<1> DEFINE longer == log \o new
           every == all \o new
           kept == MemoryAppendAudit(log, new)
           l == Len(log)
           a == Len(all)
           n == Len(new)
<1>1. /\ IsRun(longer) /\ Len(longer) = l + n /\ l \in Nat /\ n \in Nat
      /\ \A i \in 1 .. l : longer[i] = log[i]
      /\ \A i \in 1 .. n : longer[l + i] = new[i]
    BY JoinRuns
<1>2. /\ IsRun(every) /\ Len(every) = a + n /\ a \in Nat
      /\ \A i \in 1 .. a : every[i] = all[i]
      /\ \A i \in 1 .. n : every[a + i] = new[i]
    BY JoinRuns
<1>3. kept = IF Len(longer) > MaxAudit
             THEN SubSeq(longer, Len(longer) - MaxAudit + 1, Len(longer)) ELSE longer
    BY DEF MemoryAppendAudit
<1>4. /\ l <= a /\ (l = a \/ l = MaxAudit) /\ MaxAudit \in Nat \ {0}
      /\ \A k \in 1 .. l : log[k] = all[a - l + k]
    BY StorageAssumption DEF Newest
<1> HIDE DEF longer, every, kept, l, a, n
<1>5. ASSUME NEW k \in 1 .. l + n PROVE longer[k] = every[a - l + k]
  <2>1. CASE k <= l
    <3>1. k \in 1 .. l /\ a - l + k \in 1 .. a
        BY <1>1, <1>2, <1>4, <2>1
    <3> QED  BY <1>1, <1>2, <1>4, <3>1
  <2>2. CASE k > l
    <3>1. k - l \in 1 .. n /\ l + (k - l) = k /\ a + (k - l) = a - l + k
        BY <1>1, <1>2, <2>2
    <3> QED  BY <1>1, <1>2, <3>1
  <2> QED  BY <1>1, <2>1, <2>2
<1>6. CASE l + n <= MaxAudit
  <2>1. kept = longer
      BY <1>1, <1>3, <1>4, <1>6
  <2>2. l + n <= a + n /\ (l + n = a + n \/ l + n = MaxAudit) /\ (a + n) - (l + n) = a - l
      BY <1>1, <1>2, <1>4, <1>6
  <2> QED  BY <1>1, <1>2, <1>5, <2>1, <2>2 DEF Newest, kept, every
<1>7. CASE l + n > MaxAudit
  <2> DEFINE m == l + n - MaxAudit + 1
  <2>1. m \in 1 .. Len(longer) /\ Len(longer) - m + 1 = MaxAudit
      BY <1>1, <1>4, <1>7
  <2>0. Len(longer) - MaxAudit + 1 = m /\ Len(longer) > MaxAudit
      BY <1>1, <1>4, <1>7
  <2>2. kept = SubSeq(longer, m, Len(longer))
      BY <1>3, <2>0, Zenon
  <2> HIDE DEF m
  <2>3. /\ IsRun(kept) /\ Len(kept) = MaxAudit
        /\ \A i \in 1 .. MaxAudit : kept[i] = longer[m - 1 + i]
    <3>1. IsRun(longer)
        BY <1>1
    <3>2. kept = SubSeq(longer, m, Len(longer)) /\ m \in 1 .. Len(longer)
        BY <2>1, <2>2
    <3> HIDE DEF kept, longer
    <3> QED  BY <3>1, <3>2, <2>1, EndOfRun
  <2>4. ASSUME NEW i \in 1 .. MaxAudit PROVE kept[i] = every[a + n - MaxAudit + i]
    <3>1. m - 1 + i \in 1 .. l + n /\ a - l + (m - 1 + i) = a + n - MaxAudit + i
        BY <1>1, <1>2, <1>4, <1>7 DEF m
    <3> QED  BY <1>5, <2>3, <3>1
  <2>5. MaxAudit <= a + n
      BY <1>1, <1>2, <1>4, <1>7
  <2>6. /\ Len(kept) <= Len(every)
        /\ Len(kept) = MaxAudit
        /\ Len(every) - Len(kept) = a + n - MaxAudit
    <3> HIDE DEF kept, every
    <3> QED  BY <1>1, <1>2, <1>4, <2>3, <2>5
  <2>7. ASSUME NEW i \in 1 .. Len(kept) PROVE kept[i] = every[Len(every) - Len(kept) + i]
      BY <2>3, <2>4, <2>6
  <2>8. Newest(kept, every)
      BY <2>6, <2>7 DEF Newest
  <2> QED  BY <2>3, <2>8 DEF kept, every
<1> QED  BY <1>1, <1>4, <1>6, <1>7

\* A set of no members is empty.
LEMMA NoneFailed ==
  ASSUME NEW S, IsFiniteSet(S), NEW n \in Nat, Cardinality(S) + n = 0
  PROVE  S = {}
<1>1. Cardinality(S) \in Nat
    BY FS_CardinalityType
<1>2. Cardinality(S) = 0
    BY <1>1
<1> QED  BY <1>2, FS_EmptySet

\* What the database refused, and how often it did.
LEMMA RefusedCounted ==
  ASSUME NEW S, IsFiniteSet(S), NEW T, IsFiniteSet(T), NEW f \in Nat, NEW n \in Nat,
         Cardinality(S) <= f
  PROVE  /\ IsFiniteSet(S \cup T)
         /\ Cardinality(S \cup T) <= f + (Cardinality(T) + n)
         /\ f + (Cardinality(T) + n) \in Nat
<1>1. /\ IsFiniteSet(S \cup T) /\ IsFiniteSet(S \cap T)
      /\ Cardinality(S \cup T) = Cardinality(S) + Cardinality(T) - Cardinality(S \cap T)
    BY FS_Union, FS_Intersection
<1>2. /\ Cardinality(S) \in Nat /\ Cardinality(T) \in Nat /\ Cardinality(S \cap T) \in Nat
      /\ Cardinality(S \cup T) \in Nat
    BY <1>1, FS_CardinalityType
<1> QED  BY <1>1, <1>2

\* Records are emitted.
LEMMA EmitLog ==
  ASSUME LogInv, backend' = backend, NEW records, IsRun(records),
         NEW failed, failed \subseteq ToSet(records), NEW n \in Nat, Emit(records, failed, n)
  PROVE  LogInv'
<1> DEFINE S == {i \in DOMAIN records : records[i] \notin failed}
           arrived == Selected(records, S)
<1>1. /\ Fail(Cardinality(failed) + n) /\ audit' = AppendAudit(audit, arrived)
      /\ announced' = announced \o records /\ refused' = refused \cup failed
    BY DEF Emit
<1>2. IsRun(arrived) /\ \A i \in S : records[i] \in ToSet(arrived)
    BY SelectedRows
<1>3. IsFiniteSet(failed)
    BY FinitelyMany, FS_Subset
<1>4. /\ IsRun(announced') /\ ToSet(announced \o records) = ToSet(announced) \cup ToSet(records)
    BY <1>1, JoinRuns DEF LogInv
<1>5. faults' \in Nat /\ IsFiniteSet(refused') /\ Cardinality(refused') <= faults'
  <2>1. faults' = faults + (Cardinality(failed) + n)
      BY <1>1 DEF Fail
  <2> QED  BY <1>1, <1>3, <2>1, RefusedCounted DEF LogInv
<1>6. CASE Postgres
  <2>1. audit' = audit \o arrived
      BY <1>1, <1>6 DEF AppendAudit, PostgresAppendAudit
  <2>2. IsRun(audit') /\ ToSet(audit \o arrived) = ToSet(audit) \cup ToSet(arrived)
    <3> HIDE DEF arrived
    <3> QED  BY <1>2, <2>1, JoinRuns DEF LogInv
  <2>3. ToSet(records) \subseteq ToSet(arrived) \cup failed
    <3>1. ASSUME NEW i \in DOMAIN records PROVE records[i] \in ToSet(arrived) \cup failed
      <4> HIDE DEF arrived
      <4> QED  BY <1>2
    <3> HIDE DEF arrived, S
    <3> QED  BY <3>1 DEF ToSet
  <2>4. ToSet(announced \o records) \subseteq ToSet(audit \o arrived) \cup (refused \cup failed)
    <3> HIDE DEF arrived
    <3> QED  BY <1>4, <1>6, <2>2, <2>3 DEF LogInv
  <2>5. Postgres'
      BY <1>6 DEF Postgres
  <2> HIDE DEF arrived
  <2>6. ToSet(announced') \subseteq ToSet(audit') \cup refused'
      BY <1>1, <2>1, <2>4
  <2> QED  BY <1>4, <1>5, <2>2, <2>5, <2>6 DEF LogInv
<1>7. CASE ~Postgres
  <2>1. Cardinality(failed) + n = 0
    <3>1. Cardinality(failed) \in Nat
        BY <1>3, FS_CardinalityType
    <3> QED  BY <1>1, <1>7, <3>1 DEF Fail
  <2>2. failed = {}
      BY <1>3, <2>1, NoneFailed
  <2>3. S = DOMAIN records
      BY <2>2
  <2>4. arrived = records
      BY <2>3, AllSelected
  <2>5. audit' = MemoryAppendAudit(audit, records)
      BY <1>1, <1>7, <2>4 DEF AppendAudit
  <2>6. IsRun(audit') /\ Newest(audit', announced')
      BY <1>1, <1>7, <2>5, CutIsNewest DEF LogInv
  <2>7. ~Postgres'
      BY <1>7 DEF Postgres
  <2> QED  BY <1>4, <1>5, <2>6, <2>7 DEF LogInv
<1> QED  BY <1>6, <1>7

\* One record is a list of records.
LEMMA OneRecordRun ==
  ASSUME NEW x
  PROVE  IsRun(<<x>>)
<1>1. <<x>> \in Seq({x})
    OBVIOUS
<1> QED  BY <1>1, RunOf

\* The creation of the threats of a batch is recorded in a list.
LEMMA CreationsEmitted ==
  ASSUME PipelineInv, NEW w \in Workers, Correlate(w)
  PROVE  \E new, failed :
           /\ IsRun(CreationRecords(new)) /\ failed \subseteq ToSet(CreationRecords(new))
           /\ Emit(CreationRecords(new), failed, 0)
           /\ job' = [job EXCEPT ![w].at = "score", ![w].pending = new]
<1> DEFINE j == job[w]
           ids == IdsOf(j.batch)
           G == {Group[id] : id \in ids}
           n == Cardinality(G)
           groups == SetToSeq(G)
           new == [i \in DOMAIN groups |->
                     [id |-> nextId + i, alerts |-> {id \in ids : Group[id] = groups[i]},
                      group |-> groups[i], status |-> "OPEN", methods |-> {"IOC_MATCH"}]]
           records == CreationRecords(new)
<1>1. PICK failed : /\ failed \subseteq ToSet(records) /\ Emit(records, failed, 0)
                    /\ job' = [job EXCEPT ![w].at = "score", ![w].pending = new]
    BY Zenon DEF Correlate
<1>2. IsRun(j.batch) /\ j.batch # <<>>
    BY DEF Correlate, PipelineInv, JobInv
<1>3. n \in Nat \ {0} /\ groups \in [1 .. n -> G]
    BY <1>2, GroupsListed
<1> HIDE DEF n, groups
<1>4. DOMAIN new = 1 .. n
    BY <1>3
<1> HIDE DEF new
<1>5. records = [i \in 1 .. n |-> records[i]]
    BY <1>4 DEF CreationRecords
<1> HIDE DEF records
<1>6. IsRun(records)
    BY <1>3, <1>5, RunFrom
<1> USE DEF records
<1> QED  BY <1>1, <1>6

\* A step leaves the log, emits records, or starts the process with an empty log.
LEMMA LogSteps ==
  ASSUME PipelineInv, LogInv, [Next]_vars
  PROVE  /\ backend' = backend
         /\ \/ UNCHANGED logVars /\ faults' \in Nat /\ faults' >= faults
            \/ \E records, failed : \E n \in Nat :
                 IsRun(records) /\ failed \subseteq ToSet(records) /\ Emit(records, failed, n)
            \/ /\ ~Postgres /\ audit' = <<>> /\ announced' = <<>> /\ refused' = {}
               /\ faults' = faults + 1
<1>1. faults \in Nat
    BY DEF LogInv
<1>2. (\E k \in {0, 1} : Fail(k)) => faults' \in Nat /\ faults' >= faults
    BY <1>1 DEF Fail
<1>3. faults' = faults => faults' \in Nat /\ faults' >= faults
    BY <1>1
<1>4. ASSUME NEW w \in Workers, Correlate(w)
      PROVE  /\ backend' = backend
             /\ \E records, failed : \E n \in Nat :
                  IsRun(records) /\ failed \subseteq ToSet(records) /\ Emit(records, failed, n)
    BY <1>4, CreationsEmitted DEF Correlate
<1>5. ASSUME NEW w \in Workers,
             \/ \E key, id, v : SubmitFeedback(w, key, id, v)
             \/ Score(w) \/ Report(w)
      PROVE  /\ backend' = backend
             /\ \/ UNCHANGED logVars /\ faults' \in Nat /\ faults' >= faults
                \/ \E records, failed : \E n \in Nat :
                     IsRun(records) /\ failed \subseteq ToSet(records) /\ Emit(records, failed, n)
  <2>0. backend' = backend
      BY <1>5 DEF SubmitFeedback, Score, Report
  <2>1. \/ UNCHANGED auditVars
        \/ \E x : \E failed \in SUBSET {x}, n \in {0, 1} : Emit(<<x>>, failed, n)
    <3>1. CASE \E key, id, v : SubmitFeedback(w, key, id, v)
        BY <3>1, Zenon DEF SubmitFeedback
    <3>2. CASE Score(w)
        BY <3>2, Zenon DEF Score
    <3>3. CASE Report(w)
      <4>1. \E x : \E failed \in SUBSET {x}, n \in 0 .. 1 : Emit(<<x>>, failed, n)
          BY <3>3, Zenon DEF Report
      <4>2. 0 .. 1 = {0, 1}
          OBVIOUS
      <4> QED  BY <4>1, <4>2, Zenon
    <3> QED  BY <1>5, <3>1, <3>2, <3>3
  <2>2. ASSUME NEW x PROVE IsRun(<<x>>) /\ ToSet(<<x>>) = {x}
    <3>1. IsRun(<<x>>)
        BY OneRecordRun, Zenon
    <3>2. ToSet(<<x>>) = {x}
        BY DEF ToSet
    <3> QED  BY <3>1, <3>2
  <2>3. CASE UNCHANGED auditVars
      BY <1>3, <2>0, <2>3 DEF auditVars
  <2>4. CASE \E x : \E failed \in SUBSET {x}, n \in {0, 1} : Emit(<<x>>, failed, n)
    <3>1. PICK x : \E failed \in SUBSET {x}, n \in {0, 1} : Emit(<<x>>, failed, n)
        BY <2>4
    <3>2. PICK failed \in SUBSET {x}, n \in {0, 1} : Emit(<<x>>, failed, n)
        BY <3>1
    <3>3. n \in Nat /\ IsRun(<<x>>) /\ failed \subseteq ToSet(<<x>>)
        BY <2>2
    <3> QED  BY <2>0, <3>2, <3>3
  <2> QED  BY <2>1, <2>3, <2>4
<1>6. ASSUME NEW w \in Workers,
             \/ \E key, s, runNow : SubmitAlerts(w, key, s, runNow)
             \/ \E key, role : CreateApiKey(w, key, role)
             \/ \E s : Demo(w, s)
             \/ RunPipeline(w) \/ SaveAlert(w) \/ StoreThreat(w)
      PROVE  backend' = backend /\ UNCHANGED logVars /\ faults' \in Nat /\ faults' >= faults
  <2>1. /\ backend' = backend /\ UNCHANGED logVars
        /\ faults' = faults \/ Fail(0) \/ Fail(1)
      BY <1>6 DEF SubmitAlerts, CreateApiKey, Demo, RunPipeline, SaveAlert, StoreThreat, auditVars
  <2> QED  BY <1>2, <1>3, <2>1
<1>7. ASSUME NEW w \in Workers, Restart(w)
      PROVE  /\ backend' = backend
             /\ \/ UNCHANGED logVars /\ faults' \in Nat /\ faults' >= faults
                \/ /\ ~Postgres /\ audit' = <<>> /\ announced' = <<>> /\ refused' = {}
                   /\ faults' = faults + 1
  <2>1. faults' = faults + 1 /\ faults' \in Nat /\ faults' >= faults
      BY <1>1, <1>7 DEF Restart
  <2> QED  BY <1>7, <2>1 DEF Restart
<1>8. CASE Migrate
  <2>1. backend' = backend /\ UNCHANGED logVars /\ (Fail(0) \/ Fail(1))
      BY <1>8 DEF Migrate
  <2> QED  BY <1>2, <2>1
<1>9. CASE UNCHANGED vars
    BY <1>3, <1>9 DEF vars, auditVars
<1> QED  BY <1>4, <1>5, <1>6, <1>7, <1>8, <1>9 DEF Next

\* Every step keeps the log in order.
LEMMA LogStep == PipelineInv /\ LogInv /\ [Next]_vars => LogInv'
<1> SUFFICES ASSUME PipelineInv, LogInv, [Next]_vars PROVE LogInv'
    OBVIOUS
<1>1. CASE backend' = backend /\ UNCHANGED logVars /\ faults' \in Nat /\ faults' >= faults
  <2>1. Cardinality(refused) \in Nat /\ faults \in Nat
      BY FS_CardinalityType DEF LogInv
  <2>2. Cardinality(refused) <= faults'
      BY <1>1, <2>1 DEF LogInv
  <2> QED  BY <1>1, <2>2 DEF LogInv, logVars, Postgres, Newest
<1>2. ASSUME NEW records, NEW failed, NEW n \in Nat, backend' = backend, IsRun(records),
             failed \subseteq ToSet(records), Emit(records, failed, n)
      PROVE  LogInv'
    BY <1>2, EmitLog
<1>3. CASE /\ backend' = backend /\ ~Postgres /\ audit' = <<>> /\ announced' = <<>>
           /\ refused' = {} /\ faults' = faults + 1
  <2>1. IsRun(<<>>) /\ Len(<<>>) = 0 /\ Newest(<<>>, <<>>)
      BY EmptyRun DEF Newest
  <2>2. IsFiniteSet({}) /\ Cardinality({}) = 0
      BY FS_EmptySet
  <2>3. faults' \in Nat /\ 0 <= faults'
      BY <1>3 DEF LogInv
  <2> QED  BY <1>3, <2>1, <2>2, <2>3 DEF LogInv, Postgres
<1> QED  BY <1>1, <1>2, <1>3, LogSteps

\* At the start the log is empty.
LEMMA InitLogInv == Init => LogInv
<1> SUFFICES ASSUME Init PROVE LogInv
    OBVIOUS
<1>1. audit = <<>> /\ announced = <<>> /\ refused = {} /\ faults = 0
    BY DEF Init
<1>2. IsRun(<<>>) /\ DOMAIN <<>> = {} /\ Len(<<>>) = 0 /\ Newest(<<>>, <<>>)
    BY EmptyRun DEF Newest
<1>3. IsFiniteSet({}) /\ Cardinality({}) = 0
    BY FS_EmptySet
<1>4. ToSet(<<>>) = {}
    BY <1>2 DEF ToSet
<1> QED  BY <1>1, <1>2, <1>3, <1>4 DEF LogInv

-----------------------------------------------------------------------------
(* Decisions and the audit log *)

\* What was sent to the audit log.
Log == ToSet(announced)
Announced(e, id) == Event(e, id) \in Log

\* Every decision about a stored threat, and every verdict a process keeps, was
\* announced to the audit log.
DecisionsAnnounced ==
  /\ \A id \in IdsOf(threats), e \in {"CORRELATION_CREATED", "PRIORITY_SCORED", "BLUF_GENERATED"} :
       Announced(e, id)
  /\ \A w \in Workers : \A i \in DOMAIN verdicts[w] :
       Announced("ANALYST_ACTION", verdicts[w][i].id)

\* The verdicts a process keeps are a list; in memory there is one process.
VerdictsInv(w) ==
  /\ IsRun(verdicts[w])
  /\ Postgres \/ w = Server \/ verdicts[w] = <<>>
  /\ \A i \in DOMAIN verdicts[w] : Announced("ANALYST_ACTION", verdicts[w][i].id)

\* The threats a run has yet to store were announced as far as it has got.
RunInv(w) ==
  /\ \A id \in Due(w) : Announced("CORRELATION_CREATED", id)
  /\ job[w].at \in {"report", "store"} => Announced("PRIORITY_SCORED", Head(job[w].pending).id)
  /\ job[w].at = "store" => Announced("BLUF_GENERATED", Head(job[w].pending).id)

AuditInv ==
  /\ DOMAIN verdicts = Workers
  /\ \A id \in IdsOf(threats), e \in {"CORRELATION_CREATED", "PRIORITY_SCORED", "BLUF_GENERATED"} :
       Announced(e, id)
  /\ \A w \in Workers : VerdictsInv(w) /\ RunInv(w)

\* A record that is emitted was announced, and so is what was before.
LEMMA EmitAnnounces ==
  ASSUME LogInv, NEW records, IsRun(records), NEW failed, NEW n, Emit(records, failed, n)
  PROVE  Log \cup ToSet(records) \subseteq Log'
<1>1. announced' = announced \o records
    BY DEF Emit
<1>2. ToSet(announced \o records) = ToSet(announced) \cup ToSet(records)
    BY JoinRuns DEF LogInv
<1> QED  BY <1>1, <1>2 DEF Log, ToSet

\* A record that is the only one.
LEMMA OneRecord ==
  ASSUME NEW x
  PROVE  x \in ToSet(<<x>>)
  BY DEF ToSet

\* A step of one worker keeps the audit in order if the log grows and what the
\* worker does was announced.
LEMMA AuditKept ==
  ASSUME AuditInv, NEW w \in Workers, Log \subseteq Log', backend' = backend,
         \A v \in Workers \ {w} : job'[v] = job[v] /\ verdicts'[v] = verdicts[v],
         DOMAIN verdicts' = Workers, VerdictsInv(w)', RunInv(w)',
         \A id \in IdsOf(threats') \ IdsOf(threats),
            e \in {"CORRELATION_CREATED", "PRIORITY_SCORED", "BLUF_GENERATED"} : Announced(e, id)'
  PROVE  AuditInv'
<1>1. \A e, id : Announced(e, id) => Announced(e, id)'
    BY DEF Announced, Event
<1>2. ASSUME NEW v \in Workers, v # w PROVE VerdictsInv(v)' /\ RunInv(v)'
  <2>1. job'[v] = job[v] /\ verdicts'[v] = verdicts[v] /\ VerdictsInv(v) /\ RunInv(v)
      BY <1>2 DEF AuditInv
  <2>2. Due(v)' = Due(v)
      BY <2>1 DEF Due
  <2>3. VerdictsInv(v)'
      BY <1>1, <2>1 DEF VerdictsInv, Postgres
  <2>4. RunInv(v)'
      BY <1>1, <2>1, <2>2 DEF RunInv
  <2> QED  BY <2>3, <2>4
<1>3. \A id \in IdsOf(threats'), e \in {"CORRELATION_CREATED", "PRIORITY_SCORED", "BLUF_GENERATED"} :
        Announced(e, id)'
    BY <1>1 DEF AuditInv
<1> QED  BY <1>2, <1>3 DEF AuditInv

\* The verdicts that are there were announced.
LEMMA VerdictsStay ==
  ASSUME AuditInv, NEW w \in Workers, Log \subseteq Log',
         UNCHANGED <<backend, verdicts>>
  PROVE  VerdictsInv(w)' /\ DOMAIN verdicts' = Workers
<1>1. \A e, id : Announced(e, id) => Announced(e, id)'
    BY DEF Announced, Event
<1> QED  BY <1>1 DEF AuditInv, VerdictsInv, Postgres

\* A run that has decided nothing has nothing to announce.
LEMMA NothingDue ==
  ASSUME NEW w \in Workers, PipelineInv', ~Deciding(w)'
  PROVE  RunInv(w)'
<1>1. job'[w].pending = <<>>
    BY DEF PipelineInv, JobInv
<1>2. Due(w)' = {}
    BY <1>1 DEF Due
<1> QED  BY <1>2 DEF RunInv, Deciding

\* Steps that decide nothing: requests, and saves.
LEMMA SavingAudited ==
  ASSUME PipelineInv, PipelineInv', LogInv, AuditInv, NEW w \in Workers,
         \/ \E key, s, runNow : SubmitAlerts(w, key, s, runNow)
         \/ \E s : Demo(w, s)
         \/ RunPipeline(w) \/ SaveAlert(w)
  PROVE  AuditInv'
<1>0. DOMAIN job = Workers /\ DOMAIN job[w] = JobFields
    BY DEF PipelineInv, JobInv
<1>1. UNCHANGED <<backend, threats, audit, announced, refused, verdicts>>
    BY DEF SubmitAlerts, Demo, RunPipeline, SaveAlert, stores, auditVars, logVars, apiVars
<1>2. Log' = Log
    BY <1>1 DEF Log
<1>3. \A v \in Workers \ {w} : job'[v] = job[v] /\ verdicts'[v] = verdicts[v]
    BY <1>0, <1>1 DEF SubmitAlerts, Demo, RunPipeline, SaveAlert, Start, Raise
<1>4. job'[w].at \in {"submit", "persist", "correlate", "idle"}
  <2>1. CASE (\E key, s, runNow : SubmitAlerts(w, key, s, runNow)) \/ (\E s : Demo(w, s)) \/ RunPipeline(w)
    <3>1. PICK at \in {"submit", "persist"} : \E batch, runs : Start(w, at, batch, runs)
        BY <2>1 DEF SubmitAlerts, Demo, RunPipeline
    <3> QED  BY <1>0, <3>1 DEF Start
  <2>2. CASE SaveAlert(w)
    <3> DEFINE j == job[w]
               rest == Tail(j.todo)
    <3>1. /\ j.at \in {"submit", "persist"}
          /\ job' = [job EXCEPT ![w] = Idle]
             \/ job' = [job EXCEPT ![w] =
                  IF rest # <<>> THEN [j EXCEPT !.todo = rest]
                  ELSE IF j.at = "persist" THEN [j EXCEPT !.at = "correlate", !.todo = <<>>]
                  ELSE IF j.runs THEN [j EXCEPT !.at = "persist", !.todo = j.batch]
                  ELSE Idle]
        BY <2>2 DEF SaveAlert, Raise
    <3> HIDE DEF rest
    <3>2. /\ j.at \in {"submit", "persist"} /\ DOMAIN j = JobFields
          /\ [j EXCEPT !.todo = rest].at = j.at
          /\ [j EXCEPT !.at = "correlate", !.todo = <<>>].at = "correlate"
          /\ [j EXCEPT !.at = "persist", !.todo = j.batch].at = "persist"
          /\ Idle.at = "idle"
        BY <1>0, <3>1 DEF Idle, JobFields
    <3> HIDE DEF j
    <3> QED  BY <1>0, <3>1, <3>2
  <2> QED  BY <2>1, <2>2
<1>5. RunInv(w)'
    BY <1>4, NothingDue DEF Deciding
<1>6. VerdictsInv(w)' /\ DOMAIN verdicts' = Workers
    BY <1>1, <1>2, VerdictsStay
<1> QED  BY <1>1, <1>2, <1>3, <1>5, <1>6, AuditKept

\* A run that goes on to the next decision, or ends.
LEMMA DecidingAudited ==
  ASSUME PipelineInv, PipelineInv', LogInv, AuditInv, NEW w \in Workers, Score(w) \/ Report(w)
  PROVE  AuditInv'
<1> DEFINE p == job[w].pending
           t == Head(p)
<1>0. DOMAIN job = Workers /\ DOMAIN job[w] = JobFields
    BY DEF PipelineInv, JobInv
<1>1. UNCHANGED <<backend, threats, verdicts>>
    BY DEF Score, Report, stores, apiVars
<1>2. \/ Raise(w) /\ UNCHANGED <<audit, announced, refused>>
      \/ /\ Score(w) /\ job' = [job EXCEPT ![w].at = "report"]
         /\ \E failed, n : Emit(<<Event("PRIORITY_SCORED", t.id)>>, failed, n)
      \/ /\ Report(w) /\ job' = [job EXCEPT ![w].at = "store"]
         /\ \E failed, n : Emit(<<Event("BLUF_GENERATED", t.id)>>, failed, n)
  <2>1. CASE Score(w)
      BY <2>1, Zenon DEF Score, auditVars, logVars
  <2>2. CASE Report(w)
      BY <2>2, Zenon DEF Report
  <2> QED  BY <2>1, <2>2
<1>3. CASE Raise(w) /\ UNCHANGED <<audit, announced, refused>>
  <2>1. Log' = Log
      BY <1>3 DEF Log
  <2>2. job'[w].at = "idle" /\ \A v \in Workers \ {w} : job'[v] = job[v]
      BY <1>0, <1>3 DEF Raise, Idle
  <2>3. RunInv(w)'
      BY <2>2, NothingDue DEF Deciding
  <2>4. VerdictsInv(w)' /\ DOMAIN verdicts' = Workers
      BY <1>1, <2>1, VerdictsStay
  <2> QED  BY <1>1, <2>1, <2>2, <2>3, <2>4, AuditKept
<1>4. ASSUME NEW e \in {"PRIORITY_SCORED", "BLUF_GENERATED"}, NEW at,
             at = IF e = "PRIORITY_SCORED" THEN "report" ELSE "store",
             job[w].at = IF e = "PRIORITY_SCORED" THEN "score" ELSE "report",
             job' = [job EXCEPT ![w].at = at],
             NEW failed, NEW n, Emit(<<Event(e, t.id)>>, failed, n)
      PROVE  AuditInv'
  <2>1. Log \subseteq Log' /\ Announced(e, t.id)'
      BY <1>4, EmitAnnounces, OneRecord, OneRecordRun DEF Announced, Event
  <2>2. /\ job'[w].at = at /\ job'[w].pending = p
        /\ \A v \in Workers \ {w} : job'[v] = job[v]
      BY <1>0, <1>4 DEF JobFields
  <2>3. \A f, id : Announced(f, id) => Announced(f, id)'
      BY <2>1 DEF Announced, Event
  <2>4. RunInv(w) /\ Due(w)' = Due(w)
      BY <2>2 DEF AuditInv, Due
  <2>5. RunInv(w)'
      BY <1>4, <2>1, <2>2, <2>3, <2>4 DEF RunInv
  <2>6. VerdictsInv(w)' /\ DOMAIN verdicts' = Workers
      BY <1>1, <2>1, VerdictsStay
  <2> QED  BY <1>1, <2>1, <2>2, <2>5, <2>6, AuditKept
<1>5. /\ Score(w) => job[w].at = "score"
      /\ Report(w) => job[w].at = "report"
    BY DEF Score, Report
<1> QED  BY <1>2, <1>3, <1>4, <1>5

\* New threats are announced with their creation.
LEMMA CorrelateAudited ==
  ASSUME PipelineInv, PipelineInv', LogInv, AuditInv, NEW w \in Workers, Correlate(w)
  PROVE  AuditInv'
<1>0. DOMAIN job = Workers /\ DOMAIN job[w] = JobFields
    BY DEF PipelineInv, JobInv
<1>1. UNCHANGED <<backend, threats, verdicts>>
    BY DEF Correlate, stores, apiVars
<1>2. PICK new, failed :
        /\ IsRun(CreationRecords(new)) /\ Emit(CreationRecords(new), failed, 0)
        /\ job' = [job EXCEPT ![w].at = "score", ![w].pending = new]
    BY CreationsEmitted
<1>3. /\ job'[w].at = "score" /\ job'[w].pending = new
      /\ \A v \in Workers \ {w} : job'[v] = job[v]
    BY <1>0, <1>2 DEF JobFields
<1>4. \A id \in Due(w)' : Event("CORRELATION_CREATED", id) \in ToSet(CreationRecords(new))
    BY <1>3 DEF Due, CreationRecords, ToSet
<1>5. Log \cup ToSet(CreationRecords(new)) \subseteq Log'
    BY <1>2, EmitAnnounces
<1>6. RunInv(w)'
    BY <1>3, <1>4, <1>5 DEF RunInv, Announced, Event
<1>7. VerdictsInv(w)' /\ DOMAIN verdicts' = Workers
    BY <1>1, <1>5, VerdictsStay
<1> QED  BY <1>1, <1>3, <1>5, <1>6, <1>7, AuditKept

\* A threat is stored when all was announced.
LEMMA StoreAudited ==
  ASSUME PipelineInv, PipelineInv', LogInv, AuditInv, NEW w \in Workers, StoreThreat(w)
  PROVE  AuditInv'
<1> DEFINE j == job[w]
           p == j.pending
           t == Head(p)
<1>0. DOMAIN job = Workers /\ DOMAIN job[w] = JobFields
    BY DEF PipelineInv, JobInv
<1>1. /\ UNCHANGED <<backend, audit, announced, refused, verdicts>> /\ j.at = "store"
      /\ \/ Raise(w) /\ threats' = threats
         \/ /\ threats' = IF Postgres THEN PostgresSaveThreat(threats, t)
                                      ELSE MemorySaveThreat(threats, t)
            /\ job' = [job EXCEPT ![w] = IF Len(p) = 1 THEN Idle
                         ELSE [j EXCEPT !.at = "score", !.pending = Tail(p)]]
    BY DEF StoreThreat, apiVars, logVars
<1>2. Log' = Log
    BY <1>1 DEF Log
<1>3. VerdictsInv(w)' /\ DOMAIN verdicts' = Workers
    BY <1>1, <1>2, VerdictsStay
<1>4. CASE Raise(w) /\ threats' = threats
  <2>1. job'[w].at = "idle" /\ \A v \in Workers \ {w} : job'[v] = job[v]
      BY <1>0, <1>4 DEF Raise, Idle
  <2>2. RunInv(w)'
      BY <2>1, NothingDue DEF Deciding
  <2> QED  BY <1>1, <1>2, <1>3, <1>4, <2>1, <2>2, AuditKept
<1>5. CASE /\ threats' = IF Postgres THEN PostgresSaveThreat(threats, t)
                                     ELSE MemorySaveThreat(threats, t)
           /\ job' = [job EXCEPT ![w] = IF Len(p) = 1 THEN Idle
                        ELSE [j EXCEPT !.at = "score", !.pending = Tail(p)]]
  <2>1. /\ IsRun(p) /\ p # <<>> /\ IsRun(threats)
        /\ \A id \in Due(w) : id \notin IdsOf(threats)
      BY <1>1 DEF PipelineInv, JobInv, StoreInv, Deciding
  <2>2. /\ Len(p) \in Nat \ {0} /\ DOMAIN p = 1 .. Len(p) /\ t = p[1]
        /\ \A i \in DOMAIN Tail(p) : i + 1 \in DOMAIN p /\ Tail(p)[i] = p[i + 1]
      BY <2>1, TailRun
  <2>3. t.id \in Due(w)
    <3>1. 1 \in DOMAIN p
        BY <2>2
    <3> QED  BY <2>2, <3>1 DEF Due
  <2>4. threats' = Append(threats, t)
      BY <1>5, <2>1, <2>3 DEF PostgresSaveThreat, MemorySaveThreat
  <2> HIDE DEF p, t
  <2>5. IdsOf(threats') = IdsOf(threats) \cup {t.id}
      BY <2>1, <2>4, AppendIds
  <2>6. RunInv(w)
      BY DEF AuditInv
  <2>7. \A e \in {"CORRELATION_CREATED", "PRIORITY_SCORED", "BLUF_GENERATED"} : Announced(e, t.id)
      BY <1>1, <2>3, <2>6 DEF RunInv, p, t
  <2>8. \A e, id : Announced(e, id) => Announced(e, id)'
      BY <1>2 DEF Announced, Event
  <2>9. \A v \in Workers \ {w} : job'[v] = job[v]
      BY <1>5
  <2>10. RunInv(w)'
    <3>1. CASE Len(p) = 1
      <4>1. job'[w].at = "idle"
          BY <1>0, <1>5, <3>1 DEF Idle
      <4> QED  BY <4>1, NothingDue DEF Deciding
    <3>2. CASE Len(p) # 1
      <4>1. job'[w].at = "score" /\ job'[w].pending = Tail(p)
          BY <1>0, <1>5, <3>2 DEF JobFields
      <4>2. Due(w)' \subseteq Due(w)
          BY <2>2, <4>1 DEF Due, p
      <4> QED  BY <2>6, <2>8, <4>1, <4>2 DEF RunInv
    <3> QED  BY <3>1, <3>2
  <2> QED  BY <1>1, <1>2, <1>3, <2>5, <2>7, <2>8, <2>9, <2>10, AuditKept
<1> QED  BY <1>1, <1>4, <1>5

\* A verdict that is kept is announced; a new key announces nothing.
LEMMA ApiAudited ==
  ASSUME PipelineInv, PipelineInv', LogInv, AuditInv, NEW w \in Workers,
         \/ \E key, id, v : SubmitFeedback(w, key, id, v)
         \/ \E key, role : CreateApiKey(w, key, role)
  PROVE  AuditInv'
<1>1. UNCHANGED <<backend, threats, job>>
    BY DEF SubmitFeedback, CreateApiKey, stores
<1>2. ASSUME Log \subseteq Log' PROVE RunInv(w)'
  <2>1. \A e, id : Announced(e, id) => Announced(e, id)'
      BY <1>2 DEF Announced, Event
  <2>2. RunInv(w) /\ Due(w)' = Due(w)
      BY <1>1 DEF AuditInv, Due
  <2> QED  BY <1>1, <2>1, <2>2 DEF RunInv
<1>3. ASSUME NEW key, NEW role, CreateApiKey(w, key, role) PROVE AuditInv'
  <2>1. UNCHANGED verdicts /\ Log' = Log
      BY <1>3 DEF CreateApiKey, auditVars, logVars, Log
  <2>2. VerdictsInv(w)' /\ DOMAIN verdicts' = Workers
      BY <1>1, <2>1, VerdictsStay
  <2> QED  BY <1>1, <1>2, <2>1, <2>2, AuditKept
<1>4. ASSUME NEW key, NEW id, NEW v, SubmitFeedback(w, key, id, v) PROVE AuditInv'
  <2> DEFINE old == verdicts[w]
             x == [id |-> id, verdict |-> v]
             new == Append(old, x)
  <2>1. /\ Postgres \/ w = Server
        /\ verdicts' = [verdicts EXCEPT ![w] = new]
      BY <1>4 DEF SubmitFeedback, SaveFeedback, Take
  <2>2. PICK failed, n : Emit(<<Event("ANALYST_ACTION", id)>>, failed, n)
      BY <1>4, Zenon DEF SubmitFeedback
  <2>3. Log \subseteq Log' /\ Announced("ANALYST_ACTION", id)'
      BY <2>2, EmitAnnounces, OneRecord, OneRecordRun DEF Announced, Event
  <2>4. \A e, i : Announced(e, i) => Announced(e, i)'
      BY <2>3 DEF Announced, Event
  <2>5. DOMAIN verdicts = Workers /\ VerdictsInv(w) /\ IsRun(old)
      BY DEF AuditInv, VerdictsInv
  <2>6. x.id = id
      OBVIOUS
  <2> HIDE DEF x
  <2>7. /\ IsRun(new) /\ DOMAIN new = 1 .. Len(old) + 1
        /\ Len(old) \in Nat /\ DOMAIN old = 1 .. Len(old)
        /\ new[Len(old) + 1] = x
    <3> HIDE DEF old
    <3> QED  BY <2>5, AppendRun
  <2>8. \A i \in DOMAIN old : new[i] = old[i]
    <3> HIDE DEF old
    <3> QED  BY <2>5, AppendRun
  <2>9. verdicts'[w] = new /\ \A u \in Workers \ {w} : verdicts'[u] = verdicts[u]
      BY <2>1, <2>5
  <2>10. \A i \in DOMAIN new : i \in DOMAIN old \/ i = Len(old) + 1
      BY <2>7
  <2> HIDE DEF new
  <2>11. \A i \in DOMAIN new : Event("ANALYST_ACTION", new[i].id) \in Log'
    <3>1. \A i \in DOMAIN old : Event("ANALYST_ACTION", old[i].id) \in Log
        BY <2>5 DEF VerdictsInv, Announced
    <3>2. Event("ANALYST_ACTION", x.id) \in Log'
        BY <2>3, <2>6 DEF Announced, Event
    <3> QED  BY <2>3, <2>7, <2>8, <2>10, <3>1, <3>2
  <2>12. VerdictsInv(w)' /\ DOMAIN verdicts' = Workers
      BY <1>1, <2>1, <2>5, <2>7, <2>9, <2>11 DEF VerdictsInv, Postgres, Announced, Event
  <2> QED  BY <1>1, <1>2, <2>3, <2>9, <2>12, AuditKept
<1> QED  BY <1>3, <1>4

\* A process that starts has decided nothing; in memory nothing is left to audit.
LEMMA RestartAudited ==
  ASSUME PipelineInv, PipelineInv', LogInv, AuditInv, NEW w \in Workers, Restart(w)
  PROVE  AuditInv'
<1>1. /\ backend' = backend /\ (Postgres \/ w = Server)
      /\ job' = [job EXCEPT ![w] = Idle]
      /\ verdicts' = [verdicts EXCEPT ![w] = <<>>]
    BY DEF Restart, Lifespan
<1>2. DOMAIN job = Workers /\ DOMAIN verdicts = Workers
    BY DEF PipelineInv, AuditInv
<1>3. /\ job'[w].at = "idle" /\ verdicts'[w] = <<>> /\ DOMAIN verdicts' = Workers
      /\ \A v \in Workers \ {w} : job'[v] = job[v] /\ verdicts'[v] = verdicts[v]
    BY <1>1, <1>2 DEF Idle
<1>4. IsRun(<<>>) /\ DOMAIN <<>> = {}
    BY EmptyRun
<1>5. RunInv(w)' /\ VerdictsInv(w)'
    BY <1>3, <1>4, NothingDue DEF Deciding, VerdictsInv
<1>6. CASE Postgres
  <2>1. UNCHANGED <<threats, audit, announced, refused>>
      BY <1>6 DEF Restart, stores, logVars
  <2>2. Log' = Log
      BY <2>1 DEF Log
  <2> QED  BY <1>1, <1>3, <1>5, <2>1, <2>2, AuditKept
<1>7. CASE ~Postgres
  <2>1. threats' = <<>>
      BY <1>7 DEF Restart
  <2>2. IdsOf(threats') = {}
      BY <1>4, <2>1 DEF IdsOf
  <2>3. ASSUME NEW v \in Workers, v # w PROVE RunInv(v)' /\ VerdictsInv(v)'
    <3>1. job[v].at = "idle" /\ verdicts[v] = <<>>
        BY <1>1, <1>7, <2>3 DEF PipelineInv, JobInv, AuditInv, VerdictsInv
    <3>2. job'[v].at = "idle" /\ verdicts'[v] = <<>>
        BY <1>3, <2>3, <3>1
    <3> QED  BY <1>4, <3>2, NothingDue DEF Deciding, VerdictsInv
  <2> QED  BY <1>3, <1>5, <2>2, <2>3 DEF AuditInv
<1> QED  BY <1>6, <1>7

\* At the start there is nothing to announce.
LEMMA InitAuditInv == Init => AuditInv
<1> SUFFICES ASSUME Init PROVE AuditInv
    OBVIOUS
<1>1. IsRun(<<>>) /\ DOMAIN <<>> = {}
    BY EmptyRun
<1>2. threats = <<>> /\ verdicts = [w \in Workers |-> <<>>] /\ job = [w \in Workers |-> Idle]
    BY DEF Init, Lifespan
<1>3. IdsOf(threats) = {}
    BY <1>1, <1>2 DEF IdsOf
<1>4. \A w \in Workers : VerdictsInv(w) /\ RunInv(w)
    BY <1>1, <1>2 DEF VerdictsInv, RunInv, Due, Idle
<1> QED  BY <1>2, <1>3, <1>4 DEF AuditInv

\* Every step keeps the audit in order.
LEMMA AuditStep ==
  PipelineInv /\ PipelineInv' /\ LogInv /\ AuditInv /\ [Next]_vars => AuditInv'
<1> SUFFICES ASSUME PipelineInv, PipelineInv', LogInv, AuditInv, [Next]_vars PROVE AuditInv'
    OBVIOUS
<1>1. CASE Migrate \/ UNCHANGED vars
  <2>1. UNCHANGED <<backend, threats, audit, announced, refused, verdicts, job>>
      BY <1>1 DEF Migrate, vars, stores, auditVars, logVars, apiVars
  <2>2. Log' = Log
      BY <2>1 DEF Log
  <2>3. \A e, id : Announced(e, id) => Announced(e, id)'
      BY <2>2 DEF Announced, Event
  <2>4. ASSUME NEW w \in Workers PROVE VerdictsInv(w)' /\ RunInv(w)'
    <3>1. VerdictsInv(w) /\ RunInv(w) /\ Due(w)' = Due(w)
        BY <2>1 DEF AuditInv, Due
    <3> QED  BY <2>1, <2>3, <3>1 DEF VerdictsInv, RunInv, Postgres
  <2> QED  BY <2>1, <2>3, <2>4 DEF AuditInv
<1>2. ASSUME NEW w \in Workers,
             \/ \E key \in DOMAIN keys[w] :
                  \/ \E s \in Submissions, runNow \in BOOLEAN : SubmitAlerts(w, key, s, runNow)
                  \/ \E id \in IdsOf(threats), v \in Verdicts : SubmitFeedback(w, key, id, v)
                  \/ \E role \in NewRoles : CreateApiKey(w, key, role)
             \/ \E s \in Submissions : Demo(w, s)
             \/ RunPipeline(w) \/ SaveAlert(w) \/ Correlate(w) \/ Score(w) \/ Report(w)
             \/ StoreThreat(w) \/ Restart(w)
      PROVE  AuditInv'
  <2>1. \/ \E key, s, runNow : SubmitAlerts(w, key, s, runNow)
        \/ \E s : Demo(w, s)
        \/ \E key, id, v : SubmitFeedback(w, key, id, v)
        \/ \E key, role : CreateApiKey(w, key, role)
        \/ RunPipeline(w) \/ SaveAlert(w) \/ Correlate(w) \/ Score(w) \/ Report(w)
        \/ StoreThreat(w) \/ Restart(w)
      BY <1>2
  <2> QED  BY <2>1, SavingAudited, DecidingAudited, CorrelateAudited, StoreAudited,
              ApiAudited, RestartAudited
<1> QED  BY <1>1, <1>2 DEF Next

\* No decision of run is stored and no verdict kept before its record was sent to
\* the audit log, whichever process made it and whatever failed or crashed.
THEOREM DecisionsAreAnnounced == Spec => []DecisionsAnnounced
<1>1. AuditInv => DecisionsAnnounced
    BY DEF AuditInv, DecisionsAnnounced, VerdictsInv
<1> QED  BY <1>1, AuditStep, InitAuditInv, LogStep, InitLogInv, PipelineInvariance, PTL DEF Spec

\* A page that is not full is all there is.
LEMMA ShortPage ==
  ASSUME NEW rows, IsRun(rows), NEW limit \in Nat, Len(Page(rows, limit, 0)) < limit
  PROVE  Page(rows, limit, 0) = rows
<1> DEFINE n == IF 0 + limit < Len(rows) THEN 0 + limit ELSE Len(rows)
<1>1. rows \in Seq(ToSet(rows)) /\ Len(rows) \in Nat
    BY RunOf DEF IsRun
<1>2. n \in Nat /\ n <= Len(rows)
    BY <1>1
<1>3. Page(rows, limit, 0) = SubSeq(rows, 1, n)
    BY <1>1 DEF Page
<1>4. n < limit => n = Len(rows)
    BY <1>1
<1> HIDE DEF n
<1>5. Len(SubSeq(rows, 1, n)) = n
    BY <1>1, <1>2
<1>6. n = Len(rows)
    BY <1>3, <1>4, <1>5
<1> QED  BY <1>1, <1>3, <1>6

\* The reader of a threat's log sees each record of it that the log has, unless
\* the page is full.
LEMMA ReaderSees ==
  ASSUME IsRun(audit), NEW id \in Nat \ {0}, Len(GetAudit(id, 100)) < 100,
         NEW e, Event(e, id) \in ToSet(audit)
  PROVE  Event(e, id) \in ToSet(GetAudit(id, 100))
<1> DEFINE S == {i \in DOMAIN audit : audit[i].threat = id}
<1>1. S \in SUBSET DOMAIN audit
    OBVIOUS
<1> HIDE DEF S
<1>2. \A i \in S : audit[i] \in ToSet(Selected(audit, S))
    BY <1>1, SelectedRows
<1>3. IsRun(Selected(audit, S))
    BY <1>1, SelectedRows
<1> USE DEF S
<1>4. GetAudit(id, 100) = Page(Selected(audit, S), 100, 0)
    BY DEF GetAudit, AuditOf
<1>5. GetAudit(id, 100) = Selected(audit, S)
    BY <1>3, <1>4, ShortPage
<1>6. ASSUME NEW i \in DOMAIN audit, audit[i] = Event(e, id) PROVE i \in S
    BY <1>6 DEF Event
<1> HIDE DEF S
<1>7. \E i \in S : audit[i] = Event(e, id)
    BY <1>6 DEF ToSet
<1> QED  BY <1>2, <1>5, <1>7

\* What was announced is in the log, was refused, or is older than the newest
\* that the log holds.
LEMMA RecordKept ==
  ASSUME LogInv, NEW r \in ToSet(announced)
  PROVE  r \in ToSet(audit) \/ (IF Postgres THEN r \in refused ELSE Outdated(r))
<1>1. CASE Postgres
    BY <1>1 DEF LogInv
<1>2. CASE ~Postgres /\ r \notin ToSet(audit)
  <2> DEFINE a == Len(announced)
             l == Len(audit)
  <2>1. /\ a \in Nat /\ l \in Nat /\ DOMAIN announced = 1 .. a /\ DOMAIN audit = 1 .. l
        /\ MaxAudit \in Nat
      BY RunOf, StorageAssumption DEF LogInv, IsRun
  <2>2. /\ l <= a /\ (l = a \/ l = MaxAudit)
        /\ \A k \in 1 .. l : audit[k] = announced[a - l + k]
      BY <1>2 DEF LogInv, Newest
  <2> HIDE DEF a, l
  <2>3. ASSUME NEW n \in 1 .. a, announced[n] = r PROVE n + MaxAudit <= a
    <3>1. CASE n > a - l
      <4>1. n - (a - l) \in 1 .. l /\ a - l + (n - (a - l)) = n
          BY <2>1, <2>2, <3>1
      <4>2. audit[n - (a - l)] = r
          BY <2>2, <2>3, <4>1
      <4> QED  BY <1>2, <2>1, <4>1, <4>2 DEF ToSet
    <3>2. CASE n <= a - l
        BY <2>1, <2>2, <3>2
    <3> QED  BY <2>1, <3>1, <3>2
  <2> QED  BY <1>2, <2>1, <2>3 DEF Outdated, a
<1> QED  BY <1>1, <1>2

\* What the API shows: for each stored threat the creation, the score and the
\* report are among the audit records a client gets, and for each verdict a process
\* returns the analyst's action; only a failed call of the database takes one away,
\* and in memory max_size newer ones.
THEOREM ReadersSeeDecisions == Spec => []AuditedBeforeStored
<1>1. PipelineInv /\ LogInv /\ AuditInv => AuditedBeforeStored
  <2> SUFFICES ASSUME PipelineInv, LogInv, AuditInv, NEW id \in IdsOf(threats),
                      Len(GetAudit(id, 100)) < 100, NEW r \in DueRecords(id)
               PROVE  /\ r \in ToSet(announced)
                      /\ \/ r \in ToSet(GetAudit(id, 100))
                         \/ IF Postgres THEN r \in refused ELSE Outdated(r)
      BY Zenon DEF AuditedBeforeStored, LogInv
  <2>1. id \in Nat \ {0}
      BY DEF PipelineInv, StoreInv, IdsOf
  <2>2. ASSUME NEW w \in Workers, GetFeedback(w, id) # <<>> PROVE Announced("ANALYST_ACTION", id)
    <3> DEFINE S == {i \in DOMAIN verdicts[w] : verdicts[w][i].id = id}
               sel == Selected(verdicts[w], S)
    <3>1. VerdictsInv(w) /\ IsRun(verdicts[w])
        BY DEF AuditInv, VerdictsInv
    <3>2. /\ IsFiniteSet(S) /\ IsRun(sel) /\ Len(sel) = Cardinality(S)
        BY <3>1, SelectedRows
    <3>3. sel # <<>>
        BY <2>2 DEF GetFeedback, FeedbackFor
    <3> HIDE DEF sel
    <3>4. Len(sel) # 0
        BY <3>2, <3>3 DEF IsRun
    <3>5. S # {}
        BY <3>2, <3>4, FS_EmptySet
    <3> QED  BY <3>1, <3>5 DEF VerdictsInv
  <2>3. PICK e : r = Event(e, id) /\ Announced(e, id)
      BY <2>2 DEF DueRecords, AuditInv
  <2>4. r \in ToSet(announced)
      BY <2>3 DEF Announced, Log
  <2>5. r \in ToSet(audit) \/ (IF Postgres THEN r \in refused ELSE Outdated(r))
      BY <2>4, RecordKept
  <2>6. r \in ToSet(audit) => r \in ToSet(GetAudit(id, 100))
      BY <2>1, <2>3, ReaderSees DEF LogInv
  <2> QED  BY <2>4, <2>5, <2>6
<1> QED  BY <1>1, LogStep, InitLogInv, AuditStep, InitAuditInv, PipelineInvariance, PTL DEF Spec

-----------------------------------------------------------------------------
(* Threats and their scores *)

\* A threat has a score, the one its group got, and nothing else has: what
\* /threats/{id}, the list and the metrics join.
ScoresMatch ==
  /\ DOMAIN scores = IdsOf(threats)
  /\ \A i \in DOMAIN threats :
       LET s == scores[threats[i].id] IN
       /\ s.id = threats[i].id
       /\ s.tier = GroupTier[threats[i].group]
       /\ s.value = Value[s.tier]

\* The threat and its score go in together, under an id that is new.
LEMMA StoreMatches ==
  ASSUME PipelineInv, ScoresMatch, NEW w \in Workers, StoreThreat(w)
  PROVE  ScoresMatch'
<1> DEFINE p == job[w].pending
           t == Head(p)
           score == [id |-> t.id, tier |-> GroupTier[t.group], value |-> Value[GroupTier[t.group]],
                     mission |-> 1]
<1>1. /\ job[w].at = "store"
      /\ \/ UNCHANGED <<threats, scores>>
         \/ /\ threats' = IF Postgres THEN PostgresSaveThreat(threats, t)
                                      ELSE MemorySaveThreat(threats, t)
            /\ scores' = IF Postgres THEN PostgresSaveScore(scores, score)
                                     ELSE MemorySaveScore(scores, score)
    BY DEF StoreThreat
<1>2. CASE UNCHANGED <<threats, scores>>
    BY <1>2 DEF ScoresMatch, IdsOf
<1>3. CASE /\ threats' = IF Postgres THEN PostgresSaveThreat(threats, t)
                                     ELSE MemorySaveThreat(threats, t)
           /\ scores' = IF Postgres THEN PostgresSaveScore(scores, score)
                                    ELSE MemorySaveScore(scores, score)
  <2>1. /\ IsRun(p) /\ p # <<>> /\ IsRun(threats)
        /\ \A id \in Due(w) : id \notin IdsOf(threats)
      BY <1>1 DEF PipelineInv, JobInv, StoreInv, Deciding
  <2>2. t.id \in Due(w)
    <3>1. Len(p) \in Nat \ {0} /\ DOMAIN p = 1 .. Len(p) /\ t = p[1]
        BY <2>1, TailRun
    <3>2. 1 \in DOMAIN p
        BY <3>1
    <3> QED  BY <3>1, <3>2 DEF Due
  <2>3. threats' = Append(threats, t) /\ t.id \notin IdsOf(threats)
      BY <1>3, <2>1, <2>2 DEF PostgresSaveThreat, MemorySaveThreat
  <2>4. PICK s : /\ scores' = [id \in DOMAIN scores \cup {t.id} |-> IF id = t.id THEN s ELSE scores[id]]
                 /\ s.id = t.id /\ s.tier = GroupTier[t.group] /\ s.value = Value[s.tier]
    <3> DEFINE row == IF Postgres THEN ScoreRow(score) ELSE score
    <3>1. scores' = MemorySaveScore(scores, row)
        BY <1>3 DEF PostgresSaveScore
    <3>2. row.id = t.id /\ row.tier = GroupTier[t.group] /\ row.value = Value[GroupTier[t.group]]
      <4> HIDE DEF t
      <4>1. CASE Postgres
          BY <4>1 DEF ScoreRow
      <4>2. CASE ~Postgres
          BY <4>2
      <4> QED  BY <4>1, <4>2
    <3> HIDE DEF row, t
    <3>3. scores' = [id \in DOMAIN scores \cup {row.id} |-> IF id = row.id THEN row ELSE scores[id]]
        BY <3>1 DEF MemorySaveScore
    <3> QED  BY <3>2, <3>3
  <2> HIDE DEF p, t, score
  <2>5. /\ DOMAIN threats' = 1 .. Len(threats) + 1 /\ Len(threats) \in Nat
        /\ DOMAIN threats = 1 .. Len(threats)
        /\ threats'[Len(threats) + 1] = t
    <3> HIDE DEF PipelineInv
    <3> QED  BY <2>1, <2>3, AppendRun
  <2>6. \A i \in DOMAIN threats : threats'[i] = threats[i]
      BY <2>1, <2>3, AppendRun
  <2>7. IdsOf(threats') = IdsOf(threats) \cup {t.id}
      BY <2>1, <2>3, AppendIds
  <2>8. \A i \in DOMAIN threats' : i \in DOMAIN threats \/ i = Len(threats) + 1
      BY <2>5
  <2>9. DOMAIN scores' = IdsOf(threats')
      BY <2>4, <2>7 DEF ScoresMatch
  <2>10. ASSUME NEW i \in DOMAIN threats'
         PROVE  LET r == scores'[threats'[i].id] IN
                /\ r.id = threats'[i].id
                /\ r.tier = GroupTier[threats'[i].group]
                /\ r.value = Value[r.tier]
    <3>1. CASE i = Len(threats) + 1
        BY <3>1, <2>4, <2>5
    <3>2. CASE i \in DOMAIN threats
      <4>1. threats'[i] = threats[i] /\ threats[i].id \in IdsOf(threats)
          BY <3>2, <2>6 DEF IdsOf
      <4>2. scores'[threats[i].id] = scores[threats[i].id]
          BY <2>3, <2>4, <4>1 DEF ScoresMatch
      <4> QED  BY <3>2, <4>1, <4>2 DEF ScoresMatch
    <3> QED  BY <2>8, <3>1, <3>2
  <2> QED  BY <2>9, <2>10 DEF ScoresMatch
<1> QED  BY <1>1, <1>2, <1>3

\* Whatever fails: each stored threat has the score of its group, each score a
\* stored threat, as the repository stores the two in one call.
THEOREM ThreatsAreScored == Spec => []ScoresMatch
<1>1. Init => ScoresMatch
    BY EmptyRun DEF Init, ScoresMatch, IdsOf
<1>2. PipelineInv /\ ScoresMatch /\ [Next]_vars => ScoresMatch'
  <2> SUFFICES ASSUME PipelineInv, ScoresMatch, [Next]_vars PROVE ScoresMatch'
      OBVIOUS
  <2>1. ASSUME UNCHANGED <<threats, scores>> PROVE ScoresMatch'
      BY <2>1 DEF ScoresMatch, IdsOf
  <2>2. CASE Migrate \/ UNCHANGED vars
      BY <2>1, <2>2 DEF Migrate, vars, stores
  <2>3. ASSUME NEW w \in Workers,
               \/ \E key \in DOMAIN keys[w] :
                    \/ \E s \in Submissions, runNow \in BOOLEAN : SubmitAlerts(w, key, s, runNow)
                    \/ \E id \in IdsOf(threats), v \in Verdicts : SubmitFeedback(w, key, id, v)
                    \/ \E role \in NewRoles : CreateApiKey(w, key, role)
               \/ \E s \in Submissions : Demo(w, s)
               \/ RunPipeline(w) \/ SaveAlert(w) \/ Correlate(w) \/ Score(w) \/ Report(w)
        PROVE  UNCHANGED <<threats, scores>>
      BY <2>3 DEF SubmitAlerts, SubmitFeedback, CreateApiKey, Demo, RunPipeline, SaveAlert,
                  Correlate, Score, Report, stores
  <2>4. ASSUME NEW w \in Workers, Restart(w) PROVE ScoresMatch'
    <3>1. CASE Postgres
        BY <2>1, <2>4, <3>1 DEF Restart, stores
    <3>2. CASE ~Postgres
      <4>1. threats' = <<>> /\ scores' = <<>>
          BY <2>4, <3>2 DEF Restart
      <4> QED  BY <4>1, EmptyRun DEF ScoresMatch, IdsOf
    <3> QED  BY <3>1, <3>2
  <2> QED  BY <2>1, <2>2, <2>3, <2>4, StoreMatches DEF Next
<1> QED  BY <1>1, <1>2, PipelineInvariance, PTL DEF Spec
-----------------------------------------------------------------------------
(* What the lists show *)

\* An alert has an id that is known, and a threat is of a group that is.
IsAlert(a) == "id" \in DOMAIN a /\ a.id \in AlertId
IsThreat(t) == "id" \in DOMAIN t /\ t.group \in Groups

AllAlerts(rows) == \A i \in DOMAIN rows : IsAlert(rows[i])
AllThreats(rows) == \A i \in DOMAIN rows : IsThreat(rows[i])

WorkInv(w) == AllAlerts(job[w].todo) /\ AllAlerts(job[w].batch) /\ AllThreats(job[w].pending)

RowsInv == AllAlerts(alerts) /\ AllThreats(threats) /\ \A w \in Workers : WorkInv(w)

\* A worker without a run has no rows.
LEMMA IdleHasNone ==
  ASSUME NEW w, job'[w] = Idle
  PROVE  WorkInv(w)'
<1>1. job'[w].todo = <<>> /\ job'[w].batch = <<>> /\ job'[w].pending = <<>>
    BY DEF Idle
<1> QED  BY <1>1, EmptyRun DEF WorkInv, AllAlerts, AllThreats

\* A step of one worker.
LEMMA RowsKept ==
  ASSUME RowsInv, NEW w \in Workers, \A v \in Workers \ {w} : job'[v] = job[v],
         AllAlerts(alerts'), AllThreats(threats'), WorkInv(w)'
  PROVE  RowsInv'
<1>1. \A v \in Workers : v # w => WorkInv(v)'
    BY DEF RowsInv, WorkInv
<1> QED  BY <1>1 DEF RowsInv

\* The most recent alerts are alerts.
LEMMA RecentRows ==
  ASSUME PipelineInv, RowsInv, NEW limit \in Nat
  PROVE  AllAlerts(RecentAlerts(limit, 0))
<1> DEFINE r == Reverse(alerts)
           n == IF 0 + limit < Len(r) THEN 0 + limit ELSE Len(r)
           page == SubSeq(r, 0 + 1, n)
<1>1. IsRun(alerts) /\ Len(alerts) \in Nat /\ DOMAIN alerts = 1 .. Len(alerts)
    BY RunOf DEF PipelineInv, StoreInv, IsRun
<1>2. r = [i \in 1 .. Len(alerts) |-> alerts[(Len(alerts) - i) + 1]]
    BY <1>1 DEF Reverse
<1>3. \A i \in 1 .. Len(alerts) : IsAlert(r[i])
  <2> SUFFICES ASSUME NEW i \in 1 .. Len(alerts) PROVE IsAlert(r[i])
      OBVIOUS
  <2>1. (Len(alerts) - i) + 1 \in DOMAIN alerts
      BY <1>1
  <2> QED  BY <1>2, <2>1 DEF RowsInv, AllAlerts
<1>4. r = [i \in 1 .. Len(alerts) |-> r[i]]
    BY <1>2
<1> HIDE DEF r
<1>5. IsRun(r) /\ Len(r) = Len(alerts) /\ r \in Seq(ToSet(r))
    BY <1>1, <1>4, RunFrom DEF IsRun
<1>6. n \in Nat /\ n <= Len(r)
    BY <1>1, <1>5
<1> HIDE DEF n
<1>7. DOMAIN page = 1 .. n /\ \A i \in 1 .. n : i \in 1 .. Len(alerts) /\ page[i] = r[i]
    BY <1>1, <1>5, <1>6
<1>8. MemoryRecentAlerts(alerts, limit, 0) = page
    BY DEF MemoryRecentAlerts, Page, r, n
<1>9. PostgresRecentAlerts(alerts, limit, 0) = [i \in DOMAIN page |-> RowToAlert(page[i])]
    BY DEF PostgresRecentAlerts, Page, r, n
<1> HIDE DEF page
<1>10. \A i \in DOMAIN page : IsAlert(page[i]) /\ IsAlert(RowToAlert(page[i]))
    BY <1>3, <1>7 DEF IsAlert, RowToAlert
<1> QED  BY <1>8, <1>9, <1>10 DEF RecentAlerts, AllAlerts

\* What a request hands to a run are alerts.
LEMMA RequestRows ==
  ASSUME PipelineInv, RowsInv, NEW w \in Workers,
         \/ \E key \in DOMAIN keys[w], s \in Submissions, runNow \in BOOLEAN :
              SubmitAlerts(w, key, s, runNow)
         \/ \E s \in Submissions : Demo(w, s)
         \/ RunPipeline(w)
  PROVE  RowsInv'
<1>1. \E at, batch, runs : Start(w, at, batch, runs) /\ AllAlerts(batch)
  <2>1. ASSUME NEW s \in Submissions
        PROVE  AllAlerts([i \in DOMAIN Ingested(s) |->
                            [id |-> Ingested(s)[i].id, data |-> Ingested(s)[i].version,
                             tags |-> Ingested(s)[i].version, geo |-> TRUE]])
    <3> DEFINE q == Ingested(s)
    <3>1. q \in Seq([id : AlertId, version : Nat, valid : {TRUE}])
        BY PipelineAssumption
    <3> HIDE DEF q
    <3>2. \A i \in DOMAIN q : q[i].id \in AlertId
      <4> DEFINE A == [id : AlertId, version : Nat, valid : {TRUE}]
      <4>1. \A x \in A : x.id \in AlertId
          OBVIOUS
      <4>2. q \in Seq(A)
          BY <3>1
      <4> HIDE DEF A
      <4>3. \A i \in DOMAIN q : q[i] \in A
          BY <4>2
      <4> QED  BY <4>1, <4>3
    <3> QED  BY <3>2 DEF AllAlerts, IsAlert, q
  <2>2. ASSUME NEW key, NEW s \in Submissions, NEW runNow, SubmitAlerts(w, key, s, runNow)
        PROVE  \E at, batch, runs : Start(w, at, batch, runs) /\ AllAlerts(batch)
      BY <2>1, <2>2, Zenon DEF SubmitAlerts
  <2>3. ASSUME NEW s \in Submissions, Demo(w, s)
        PROVE  \E at, batch, runs : Start(w, at, batch, runs) /\ AllAlerts(batch)
      BY <2>1, <2>3, Zenon DEF Demo
  <2>4. ASSUME RunPipeline(w)
        PROVE  \E at, batch, runs : Start(w, at, batch, runs) /\ AllAlerts(batch)
    <3>1. AllAlerts(RecentAlerts(RunLimit, 0))
        BY RecentRows, PipelineAssumption
    <3> QED  BY <2>4, <3>1, Zenon DEF RunPipeline
  <2> QED  BY <2>2, <2>3, <2>4
<1>2. UNCHANGED <<alerts, threats>>
    BY DEF SubmitAlerts, Demo, RunPipeline, stores
<1>3. PICK at, batch, runs : Start(w, at, batch, runs) /\ AllAlerts(batch)
    BY <1>1
<1>4. /\ job'[w] = [at |-> at, todo |-> batch, batch |-> batch, pending |-> <<>>, runs |-> runs]
      /\ \A v \in Workers \ {w} : job'[v] = job[v]
    BY <1>3 DEF Start, PipelineInv
<1>5. WorkInv(w)'
    BY <1>3, <1>4, EmptyRun DEF WorkInv, AllAlerts, AllThreats
<1> QED  BY <1>2, <1>4, <1>5, RowsKept DEF RowsInv, AllAlerts, AllThreats

\* What is stored of an alert is one.
LEMMA SavedRows ==
  ASSUME IsRun(alerts), AllAlerts(alerts), NEW a, IsAlert(a), alerts' = SaveAlertRow(a)
  PROVE  AllAlerts(alerts')
<1> DEFINE k == RowNumber(alerts, a.id)
           stored == IF a.id \in IdsOf(alerts) THEN [alerts EXCEPT ![k] = a]
                                               ELSE Append(alerts, a)
<1>1. ASSUME NEW x, IsAlert(x)
      PROVE  /\ IsRun([alerts EXCEPT ![k] = x]) /\ AllAlerts([alerts EXCEPT ![k] = x])
             /\ IsRun(Append(alerts, x)) /\ AllAlerts(Append(alerts, x))
  <2>1. AllAlerts([alerts EXCEPT ![k] = x])
      BY <1>1 DEF AllAlerts
  <2>2. IsRun([alerts EXCEPT ![k] = x])
    <3>1. CASE k \in DOMAIN alerts
        BY <3>1, ReplaceRun
    <3>2. CASE k \notin DOMAIN alerts
      <4>1. DOMAIN alerts = 1 .. Len(alerts) /\ Len(alerts) \in Nat
          BY RunOf DEF IsRun
      <4>2. [alerts EXCEPT ![k] = x] = alerts
          BY <3>2, <4>1 DEF IsRun
      <4> QED  BY <4>2
    <3> QED  BY <3>1, <3>2
  <2> DEFINE t == Append(alerts, x)
  <2>3. /\ IsRun(t) /\ DOMAIN t = 1 .. Len(alerts) + 1 /\ Len(alerts) \in Nat
        /\ DOMAIN alerts = 1 .. Len(alerts)
        /\ t[Len(alerts) + 1] = x
      BY AppendRun
  <2>4. \A i \in DOMAIN alerts : t[i] = alerts[i]
      BY AppendRun
  <2> HIDE DEF t
  <2>5. \A i \in DOMAIN t : i \in DOMAIN alerts \/ i = Len(alerts) + 1
      BY <2>3
  <2>6. AllAlerts(t)
      BY <1>1, <2>3, <2>4, <2>5 DEF AllAlerts
  <2> QED  BY <2>1, <2>2, <2>3, <2>6 DEF t
<1>2. CASE Postgres
  <2>1. CASE a.id \in IdsOf(alerts)
    <3> DEFINE x == [alerts[k] EXCEPT !.tags = a.tags]
    <3>1. alerts' = [alerts EXCEPT ![k] = x]
        BY <1>2, <2>1 DEF SaveAlertRow, PostgresSaveAlert
    <3>2. IsAlert(alerts[k])
        BY <2>1, RowOf DEF AllAlerts
    <3>3. IsAlert(x)
        BY <3>2 DEF IsAlert
    <3> HIDE DEF x, k
    <3> QED  BY <1>1, <3>1, <3>3
  <2>2. CASE a.id \notin IdsOf(alerts)
    <3>1. alerts' = Append(alerts, AlertRow(a)) /\ IsAlert(AlertRow(a))
        BY <1>2, <2>2 DEF SaveAlertRow, PostgresSaveAlert, AlertRow, IsAlert
    <3> QED  BY <1>1, <3>1
  <2> QED  BY <2>1, <2>2
<1>3. CASE ~Postgres
  <2>1. alerts' = IF Len(stored) > MaxAlerts THEN Tail(stored) ELSE stored
      BY <1>3 DEF SaveAlertRow, MemorySaveAlert
  <2>2. IsRun(stored) /\ AllAlerts(stored)
      BY <1>1
  <2> HIDE DEF stored
  <2>3. Len(stored) > MaxAlerts => stored # <<>>
    <3>1. MaxAlerts \in Nat /\ Len(<<>>) = 0
        BY StorageAssumption
    <3> QED  BY <3>1
  <2>4. stored # <<>> => AllAlerts(Tail(stored))
    <3>1. stored # <<>> => \A i \in DOMAIN Tail(stored) :
                             i + 1 \in DOMAIN stored /\ Tail(stored)[i] = stored[i + 1]
        BY <2>2, TailRun
    <3> QED  BY <2>2, <3>1 DEF AllAlerts
  <2> QED  BY <2>1, <2>2, <2>3, <2>4
<1> QED  BY <1>2, <1>3

\* What is left of a batch are alerts.
LEMMA SaveRows ==
  ASSUME PipelineInv, RowsInv, NEW w \in Workers, SaveAlert(w)
  PROVE  RowsInv'
<1> DEFINE j == job[w]
           rest == Tail(j.todo)
           a == Head(j.todo)
<1>1. /\ DOMAIN job = Workers /\ DOMAIN j = JobFields /\ j.todo # <<>> /\ IsRun(j.todo)
      /\ WorkInv(w) /\ threats' = threats /\ IsRun(alerts)
    BY DEF SaveAlert, PipelineInv, JobInv, StoreInv, Saving, RowsInv
<1>2. IsAlert(a) /\ AllAlerts(rest)
  <2> DEFINE q == j.todo
  <2>1. AllAlerts(q) /\ IsRun(q) /\ q # <<>>
      BY <1>1 DEF WorkInv
  <2> HIDE DEF q
  <2>2. /\ Len(q) \in Nat \ {0} /\ DOMAIN q = 1 .. Len(q) /\ Head(q) = q[1]
        /\ \A i \in DOMAIN Tail(q) : i + 1 \in DOMAIN q /\ Tail(q)[i] = q[i + 1]
      BY <2>1, TailRun
  <2>3. 1 \in DOMAIN q
      BY <2>2
  <2>4. IsAlert(Head(q)) /\ AllAlerts(Tail(q))
      BY <2>1, <2>2, <2>3 DEF AllAlerts
  <2> QED  BY <2>4 DEF q
<1> HIDE DEF rest, a
<1>3. /\ alerts' = alerts \/ alerts' = SaveAlertRow(a)
      /\ \/ job' = [job EXCEPT ![w] = Idle]
         \/ job' = [job EXCEPT ![w] = [j EXCEPT !.todo = rest]]
         \/ job' = [job EXCEPT ![w] = [j EXCEPT !.at = "correlate", !.todo = <<>>]]
         \/ job' = [job EXCEPT ![w] = [j EXCEPT !.at = "persist", !.todo = j.batch]]
    BY DEF SaveAlert, Raise, rest, a
<1>4. AllAlerts(alerts')
    BY <1>1, <1>2, <1>3, SavedRows DEF RowsInv
<1>5. WorkInv(w)'
  <2>1. CASE job' = [job EXCEPT ![w] = Idle]
      BY <1>1, <2>1, IdleHasNone
  <2>2. ASSUME NEW x, job' = [job EXCEPT ![w] = x], x.batch = j.batch, x.pending = j.pending,
               AllAlerts(x.todo)
        PROVE  WorkInv(w)'
      BY <1>1, <2>2 DEF WorkInv
  <2>3. AllAlerts(<<>>)
      BY EmptyRun DEF AllAlerts
  <2>4. AllAlerts(j.batch)
      BY <1>1 DEF WorkInv
  <2> HIDE DEF j
  <2>5. CASE job' = [job EXCEPT ![w] = [j EXCEPT !.todo = rest]]
    <3> DEFINE x == [j EXCEPT !.todo = rest]
    <3>1. x.batch = j.batch /\ x.pending = j.pending /\ x.todo = rest
        BY <1>1 DEF JobFields
    <3> HIDE DEF x
    <3> QED  BY <1>2, <2>2, <2>5, <3>1 DEF x
  <2>6. CASE job' = [job EXCEPT ![w] = [j EXCEPT !.at = "correlate", !.todo = <<>>]]
    <3> DEFINE x == [j EXCEPT !.at = "correlate", !.todo = <<>>]
    <3>1. x.batch = j.batch /\ x.pending = j.pending /\ x.todo = <<>>
        BY <1>1 DEF JobFields
    <3> HIDE DEF x
    <3> QED  BY <2>2, <2>3, <2>6, <3>1 DEF x
  <2>7. CASE job' = [job EXCEPT ![w] = [j EXCEPT !.at = "persist", !.todo = j.batch]]
    <3> DEFINE x == [j EXCEPT !.at = "persist", !.todo = j.batch]
    <3>1. x.batch = j.batch /\ x.pending = j.pending /\ x.todo = j.batch
        BY <1>1 DEF JobFields
    <3> HIDE DEF x
    <3> QED  BY <2>2, <2>4, <2>7, <3>1 DEF x
  <2> QED  BY <1>3, <2>1, <2>5, <2>6, <2>7
<1>6. \A v \in Workers \ {w} : job'[v] = job[v]
    BY <1>1, <1>3
<1> QED  BY <1>1, <1>4, <1>5, <1>6, RowsKept DEF RowsInv, AllThreats

\* A new threat is of the group of an alert.
LEMMA CorrelateRows ==
  ASSUME PipelineInv, RowsInv, NEW w \in Workers, Correlate(w)
  PROVE  RowsInv'
<1> DEFINE j == job[w]
           ids == IdsOf(j.batch)
           G == {Group[id] : id \in ids}
           n == Cardinality(G)
           groups == SetToSeq(G)
           new == [i \in DOMAIN groups |->
                     [id |-> nextId + i, alerts |-> {id \in ids : Group[id] = groups[i]},
                      group |-> groups[i], status |-> "OPEN", methods |-> {"IOC_MATCH"}]]
<1>1. /\ j.at = "correlate" /\ UNCHANGED <<alerts, threats>>
      /\ job' = [job EXCEPT ![w].at = "score", ![w].pending = new]
    BY DEF Correlate, stores
<1>2. /\ DOMAIN job = Workers /\ DOMAIN j = JobFields /\ IsRun(j.batch) /\ j.batch # <<>>
      /\ WorkInv(w)
    BY <1>1 DEF PipelineInv, JobInv, RowsInv
<1>3. G \subseteq Groups
    BY <1>2 DEF WorkInv, AllAlerts, IsAlert, IdsOf, Groups
<1>4. groups \in [1 .. n -> G]
    BY <1>2, GroupsListed
<1> HIDE DEF n, groups, G
<1>5. AllThreats(new)
    BY <1>3, <1>4 DEF AllThreats, IsThreat
<1> HIDE DEF new
<1>6. /\ job'[w].todo = j.todo /\ job'[w].batch = j.batch /\ job'[w].pending = new
      /\ \A v \in Workers \ {w} : job'[v] = job[v]
    BY <1>1, <1>2 DEF JobFields
<1>7. WorkInv(w)'
    BY <1>2, <1>5, <1>6 DEF WorkInv
<1> QED  BY <1>1, <1>6, <1>7, RowsKept DEF RowsInv, AllAlerts, AllThreats

\* A threat goes from the run to the repository.
LEMMA StoreRows ==
  ASSUME PipelineInv, RowsInv, NEW w \in Workers, StoreThreat(w)
  PROVE  RowsInv'
<1> DEFINE j == job[w]
           p == j.pending
           t == Head(p)
<1>1. /\ j.at = "store" /\ alerts' = alerts
      /\ \/ Raise(w) /\ threats' = threats
         \/ /\ threats' = IF Postgres THEN PostgresSaveThreat(threats, t)
                                      ELSE MemorySaveThreat(threats, t)
            /\ job' = [job EXCEPT ![w] = IF Len(p) = 1 THEN Idle
                         ELSE [j EXCEPT !.at = "score", !.pending = Tail(p)]]
    BY DEF StoreThreat
<1>2. /\ DOMAIN job = Workers /\ DOMAIN j = JobFields /\ WorkInv(w) /\ AllThreats(threats)
      /\ IsRun(p) /\ p # <<>> /\ IsRun(threats) /\ AllThreats(p)
      /\ \A id \in Due(w) : id \notin IdsOf(threats)
    BY <1>1 DEF PipelineInv, JobInv, StoreInv, Deciding, RowsInv, WorkInv
<1>3. /\ Len(p) \in Nat \ {0} /\ DOMAIN p = 1 .. Len(p) /\ t = p[1]
      /\ \A i \in DOMAIN Tail(p) : i + 1 \in DOMAIN p /\ Tail(p)[i] = p[i + 1]
    BY <1>2, TailRun
<1>4. 1 \in DOMAIN p
    BY <1>3
<1>5. IsThreat(t) /\ t.id \in Due(w)
    BY <1>2, <1>3, <1>4 DEF AllThreats, Due
<1>6. AllThreats(Tail(p))
    BY <1>2, <1>3 DEF AllThreats
<1>7. threats' = threats \/ threats' = Append(threats, t)
    BY <1>1, <1>2, <1>5 DEF PostgresSaveThreat, MemorySaveThreat
<1> HIDE DEF p, t
<1>8. AllThreats(threats')
  <2> DEFINE s == Append(threats, t)
  <2>1. /\ DOMAIN s = 1 .. Len(threats) + 1 /\ Len(threats) \in Nat
        /\ DOMAIN threats = 1 .. Len(threats)
        /\ s[Len(threats) + 1] = t
      BY <1>2, AppendRun
  <2>2. \A i \in DOMAIN threats : s[i] = threats[i]
      BY <1>2, AppendRun
  <2> HIDE DEF s
  <2>3. \A i \in DOMAIN s : i \in DOMAIN threats \/ i = Len(threats) + 1
      BY <2>1
  <2>4. AllThreats(s)
      BY <1>2, <1>5, <2>1, <2>2, <2>3 DEF AllThreats
  <2> QED  BY <1>2, <1>7, <2>4 DEF s
<1>9. \A v \in Workers \ {w} : job'[v] = job[v]
    BY <1>1, <1>2 DEF Raise
<1>10. WorkInv(w)'
  <2>1. CASE job'[w] = Idle
      BY <2>1, IdleHasNone
  <2>2. CASE job'[w] = [j EXCEPT !.at = "score", !.pending = Tail(p)]
    <3>1. job'[w].todo = j.todo /\ job'[w].batch = j.batch /\ job'[w].pending = Tail(p)
      <4> HIDE DEF j
      <4> QED  BY <1>2, <2>2 DEF JobFields
    <3> QED  BY <1>2, <1>6, <3>1 DEF WorkInv
  <2> QED  BY <1>1, <1>2, <2>1, <2>2 DEF Raise
<1> QED  BY <1>1, <1>8, <1>9, <1>10, RowsKept DEF RowsInv, AllAlerts

\* Every step keeps the rows what they are.
LEMMA RowsStep == PipelineInv /\ RowsInv /\ [Next]_vars => RowsInv'
<1> SUFFICES ASSUME PipelineInv, RowsInv, [Next]_vars PROVE RowsInv'
    OBVIOUS
<1>1. ASSUME UNCHANGED <<alerts, threats, job>> PROVE RowsInv'
    BY <1>1 DEF RowsInv, AllAlerts, AllThreats, WorkInv
<1>2. ASSUME NEW w \in Workers, Score(w) \/ Report(w) PROVE RowsInv'
  <2>1. /\ UNCHANGED <<alerts, threats>>
        /\ \/ Raise(w) \/ job' = [job EXCEPT ![w].at = "report"]
           \/ job' = [job EXCEPT ![w].at = "store"]
      BY <1>2 DEF Score, Report, stores
  <2>2. DOMAIN job = Workers /\ DOMAIN job[w] = JobFields /\ WorkInv(w)
      BY DEF PipelineInv, JobInv, RowsInv
  <2>3. \A v \in Workers \ {w} : job'[v] = job[v]
      BY <2>1, <2>2 DEF Raise
  <2>4. WorkInv(w)'
    <3>1. CASE Raise(w)
        BY <2>2, <3>1, IdleHasNone DEF Raise
    <3>2. CASE ~Raise(w)
      <4>1. /\ job'[w].todo = job[w].todo /\ job'[w].batch = job[w].batch
            /\ job'[w].pending = job[w].pending
          BY <2>1, <2>2, <3>2 DEF JobFields
      <4> QED  BY <2>2, <4>1 DEF WorkInv
    <3> QED  BY <3>1, <3>2
  <2> QED  BY <2>1, <2>3, <2>4, RowsKept DEF RowsInv, AllAlerts, AllThreats
<1>3. ASSUME NEW w \in Workers, Restart(w) PROVE RowsInv'
  <2>1. /\ job' = [job EXCEPT ![w] = Idle]
        /\ UNCHANGED <<alerts, threats>> \/ (alerts' = <<>> /\ threats' = <<>>)
      BY <1>3 DEF Restart, stores
  <2>2. job'[w] = Idle /\ \A v \in Workers \ {w} : job'[v] = job[v]
      BY <2>1 DEF PipelineInv
  <2>3. AllAlerts(alerts') /\ AllThreats(threats')
      BY <2>1, EmptyRun DEF RowsInv, AllAlerts, AllThreats
  <2> QED  BY <2>2, <2>3, IdleHasNone, RowsKept
<1>4. CASE Migrate \/ UNCHANGED vars
    BY <1>1, <1>4 DEF Migrate, vars, stores
<1>5. ASSUME NEW w \in Workers,
             \/ \E key, id, v : SubmitFeedback(w, key, id, v)
             \/ \E key, role : CreateApiKey(w, key, role)
      PROVE  UNCHANGED <<alerts, threats, job>>
    BY <1>5 DEF SubmitFeedback, CreateApiKey, stores
<1> QED  BY <1>1, <1>2, <1>3, <1>4, <1>5, RequestRows, SaveRows, CorrelateRows, StoreRows DEF Next

\* What a client is told of the threat of an id.
EntryOf(id) == [id |-> id, score |-> IF id \in DOMAIN scores THEN scores[id].value ELSE 0,
                priority |-> IF id \in DOMAIN scores THEN scores[id].tier ELSE "UNKNOWN",
                hasBluf |-> ReportOf(id).found]

\* The numbers of the threats of a tier, and the order of the list.
Chosen(tier) == {i \in DOMAIN threats : tier = AnyTier \/ HasTier(scores, threats[i], tier)}
Ranking == Higher(threats, scores)
Ranked(tier) == InOrder(Chosen(tier), Ranking)

StoredInv == PipelineInv /\ ScoresMatch /\ RowsInv

\* A stored threat has a score, a natural number, and a tier.
LEMMA StoredScores ==
  ASSUME StoredInv, NEW i \in DOMAIN threats
  PROVE  /\ threats[i].id \in DOMAIN scores /\ scores[threats[i].id].tier \in Tier
         /\ ScoreValue(scores, threats[i]) = scores[threats[i].id].value
         /\ ScoreValue(scores, threats[i]) \in Nat
         /\ "id" \in DOMAIN threats[i]
<1>1. threats[i].id \in DOMAIN scores
    BY DEF StoredInv, ScoresMatch, IdsOf
<1>2. scores[threats[i].id].tier = GroupTier[threats[i].group]
      /\ scores[threats[i].id].value = Value[scores[threats[i].id].tier]
    BY DEF StoredInv, ScoresMatch
<1>3. threats[i].group \in Groups /\ "id" \in DOMAIN threats[i]
    BY DEF StoredInv, RowsInv, AllThreats, IsThreat
<1>4. GroupTier[threats[i].group] \in Tier
    BY <1>3, PipelineAssumption
<1>5. \A x \in Tier : Value[x] \in Nat
    BY DEF Tier, Value
<1> QED  BY <1>1, <1>2, <1>3, <1>4, <1>5 DEF ScoreValue

\* By score, and by number where scores are equal, is an order of the threats.
LEMMA RankingOrders ==
  ASSUME StoredInv, NEW S \in SUBSET DOMAIN threats
  PROVE  Orders(Ranking, S)
<1> DEFINE v(i) == ScoreValue(scores, threats[i])
<1>1. DOMAIN threats = 1 .. Len(threats) /\ Len(threats) \in Nat
    BY RunOf DEF StoredInv, PipelineInv, StoreInv, IsRun
<1>2. \A i \in S : v(i) \in Nat /\ i \in Nat
    BY <1>1, StoredScores
<1>3. \A i, k \in S : <<i, k>> \in Ranking <=> (v(i) > v(k) \/ (v(i) = v(k) /\ i < k))
    BY DEF Ranking, Higher
<1> HIDE DEF v
<1>4. \A i \in S : <<i, i>> \notin Ranking
    BY <1>2, <1>3
<1>5. \A i, j, k \in S : <<i, j>> \in Ranking /\ <<j, k>> \in Ranking => <<i, k>> \in Ranking
  <2> SUFFICES ASSUME NEW i \in S, NEW j \in S, NEW k \in S,
                      <<i, j>> \in Ranking, <<j, k>> \in Ranking
               PROVE  <<i, k>> \in Ranking
      OBVIOUS
  <2>1. v(i) \in Nat /\ v(j) \in Nat /\ v(k) \in Nat /\ i \in Nat /\ j \in Nat /\ k \in Nat
      BY <1>2
  <2>2. v(i) > v(k) \/ (v(i) = v(k) /\ i < k)
      BY <1>3, <2>1
  <2> QED  BY <1>3, <2>2
<1>6. \A i, j \in S : i = j \/ <<i, j>> \in Ranking \/ <<j, i>> \in Ranking
  <2> SUFFICES ASSUME NEW i \in S, NEW j \in S
               PROVE  i = j \/ <<i, j>> \in Ranking \/ <<j, i>> \in Ranking
      OBVIOUS
  <2>1. v(i) \in Nat /\ v(j) \in Nat /\ i \in Nat /\ j \in Nat
      BY <1>2
  <2> QED  BY <1>3, <2>1
<1> QED  BY <1>4, <1>5, <1>6 DEF Orders

\* The list of a tier has its threats, ranked, up to the limit.
LEMMA TierListed ==
  ASSUME StoredInv, NEW tier, NEW limit \in Nat
  PROVE  LET page == ByPriority(tier, limit, 0)
             n == Cardinality(Chosen(tier))
         IN /\ n \in Nat /\ Lists(Ranked(tier), Chosen(tier), Ranking)
            /\ DOMAIN page = 1 .. (IF limit < n THEN limit ELSE n)
            /\ \A k \in DOMAIN page : k \in 1 .. n /\ page[k].id = threats[Ranked(tier)[k]].id
<1> DEFINE S == Chosen(tier)
           n == Cardinality(S)
           f == Ranked(tier)
           rows == [k \in DOMAIN f |-> threats[f[k]]]
           m == IF 0 + limit < Len(rows) THEN 0 + limit ELSE Len(rows)
           page == SubSeq(rows, 0 + 1, m)
<1>1. DOMAIN threats = 1 .. Len(threats) /\ Len(threats) \in Nat
    BY RunOf DEF StoredInv, PipelineInv, StoreInv, IsRun
<1>2. S \in SUBSET DOMAIN threats
    BY DEF Chosen
<1>3. IsFiniteSet(S) /\ n \in Nat
  <2>1. 1 \in Int /\ Len(threats) \in Int
      BY <1>1
  <2>2. IsFiniteSet(DOMAIN threats)
      BY <1>1, <2>1, FS_Interval
  <2> QED  BY <1>2, <2>2, FS_Subset, FS_CardinalityType
<1>4. Lists(f, S, Ranking)
    BY <1>2, <1>3, RankingOrders, InOrderLists DEF Ranked
<1>5. f \in [1 .. n -> S]
    BY <1>4 DEF Lists
<1>6. MemoryByPriority(threats, scores, tier, limit, 0) = page
    BY DEF MemoryByPriority, Page, Ranked, Chosen, Ranking
<1> HIDE DEF f, n
<1>7. rows = [k \in 1 .. n |-> rows[k]] /\ \A k \in 1 .. n : rows[k] = threats[f[k]]
    BY <1>5
<1> HIDE DEF rows
<1>8. IsRun(rows) /\ Len(rows) = n /\ rows \in Seq(ToSet(rows))
    BY <1>3, <1>7, RunFrom DEF IsRun
<1>9. m = (IF limit < n THEN limit ELSE n) /\ m \in Nat /\ m <= Len(rows)
    BY <1>3, <1>8
<1> HIDE DEF m
<1>10. DOMAIN page = 1 .. m /\ \A k \in 1 .. m : k \in 1 .. n /\ page[k] = rows[k]
    BY <1>3, <1>8, <1>9
<1>11. PostgresByPriority(threats, scores, tier, limit, 0)
         = [k \in DOMAIN page |-> RowToThreat(page[k])]
    BY <1>6 DEF PostgresByPriority
<1> HIDE DEF page
<1>12. \A k \in 1 .. m : /\ page[k].id = threats[f[k]].id
                         /\ RowToThreat(page[k]).id = threats[f[k]].id
  <2> SUFFICES ASSUME NEW k \in 1 .. m
               PROVE  /\ page[k].id = threats[f[k]].id
                      /\ RowToThreat(page[k]).id = threats[f[k]].id
      OBVIOUS
  <2>1. page[k] = threats[f[k]] /\ f[k] \in DOMAIN threats
      BY <1>2, <1>5, <1>7, <1>10
  <2>2. "id" \in DOMAIN page[k]
      BY <2>1, StoredScores
  <2> QED  BY <2>1, <2>2 DEF RowToThreat
<1>13. /\ DOMAIN ByPriority(tier, limit, 0) = 1 .. m
       /\ \A k \in 1 .. m : ByPriority(tier, limit, 0)[k].id = threats[f[k]].id
    BY <1>6, <1>10, <1>11, <1>12 DEF ByPriority
<1> QED  BY <1>3, <1>4, <1>9, <1>10, <1>13 DEF n, f

\* So does the response.
LEMMA ResponseListed ==
  ASSUME StoredInv, NEW tier, NEW limit \in Nat
  PROVE  LET list == ListThreats(tier, limit, 0).threats
             n == Cardinality(Chosen(tier))
             m == IF limit < n THEN limit ELSE n
         IN /\ n \in Nat /\ Lists(Ranked(tier), Chosen(tier), Ranking)
            /\ list = [k \in 1 .. m |-> EntryOf(threats[Ranked(tier)[k]].id)]
            /\ IsRun(list) /\ Len(list) = m /\ DOMAIN list = 1 .. m
            /\ \A k \in 1 .. m : k \in 1 .. n /\ Ranked(tier)[k] \in Chosen(tier)
<1> DEFINE n == Cardinality(Chosen(tier))
           m == IF limit < n THEN limit ELSE n
           page == ByPriority(tier, limit, 0)
           list == ListThreats(tier, limit, 0).threats
<1>1. /\ n \in Nat /\ Lists(Ranked(tier), Chosen(tier), Ranking)
      /\ DOMAIN page = 1 .. m
      /\ \A k \in DOMAIN page : k \in 1 .. n /\ page[k].id = threats[Ranked(tier)[k]].id
    BY TierListed
<1>2. list = [k \in DOMAIN page |-> EntryOf(page[k].id)]
  <2> HIDE DEF page
  <2>1. list = [k \in DOMAIN page |->
                  [id |-> page[k].id, score |-> ScoreValue(scores, page[k]),
                   priority |-> IF page[k].id \in DOMAIN scores THEN scores[page[k].id].tier
                                ELSE "UNKNOWN",
                   hasBluf |-> ReportOf(page[k].id).found]]
      BY Zenon DEF ListThreats, page
  <2> HIDE DEF list
  <2> QED  BY <2>1, Zenon DEF EntryOf, ScoreValue
<1>3. m \in Nat
    BY <1>1
<1> HIDE DEF n, m, page, list
<1>4. list = [k \in 1 .. m |-> EntryOf(threats[Ranked(tier)[k]].id)]
    BY <1>1, <1>2
<1>5. list = [k \in 1 .. m |-> list[k]]
    BY <1>4
<1>6. IsRun(list) /\ Len(list) = m /\ DOMAIN list = 1 .. m
    BY <1>3, <1>5, RunFrom
<1>7. \A k \in 1 .. m : k \in 1 .. n
    BY <1>1
<1>8. \A k \in 1 .. m : Ranked(tier)[k] \in Chosen(tier)
    BY <1>1, <1>7 DEF Lists, n
<1> QED  BY <1>1, <1>4, <1>6, <1>7, <1>8 DEF n, m, list

\* All threats are chosen when none is asked for in particular.
LEMMA AllChosen ==
  ASSUME StoredInv
  PROVE  /\ Chosen(AnyTier) = DOMAIN threats /\ DOMAIN threats = 1 .. Len(threats)
         /\ Len(threats) \in Nat
         /\ Cardinality(Chosen(AnyTier)) = Len(threats) /\ IsFiniteSet(Chosen(AnyTier))
<1>1. Chosen(AnyTier) = DOMAIN threats /\ DOMAIN threats = 1 .. Len(threats)
      /\ Len(threats) \in Nat
    BY RunOf DEF StoredInv, PipelineInv, StoreInv, IsRun, Chosen
<1>2. Cardinality(1 .. Len(threats)) = Len(threats) /\ IsFiniteSet(1 .. Len(threats))
  <2>1. 1 \in Int /\ Len(threats) \in Int /\ (1 > Len(threats) => Len(threats) = 0)
        /\ Len(threats) - 1 + 1 = Len(threats)
      BY <1>1
  <2> QED  BY <2>1, FS_Interval
<1> QED  BY <1>1, <1>2

\* A filter gives what the full list shows of a tier.
LEMMA FilterAgrees ==
  ASSUME StoredInv, NEW limit \in Nat, Len(threats) <= limit, NEW tier \in Tier
  PROVE  LET all == ListThreats(AnyTier, limit, 0).threats
         IN ListThreats(tier, limit, 0).threats
              = Selected(all, {i \in DOMAIN all : all[i].priority = tier})
<1> DEFINE S == Chosen(AnyTier)
           T == Chosen(tier)
           N == Len(threats)
           f == Ranked(AnyTier)
           all == ListThreats(AnyTier, limit, 0).threats
           list == ListThreats(tier, limit, 0).threats
           P == {i \in DOMAIN all : all[i].priority = tier}
           less == {e \in P \X P : e[1] < e[2]}
           h == InOrder(P, less)
           sel == Selected(all, P)
<1>1. /\ S = DOMAIN threats /\ DOMAIN threats = 1 .. N /\ N \in Nat
      /\ Cardinality(S) = N /\ IsFiniteSet(S)
    BY AllChosen
<1>2. T \in SUBSET S /\ Orders(Ranking, S)
  <2>1. T \subseteq DOMAIN threats
      BY DEF Chosen
  <2>2. Orders(Ranking, DOMAIN threats)
      BY RankingOrders
  <2> QED  BY <1>1, <2>1, <2>2
<1>3. /\ Lists(f, S, Ranking) /\ all = [k \in 1 .. N |-> EntryOf(threats[f[k]].id)]
      /\ IsRun(all) /\ DOMAIN all = 1 .. N /\ \A k \in 1 .. N : f[k] \in S
  <2>0. Cardinality(S) = N /\ ~(limit < Cardinality(S))
    <3> HIDE DEF S
    <3> QED  BY <1>1
  <2>1. (IF limit < Cardinality(S) THEN limit ELSE Cardinality(S)) = N
      BY <2>0, Zenon
  <2>2. /\ Lists(f, S, Ranking)
        /\ all = [k \in 1 .. N |-> EntryOf(threats[f[k]].id)]
      BY <2>1, ResponseListed
  <2>3. IsRun(all) /\ DOMAIN all = 1 .. N
      BY <2>1, ResponseListed
  <2>4. \A k \in 1 .. N : f[k] \in S
      BY <1>1, <2>2 DEF Lists
  <2> QED  BY <2>2, <2>3, <2>4
<1>4. Cardinality(T) \in Nat /\ Cardinality(T) <= N
    BY <1>1, <1>2, FS_Subset, FS_CardinalityType
<1>5. list = [k \in 1 .. Cardinality(T) |-> EntryOf(threats[InOrder(T, Ranking)[k]].id)]
  <2>1. (IF limit < Cardinality(T) THEN limit ELSE Cardinality(T)) = Cardinality(T)
      BY <1>1, <1>4
  <2> QED  BY <2>1, ResponseListed DEF Ranked
<1> HIDE DEF list, all, f, N
<1>6. \A k \in 1 .. N : all[k].priority = tier <=> f[k] \in T
  <2> SUFFICES ASSUME NEW k \in 1 .. N PROVE all[k].priority = tier <=> f[k] \in T
      OBVIOUS
  <2>1. all[k] = EntryOf(threats[f[k]].id) /\ f[k] \in DOMAIN threats
      BY <1>1, <1>3
  <2>2. threats[f[k]].id \in DOMAIN scores
      BY <2>1, StoredScores
  <2>3. all[k].priority = scores[threats[f[k]].id].tier
      BY <2>1, <2>2 DEF EntryOf
  <2>4. tier # AnyTier
      BY DEF Tier, AnyTier
  <2> QED  BY <2>1, <2>2, <2>3, <2>4 DEF Chosen, HasTier
<1>7. /\ P \in SUBSET (1 .. Cardinality(S))
      /\ \A i \in 1 .. Cardinality(S) : i \in P <=> f[i] \in T
    BY <1>1, <1>3, <1>6
<1>8. P \in SUBSET DOMAIN all
    OBVIOUS
<1> HIDE DEF P, S, T
<1>9. DOMAIN sel = 1 .. Cardinality(P) /\ IsRun(sel)
    BY <1>3, <1>8, SelectedRows
<1>10. Lists(h, P, less)
    BY <1>3, <1>8, SelectedRows
<1>11. \A n \in DOMAIN sel : sel[n] = all[h[n]]
  <2>1. sel = [n \in DOMAIN h |-> all[h[n]]]
      BY Zenon DEF Selected
  <2> HIDE DEF sel, h
  <2> QED  BY <2>1
<1> HIDE DEF h
<1>12. /\ h \in [1 .. Cardinality(P) -> P]
       /\ \A i \in P : \E n \in 1 .. Cardinality(P) : h[n] = i
       /\ \A m, n \in 1 .. Cardinality(P) : m < n => h[m] < h[n]
    BY <1>10 DEF Lists
<1>13. /\ Cardinality(P) = Cardinality(T)
       /\ \A n \in 1 .. Cardinality(T) : f[h[n]] = InOrder(T, Ranking)[n]
  <2>1. IsFiniteSet(S) /\ Orders(Ranking, S) /\ Lists(f, S, Ranking) /\ T \in SUBSET S
      BY <1>1, <1>2, <1>3
  <2>2. Places(h, P, f, S, T)
      BY <1>7, <1>12 DEF Places
  <2> QED  BY <2>1, <2>2, FilterLists
<1> HIDE DEF sel, less
<1>14. \A n \in 1 .. Cardinality(T) : sel[n] = list[n]
  <2>1. \A n \in 1 .. Cardinality(P) : h[n] \in 1 .. N
      BY <1>3, <1>8, <1>12
  <2> QED  BY <1>3, <1>5, <1>9, <1>13, <1>11, <2>1
<1>15. sel = [n \in 1 .. Cardinality(T) |-> sel[n]]
    BY <1>9, <1>13, RunOf DEF IsRun
<1>16. list = [n \in 1 .. Cardinality(T) |-> list[n]]
    BY <1>5
<1>17. list = sel
    BY <1>14, <1>15, <1>16
<1> QED  BY <1>17 DEF list, sel, all, P

\* The threats of the four tiers are all threats with a tier.
LEMMA TiersAddUp ==
  ASSUME NEW ids, IsFiniteSet(ids), NEW tierOf, \A id \in ids : tierOf[id] \in Tier
  PROVE  LET count(tier) == Cardinality({id \in ids : tierOf[id] = tier})
         IN Cardinality(ids) = count("CRITICAL") + count("HIGH") + count("MEDIUM") + count("LOW")
<1> DEFINE of(tier) == {id \in ids : tierOf[id] = tier}
           a == of("CRITICAL")
           b == of("HIGH")
           c == of("MEDIUM")
           d == of("LOW")
<1>1. ids = ((a \cup b) \cup c) \cup d
    BY DEF Tier
<1>2. /\ a \cap b = {} /\ (a \cup b) \cap c = {} /\ ((a \cup b) \cup c) \cap d = {}
    OBVIOUS
<1>3. IsFiniteSet(a) /\ IsFiniteSet(b) /\ IsFiniteSet(c) /\ IsFiniteSet(d)
  <2>1. \A tier : of(tier) \in SUBSET ids
      OBVIOUS
  <2> HIDE DEF of
  <2> QED  BY <2>1, FS_Subset
<1> HIDE DEF a, b, c, d
<1>4. IsFiniteSet(a \cup b) /\ IsFiniteSet((a \cup b) \cup c)
    BY <1>3, FS_Union
<1>5. /\ Cardinality(a) \in Nat /\ Cardinality(b) \in Nat /\ Cardinality(c) \in Nat
      /\ Cardinality(d) \in Nat
    BY <1>3, FS_CardinalityType
<1>6. Cardinality(a \cup b) = Cardinality(a) + Cardinality(b)
  <2>1. Cardinality(a \cup b) = Cardinality(a) + Cardinality(b) - Cardinality(a \cap b)
      BY <1>3, FS_Union
  <2>2. Cardinality(a \cap b) = 0
      BY <1>2, FS_EmptySet
  <2> QED  BY <1>5, <2>1, <2>2
<1>7. Cardinality((a \cup b) \cup c) = Cardinality(a \cup b) + Cardinality(c)
  <2>1. Cardinality((a \cup b) \cup c)
          = Cardinality(a \cup b) + Cardinality(c) - Cardinality((a \cup b) \cap c)
      BY <1>3, <1>4, FS_Union
  <2>2. Cardinality((a \cup b) \cap c) = 0
      BY <1>2, FS_EmptySet
  <2> QED  BY <1>5, <1>6, <2>1, <2>2
<1>8. Cardinality(ids) = Cardinality((a \cup b) \cup c) + Cardinality(d)
  <2>1. Cardinality(((a \cup b) \cup c) \cup d)
          = Cardinality((a \cup b) \cup c) + Cardinality(d)
            - Cardinality(((a \cup b) \cup c) \cap d)
      BY <1>3, <1>4, FS_Union
  <2>2. Cardinality(((a \cup b) \cup c) \cap d) = 0
      BY <1>2, FS_EmptySet
  <2> QED  BY <1>1, <1>5, <1>6, <1>7, <2>1, <2>2
<1>9. Cardinality(ids) = Cardinality(a) + Cardinality(b) + Cardinality(c) + Cardinality(d)
    BY <1>5, <1>6, <1>7, <1>8
<1> QED  BY <1>9 DEF a, b, c, d

\* The metrics count each threat once, in its tier.
LEMMA MetricsAddUp ==
  ASSUME StoredInv, NEW limit \in Nat, Len(threats) <= limit
  PROVE  LET ids == IdsOf(ByPriority(AnyTier, limit, 0))
             count(tier) == Cardinality({id \in ids : id \in DOMAIN scores /\ scores[id].tier = tier})
         IN Len(threats) = count("CRITICAL") + count("HIGH") + count("MEDIUM") + count("LOW")
<1> DEFINE S == Chosen(AnyTier)
           N == Len(threats)
           f == Ranked(AnyTier)
           page == ByPriority(AnyTier, limit, 0)
           ids == IdsOf(page)
           idOf == [i \in 1 .. N |-> threats[i].id]
           tierOf == [id \in ids |-> scores[id].tier]
<1>1. /\ S = DOMAIN threats /\ DOMAIN threats = 1 .. N /\ N \in Nat
      /\ Cardinality(S) = N /\ IsFiniteSet(S)
    BY AllChosen
<1>2. /\ Lists(f, S, Ranking) /\ DOMAIN page = 1 .. N
      /\ \A k \in 1 .. N : page[k].id = threats[f[k]].id
  <2>0. Cardinality(S) = N /\ ~(limit < Cardinality(S))
    <3> HIDE DEF S
    <3> QED  BY <1>1
  <2>1. (IF limit < Cardinality(S) THEN limit ELSE Cardinality(S)) = N
      BY <2>0, Zenon
  <2>2. DOMAIN page = 1 .. N /\ \A k \in DOMAIN page : page[k].id = threats[f[k]].id
      BY <2>1, TierListed
  <2>3. Lists(f, S, Ranking)
      BY TierListed
  <2> QED  BY <2>2, <2>3
<1>3. f \in [1 .. N -> 1 .. N] /\ \A i \in 1 .. N : \E n \in 1 .. N : f[n] = i
    BY <1>1, <1>2 DEF Lists
<1> HIDE DEF f, N, page, S
<1>4. /\ \A i \in 1 .. N : threats[i].id \in ids
      /\ \A id \in ids : \E i \in 1 .. N : threats[i].id = id
  <2>1. ASSUME NEW i \in 1 .. N PROVE threats[i].id \in ids
    <3>1. PICK n \in 1 .. N : f[n] = i
        BY <1>3
    <3>2. page[n].id = threats[i].id /\ n \in DOMAIN page
        BY <1>2, <3>1
    <3> QED  BY <3>2 DEF IdsOf
  <2>2. ASSUME NEW id \in ids PROVE \E i \in 1 .. N : threats[i].id = id
    <3>1. PICK n \in DOMAIN page : page[n].id = id
        BY <2>2 DEF IdsOf
    <3>2. f[n] \in 1 .. N /\ threats[f[n]].id = id
        BY <1>2, <1>3, <3>1
    <3> QED  BY <3>2
  <2> QED  BY <2>1, <2>2
<1> HIDE DEF ids
<1>5. IdsDistinct(threats)
    BY DEF StoredInv, PipelineInv, StoreInv
<1>6. idOf \in Bijection(1 .. N, ids)
    BY <1>1, <1>4, <1>5 DEF Bijection, Injection, Surjection, IsInjective, IdsDistinct
<1>7. IsFiniteSet(1 .. N) /\ Cardinality(1 .. N) = N
    BY <1>1
<1> HIDE DEF idOf
<1>8. IsFiniteSet(ids) /\ Cardinality(ids) = N
  <2>1. ExistsBijection(1 .. N, ids)
      BY <1>6 DEF ExistsBijection
  <2> QED  BY <1>7, <2>1, FS_Bijection
<1>9. \A id \in ids : id \in DOMAIN scores /\ scores[id].tier \in Tier
    BY <1>1, <1>4, StoredScores
<1>10. \A id \in ids : tierOf[id] = scores[id].tier
    OBVIOUS
<1> HIDE DEF tierOf
<1>11. LET count(tier) == Cardinality({id \in ids : tierOf[id] = tier})
       IN Cardinality(ids) = count("CRITICAL") + count("HIGH") + count("MEDIUM") + count("LOW")
    BY <1>8, <1>9, <1>10, TiersAddUp
<1>12. \A tier : {id \in ids : tierOf[id] = tier}
                   = {id \in ids : id \in DOMAIN scores /\ scores[id].tier = tier}
    BY <1>9, <1>10
<1>13. LET count(tier) == Cardinality({id \in ids : id \in DOMAIN scores /\ scores[id].tier = tier})
       IN N = count("CRITICAL") + count("HIGH") + count("MEDIUM") + count("LOW")
    BY <1>8, <1>11, <1>12
<1> QED  BY <1>13 DEF N, ids, page

\* What the API counts, lists and filters: every stored threat has its score and
\* its tier; the tiers of the metrics add up to the total, the list is ranked and
\* complete up to its limit, and a filter shows what the full list shows.
THEOREM CountsAgree == Spec => []CountsAddUp
<1>1. StoredInv => CountsAddUp
  <2> SUFFICES ASSUME StoredInv PROVE CountsAddUp
      OBVIOUS
  <2> DEFINE N == Len(threats)
             S == Chosen(AnyTier)
             f == Ranked(AnyTier)
             all == ListThreats(AnyTier, 500, 0).threats
             total == ListThreats(AnyTier, 500, 0).total
             m == IF 500 < N THEN 500 ELSE N
  <2>1. /\ S = DOMAIN threats /\ DOMAIN threats = 1 .. N /\ N \in Nat
        /\ Cardinality(S) = N /\ IsFiniteSet(S)
      BY AllChosen
  <2>2. total = N /\ Health.threatsStored = N
      BY Zenon DEF ListThreats, Health
  <2>3. /\ Lists(f, S, Ranking) /\ DOMAIN all = 1 .. m /\ Len(all) = m
        /\ all = [k \in 1 .. m |-> EntryOf(threats[f[k]].id)]
        /\ \A k \in 1 .. m : k \in 1 .. N /\ f[k] \in S
    <3>1. (IF 500 < Cardinality(S) THEN 500 ELSE Cardinality(S)) = m
        BY <2>1, Zenon
    <3>2. all = [k \in 1 .. m |-> EntryOf(threats[f[k]].id)]
        BY <3>1, ResponseListed
    <3>3. Lists(f, S, Ranking) /\ DOMAIN all = 1 .. m /\ Len(all) = m
      <4>1. Lists(f, S, Ranking)
          BY ResponseListed
      <4>2. m \in Nat
          BY <2>1
      <4> HIDE DEF all, m
      <4>3. all = [k \in 1 .. m |-> all[k]]
          BY <3>2
      <4> QED  BY <4>1, <4>2, <4>3, RunFrom
    <3>4. \A k \in 1 .. m : k \in 1 .. N
        BY <2>1
    <3>5. \A k \in 1 .. m : f[k] \in S
        BY <2>1, <3>3, <3>4 DEF Lists
    <3> QED  BY <3>3, <3>2, <3>4, <3>5
  <2>4. Len(all) = IF total <= 500 THEN total ELSE 500
      BY <2>1, <2>2, <2>3
  <2>5. total <= 10000 =>
          total = Metrics.byTier["CRITICAL"] + Metrics.byTier["HIGH"]
                    + Metrics.byTier["MEDIUM"] + Metrics.byTier["LOW"]
    <3> SUFFICES ASSUME N <= 10000
                 PROVE  N = Metrics.byTier["CRITICAL"] + Metrics.byTier["HIGH"]
                              + Metrics.byTier["MEDIUM"] + Metrics.byTier["LOW"]
        BY <2>2
    <3> DEFINE ids == IdsOf(ByPriority(AnyTier, 10000, 0))
               count(tier) ==
                 Cardinality({id \in ids : id \in DOMAIN scores /\ scores[id].tier = tier})
    <3>1. N = count("CRITICAL") + count("HIGH") + count("MEDIUM") + count("LOW")
        BY MetricsAddUp
    <3>2. Metrics.byTier = [tier \in Tier |-> count(tier)]
        BY DEF Metrics
    <3> HIDE DEF count
    <3>3. \A tier \in Tier : Metrics.byTier[tier] = count(tier)
        BY <3>2
    <3> QED  BY <3>1, <3>3 DEF Tier
  <2>6. total <= 500 =>
          \A tier \in Tier :
            ListThreats(tier, 500, 0).threats
              = Selected(all, {i \in DOMAIN all : all[i].priority = tier})
    <3> SUFFICES ASSUME N <= 500, NEW tier \in Tier
                 PROVE  ListThreats(tier, 500, 0).threats
                          = Selected(all, {i \in DOMAIN all : all[i].priority = tier})
        BY <2>2
    <3> QED  BY FilterAgrees
  <2> HIDE DEF all, total, N, f, S, m
  <2>7. \A k \in 1 .. m : /\ all[k].id = threats[f[k]].id /\ all[k].id \in DOMAIN scores
                          /\ all[k].score = ScoreValue(scores, threats[f[k]])
                          /\ all[k].score \in Nat
    <3> SUFFICES ASSUME NEW k \in 1 .. m
                 PROVE  /\ all[k].id = threats[f[k]].id /\ all[k].id \in DOMAIN scores
                        /\ all[k].score = ScoreValue(scores, threats[f[k]])
                        /\ all[k].score \in Nat
        OBVIOUS
    <3>1. all[k] = EntryOf(threats[f[k]].id) /\ f[k] \in DOMAIN threats
        BY <2>1, <2>3
    <3> QED  BY <3>1, StoredScores DEF EntryOf
  <2>8. \A i \in 1 .. Len(all) - 1 : all[i].score >= all[i + 1].score
    <3> SUFFICES ASSUME NEW i \in 1 .. Len(all) - 1 PROVE all[i].score >= all[i + 1].score
        OBVIOUS
    <3>1. m \in Nat
        BY <2>1 DEF m
    <3>2. i \in 1 .. m /\ i + 1 \in 1 .. m /\ i < i + 1
        BY <2>3, <3>1
    <3>3. <<f[i], f[i + 1]>> \in Ranking
        BY <2>1, <2>3, <3>2 DEF Lists
    <3>4. \/ ScoreValue(scores, threats[f[i]]) > ScoreValue(scores, threats[f[i + 1]])
          \/ ScoreValue(scores, threats[f[i]]) = ScoreValue(scores, threats[f[i + 1]])
        BY <3>3 DEF Ranking, Higher
    <3> QED  BY <2>7, <3>2, <3>4
  <2>9. \A id \in IdsOf(all) : GetThreat(id).scored
    <3> SUFFICES ASSUME NEW id \in IdsOf(all) PROVE GetThreat(id).scored
        OBVIOUS
    <3>1. PICK k \in 1 .. m : all[k].id = id
        BY <2>3 DEF IdsOf
    <3>2. id \in DOMAIN scores /\ id \in IdsOf(threats)
        BY <2>7, <3>1 DEF StoredInv, ScoresMatch
    <3> QED  BY <3>2 DEF GetThreat
  <2> QED  BY <2>2, <2>4, <2>5, <2>6, <2>8, <2>9 DEF CountsAddUp, all, total
<1>2. Init => RowsInv
  <2> SUFFICES ASSUME Init PROVE RowsInv
      OBVIOUS
  <2>1. alerts = <<>> /\ threats = <<>> /\ job = [w \in Workers |-> Idle]
      BY DEF Init
  <2>2. \A w \in Workers : job[w].todo = <<>> /\ job[w].batch = <<>> /\ job[w].pending = <<>>
      BY <2>1 DEF Idle
  <2> QED  BY <2>1, <2>2, EmptyRun DEF RowsInv, WorkInv, AllAlerts, AllThreats
<1>3. PipelineInv /\ ScoresMatch /\ RowsInv => StoredInv
    BY DEF StoredInv
<1> QED  BY <1>1, <1>2, <1>3, RowsStep, PipelineInvariance, ThreatsAreScored, PTL DEF Spec
=============================================================================
