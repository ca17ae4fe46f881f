------------------------------- MODULE Migrations -------------------------------
(***************************************************************************)
(* threaticap/storage/migrations.py: any number of run_migrations against  *)
(* one database.  A file and its row in schema_migrations are committed    *)
(* together; a runner reads the applied versions once, before its first    *)
(* file.  The files only create what does not exist.  docker-compose.yml   *)
(* mounts them where PostgreSQL executes them when the database is         *)
(* created: their objects may be there without a row.                      *)
(***************************************************************************)
EXTENDS Naturals, Sequences, SequencesExt

CONSTANTS
  Runners,  \* processes that call run_migrations
  Files     \* the migration files, sorted; empty if there is no directory

ASSUME MigrationAssumption == Files \in Seq(ToSet(Files))

VARIABLES
  objects,  \* files whose objects are in the database
  applied,  \* versions in schema_migrations
  runner    \* of each runner: where it is, what it read, what it has to do yet

migrationVars == <<objects, applied, runner>>

Version == ToSet(Files)
IdleRunner == [at |-> "idle", known |-> {}, todo |-> <<>>]

MigrationInit ==
  /\ objects \in {{}, Version}
  /\ applied = {}
  /\ runner = [r \in Runners |-> IdleRunner]

\* Create the tracking table, read what is applied, list the files.
ReadApplied(r) ==
  /\ runner[r].at = "idle"
  /\ runner' = [runner EXCEPT ![r] =
       [at |-> "apply", known |-> applied, todo |-> Files]]
  /\ UNCHANGED <<objects, applied>>

SkipApplied(r) ==
  /\ runner[r].at = "apply" /\ runner[r].todo # <<>>
  /\ Head(runner[r].todo) \in runner[r].known
  /\ runner' = [runner EXCEPT ![r].todo = Tail(@)]
  /\ UNCHANGED <<objects, applied>>

\* The script, the row and the commit.
Apply(r) ==
  LET version == Head(runner[r].todo) IN
  /\ runner[r].at = "apply" /\ runner[r].todo # <<>>
  /\ version \notin runner[r].known \cup applied
  /\ objects' = objects \cup {version}
  /\ applied' = applied \cup {version}
  /\ runner' = [runner EXCEPT ![r].todo = Tail(@)]

\* Another runner has committed the row meanwhile: the insert violates the
\* primary key; rollback, and run_migrations raises.
Conflict(r) ==
  /\ runner[r].at = "apply" /\ runner[r].todo # <<>>
  /\ Head(runner[r].todo) \in applied \ runner[r].known
  /\ runner' = [runner EXCEPT ![r].at = "failed"]
  /\ UNCHANGED <<objects, applied>>

\* Mutant: the failed file is logged and the next one is tried.
AbortFileOnly(r) ==
  /\ runner[r].at = "apply" /\ runner[r].todo # <<>>
  /\ runner' = [runner EXCEPT ![r].todo = Tail(@)]
  /\ UNCHANGED <<objects, applied>>

\* The connection or the process is lost: what is not committed is undone.
Abort(r) ==
  /\ runner[r].at = "apply"
  /\ runner' = [runner EXCEPT ![r].at = "failed"]
  /\ UNCHANGED <<objects, applied>>

Return(r) ==
  /\ runner[r].at = "apply" /\ runner[r].todo = <<>>
  /\ runner' = [runner EXCEPT ![r].at = "done"]
  /\ UNCHANGED <<objects, applied>>

\* An operator starts a failed runner again.
StartAgain(r) ==
  /\ runner[r].at = "failed"
  /\ runner' = [runner EXCEPT ![r] = IdleRunner]
  /\ UNCHANGED <<objects, applied>>

MigrationNext ==
  \E r \in Runners : \/ ReadApplied(r) \/ SkipApplied(r) \/ Apply(r) \/ Conflict(r)
                     \/ Return(r) \/ StartAgain(r)

-----------------------------------------------------------------------------
\* Whatever two runners and an aborted one leave, the recorded versions are a
\* prefix of the files whose objects exist, and a runner that returns leaves a
\* complete schema: run_migrations commits each file with its row, in order.
MigratedIsComplete ==
  /\ applied \subseteq objects
  /\ \E n \in 0 .. Len(Files) : applied = {Files[i] : i \in 1 .. n}
  /\ \A r \in Runners : runner[r].at = "done" => applied = Version
=============================================================================
