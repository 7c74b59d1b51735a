----------------------------- MODULE Migration -----------------------------
(***************************************************************************)
(* internal/database, Migrate: processes of several releases, started at   *)
(* the same time, bring the schema up to date.  A process here is one run  *)
(* of a program; a restart is another process.  The client side of its     *)
(* connection is `at`, the server side is `backend`: either end may go     *)
(* away without the other knowing, and a COMMIT that was sent may take     *)
(* effect after its sender is gone.                                        *)
(*                                                                         *)
(* The directory of a release holds the files 1 .. Files[p]: releases only *)
(* ever add files at the end, and names are padded to one width, so that   *)
(* sort.Strings is the order of the numbers.                               *)
(***************************************************************************)
EXTENDS Naturals, Sequences

CONSTANTS
  Processes,
  Files,        \* number of migrations in each process' image
  NULL

ASSUME MigrationAssumption ==
  /\ Files \in [Processes -> Nat]
  /\ NULL \notin Processes

VARIABLES
  schema,              \* the files whose SQL is committed, in commit order
  created,             \* whether the table schema_migrations exists
  schema_migrations,   \* the versions on record in it
  lock,                \* the session that holds advisory lock 867530901
  at,                  \* the next step of each process
  file,                \* the file it is at
  result,              \* what its Migrate will return
  backend              \* its session on the server

migrationVars == <<schema, created, schema_migrations, lock, at, file, result, backend>>

\* Where a running Migrate can be.
Steps == {"lock", "check", "sql", "commit", "unlock"}

\* The process makes the step to `next`, which needs a live connection.
Step(p, here, next) ==
  /\ at[p] = here
  /\ backend[p] # "none"
  /\ at' = [at EXCEPT ![p] = next]

\* pool.Acquire, and the request for the lock is sent.
BeginMigrate(p) ==
  /\ at[p] = "idle"
  /\ at' = [at EXCEPT ![p] = "lock"]
  /\ backend' = [backend EXCEPT ![p] = "waiting"]
  /\ UNCHANGED <<schema, created, schema_migrations, lock, file, result>>

\* A lock that is not exclusive.
GrantShared(p) ==
  /\ backend[p] = "waiting"
  /\ lock' = p
  /\ backend' = [backend EXCEPT ![p] = "idle"]
  /\ UNCHANGED <<schema, created, schema_migrations, at, file, result>>

\* The server grants the lock to a session, its client there or not.
Grant(p) ==
  /\ backend[p] = "waiting"
  /\ lock = NULL
  /\ lock' = p
  /\ backend' = [backend EXCEPT ![p] = "idle"]
  /\ UNCHANGED <<schema, created, schema_migrations, at, file, result>>

Granted(p) ==
  /\ backend[p] = "idle"
  /\ Step(p, "lock", "check")
  /\ UNCHANGED <<schema, created, schema_migrations, lock, file, result, backend>>

\* statement_timeout, or the context's, while waiting: nothing was acquired.
LockTimeout(p) ==
  /\ backend[p] = "waiting"
  /\ Step(p, "lock", "failed")
  /\ backend' = [backend EXCEPT ![p] = "none"]
  /\ UNCHANGED <<schema, created, schema_migrations, lock, file, result>>

\* The first SELECT of a fresh database fails, and the table is created.
CreateTable(p) ==
  /\ Step(p, "check", "check")
  /\ ~ created
  /\ file[p] <= Files[p]
  /\ created' = TRUE
  /\ UNCHANGED <<schema, schema_migrations, lock, file, result, backend>>

\* The loop over the files: skip what is on record, BEGIN for what is not.
LoopEnds(p) ==
  /\ file[p] > Files[p]
  /\ Step(p, "check", "unlock")
  /\ result' = [result EXCEPT ![p] = "ok"]
  /\ UNCHANGED <<schema, created, schema_migrations, lock, file, backend>>

Skip(p) ==
  /\ created
  /\ file[p] <= Files[p]
  /\ file[p] \in schema_migrations
  /\ Step(p, "check", "check")
  /\ file' = [file EXCEPT ![p] = @ + 1]
  /\ UNCHANGED <<schema, created, schema_migrations, lock, result, backend>>

Begin(p) ==
  /\ created
  /\ file[p] <= Files[p]
  /\ file[p] \notin schema_migrations
  /\ Step(p, "check", "sql")
  /\ backend' = [backend EXCEPT ![p] = "tx"]
  /\ UNCHANGED <<schema, created, schema_migrations, lock, file, result>>

\* In the transaction, the file's SQL and the INSERT of its version; COMMIT is sent.
Apply(p) ==
  /\ Step(p, "sql", "commit")
  /\ backend' = [backend EXCEPT ![p] = "committing"]
  /\ UNCHANGED <<schema, created, schema_migrations, lock, file, result>>

\* A server that commits the SQL and forgets the row.
CommitUnrecorded(p) ==
  /\ backend[p] = "committing"
  /\ schema' = Append(schema, file[p])
  /\ backend' = [backend EXCEPT ![p] = "idle"]
  /\ UNCHANGED <<created, schema_migrations, lock, at, file, result>>

\* The server commits the SQL and the row together.
Commit(p) ==
  /\ backend[p] = "committing"
  /\ schema' = Append(schema, file[p])
  /\ schema_migrations' = schema_migrations \cup {file[p]}
  /\ backend' = [backend EXCEPT ![p] = "idle"]
  /\ UNCHANGED <<created, lock, at, file, result>>

\* The process hears of it and goes on to the next file.
Committed(p) ==
  /\ backend[p] = "idle"
  /\ Step(p, "commit", "check")
  /\ file' = [file EXCEPT ![p] = @ + 1]
  /\ UNCHANGED <<schema, created, schema_migrations, lock, result, backend>>

\* A statement fails: roll back what is open and return the error.
StatementFails(p) ==
  /\ \E here \in {"check", "sql"} : Step(p, here, "unlock")
  /\ result' = [result EXCEPT ![p] = "failed"]
  /\ backend' = [backend EXCEPT ![p] = "idle"]
  /\ UNCHANGED <<schema, created, schema_migrations, lock, file>>

\* A connection given back to the pool with the lock still held.
UnlockSkipped(p) ==
  /\ Step(p, "unlock", result[p])
  /\ backend' = [backend EXCEPT ![p] = "none"]
  /\ UNCHANGED <<schema, created, schema_migrations, lock, file, result>>

\* The deferred unlock, and the connection's release.
Unlock(p) ==
  /\ Step(p, "unlock", result[p])
  /\ lock' = NULL
  /\ backend' = [backend EXCEPT ![p] = "none"]
  /\ UNCHANGED <<schema, created, schema_migrations, file, result>>

\* The process is killed, or its context ends: its session lives on for a while.
ClientGone(p) ==
  /\ at[p] \in Steps
  /\ at' = [at EXCEPT ![p] = "failed"]
  /\ UNCHANGED <<schema, created, schema_migrations, lock, file, result, backend>>

\* The server ends a session, and with it its transaction and its lock.
SessionEnds(p) ==
  /\ backend[p] # "none"
  /\ backend' = [backend EXCEPT ![p] = "none"]
  /\ lock' = IF lock = p THEN NULL ELSE lock
  /\ UNCHANGED <<schema, created, schema_migrations, at, file, result>>

\* The next statement of a process without a session fails; the unlock's error is ignored.
NoticeLoss(p) ==
  /\ at[p] \in Steps
  /\ backend[p] = "none"
  /\ at' = [at EXCEPT ![p] = IF at[p] = "unlock" THEN result[p] ELSE "failed"]
  /\ UNCHANGED <<schema, created, schema_migrations, lock, file, result, backend>>

Migrating(p) ==
  \/ Grant(p) \/ Granted(p) \/ CreateTable(p) \/ LoopEnds(p) \/ Skip(p) \/ Begin(p)
  \/ Apply(p) \/ Commit(p) \/ Committed(p) \/ Unlock(p) \/ NoticeLoss(p)

Trouble(p) == LockTimeout(p) \/ StatementFails(p) \/ ClientGone(p) \/ SessionEnds(p)

MigrationInit ==
  /\ schema = <<>>
  /\ created = FALSE
  /\ schema_migrations = {}
  /\ lock = NULL
  /\ at = [p \in Processes |-> "idle"]
  /\ file = [p \in Processes |-> 1]
  /\ result = [p \in Processes |-> "failed"]
  /\ backend = [p \in Processes |-> "none"]

MigrationNext == \E p \in Processes : BeginMigrate(p) \/ Migrating(p) \/ Trouble(p)

MigrationSpec == MigrationInit /\ [][MigrationNext]_migrationVars

(***************************************************************************)
(* Every statement gets its answer, PostgreSQL serves those who wait for   *)
(* the lock, and it finds out, by its keepalive or a timeout, that the     *)
(* client of a session is gone.                                            *)
(***************************************************************************)
MigrationFairness ==
  \A p \in Processes :
    /\ WF_migrationVars(Migrating(p))
    /\ WF_migrationVars(at[p] \notin Steps /\ SessionEnds(p))

-----------------------------------------------------------------------------
(***************************************************************************)
(* The schema history is what it should be, however many processes migrate *)
(* at once and whichever of them or of their sessions fail: each file is   *)
(* applied once, in order, and "migrations complete" is true.              *)
(***************************************************************************)
History == INSTANCE SchemaHistory WITH
  applied <- schema,
  upToDate <- {p \in Processes : at[p] = "ok"}

ImplementsHistory == History!Spec

(***************************************************************************)
(* schema_migrations tells the truth about the schema in every state, for  *)
(* whoever restores a backup and rolls forward from it.                    *)
(***************************************************************************)
OnRecord == schema_migrations = 1..Len(schema)

(***************************************************************************)
(* Every migration that was begun ends, one way or the other, although     *)
(* whoever holds the lock may have died with it.                           *)
(***************************************************************************)
MigrateEnds == \A p \in Processes : at[p] = "lock" ~> at[p] \in {"ok", "failed"}
=============================================================================
