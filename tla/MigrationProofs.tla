--------------------------- MODULE MigrationProofs ---------------------------
(***************************************************************************)
(* Migrate keeps its promises for any number of processes and releases.    *)
(***************************************************************************)
EXTENDS Migration, TLAPS

MigrationTypeOK ==
  /\ schema \in Seq(Nat)
  /\ created \in BOOLEAN
  /\ schema_migrations \in SUBSET Nat
  /\ lock \in Processes \cup {NULL}
  /\ at \in [Processes -> Steps \cup {"idle", "ok", "failed"}]
  /\ file \in [Processes -> Nat]
  /\ result \in [Processes -> {"ok", "failed"}]
  /\ backend \in [Processes -> {"none", "waiting", "idle", "tx", "committing"}]

\* The files were applied in the order of their numbers.
InOrder == \A i \in 1..Len(schema) : schema[i] = i

(***************************************************************************)
(* A session past the lock holds it, so at most one transaction is open;   *)
(* it is the one for the file after those on record, although its client   *)
(* may be gone.  A client with a session is where its session is.          *)
(***************************************************************************)
Position(p) ==
  /\ backend[p] \in {"idle", "tx", "committing"} => lock = p
  /\ backend[p] = "waiting" => at[p] \in {"lock", "failed"}
  /\ backend[p] = "tx" => at[p] \in {"sql", "failed"}
  /\ backend[p] = "committing" => at[p] \in {"commit", "failed"}
  /\ backend[p] \in {"tx", "committing"} =>
       file[p] = Len(schema) + 1 /\ file[p] <= Files[p]
  /\ at[p] \in {"idle", "lock"} => file[p] = 1
  /\ at[p] = "idle" => backend[p] = "none"
  /\ at[p] = "sql" => backend[p] \in {"none", "tx"}
  /\ at[p] = "check" /\ backend[p] # "none" => file[p] \in 1..(Len(schema) + 1)
  /\ at[p] = "commit" /\ backend[p] = "idle" => file[p] = Len(schema)

\* A process that will report success, or has, is right.
Truthful(p) ==
  /\ result[p] = "ok" => Files[p] <= Len(schema)
  /\ at[p] = "ok" => result[p] = "ok"

MigrationInv ==
  /\ MigrationTypeOK
  /\ InOrder
  /\ OnRecord
  /\ \A p \in Processes : Position(p) /\ Truthful(p)

-----------------------------------------------------------------------------
LEMMA InitInv == MigrationInit => MigrationInv
<1> USE MigrationAssumption DEF MigrationInit
<1>1. MigrationInit => MigrationTypeOK
  <2>1. MigrationInit => schema \in Seq(Nat) /\ schema_migrations \in SUBSET Nat
    OBVIOUS
  <2>2. MigrationInit => created \in BOOLEAN /\ lock \in Processes \cup {NULL}
    OBVIOUS
  <2>3. MigrationInit => /\ at \in [Processes -> Steps \cup {"idle", "ok", "failed"}]
                         /\ file \in [Processes -> Nat]
    BY DEF Steps
  <2>4. MigrationInit =>
          /\ result \in [Processes -> {"ok", "failed"}]
          /\ backend \in [Processes -> {"none", "waiting", "idle", "tx", "committing"}]
    OBVIOUS
  <2>. QED
    BY <2>1, <2>2, <2>3, <2>4 DEF MigrationTypeOK
<1>2. MigrationInit => InOrder /\ OnRecord
  BY DEF InOrder, OnRecord
<1>3. MigrationInit => \A p \in Processes : Position(p) /\ Truthful(p)
  BY ZenonT(30) DEF Position, Truthful
<1>. QED
  BY <1>1, <1>2, <1>3 DEF MigrationInv

\* Steps that commit nothing: the schema and its record stay.
LEMMA QuietStep ==
  ASSUME MigrationInv, NEW p \in Processes,
         \/ BeginMigrate(p) \/ Grant(p) \/ Granted(p) \/ LockTimeout(p) \/ LoopEnds(p)
         \/ Skip(p) \/ Begin(p) \/ Apply(p) \/ Committed(p) \/ StatementFails(p) \/ Unlock(p)
         \/ ClientGone(p) \/ SessionEnds(p) \/ NoticeLoss(p)
  PROVE  MigrationInv'
<1> USE MigrationAssumption DEF MigrationInv
<1>1. MigrationTypeOK'
  <2> USE DEF MigrationTypeOK, Steps
  <2>1. CASE BeginMigrate(p)
    BY <2>1 DEF BeginMigrate
  <2>2. CASE Grant(p)
    BY <2>2 DEF Grant
  <2>3. CASE Granted(p)
    BY <2>3 DEF Granted, Step
  <2>4. CASE LockTimeout(p)
    BY <2>4 DEF LockTimeout, Step
  <2>5. CASE LoopEnds(p)
    BY <2>5 DEF LoopEnds, Step
  <2>6. CASE Skip(p)
    BY <2>6 DEF Skip, Step
  <2>7. CASE Begin(p)
    BY <2>7 DEF Begin, Step
  <2>8. CASE Apply(p)
    BY <2>8 DEF Apply, Step
  <2>9. CASE Committed(p)
    BY <2>9 DEF Committed, Step
  <2>10. CASE StatementFails(p)
    BY <2>10 DEF StatementFails, Step
  <2>11. CASE Unlock(p)
    BY <2>11 DEF Unlock, Step
  <2>12. CASE ClientGone(p)
    BY <2>12 DEF ClientGone
  <2>13. CASE SessionEnds(p)
    BY <2>13 DEF SessionEnds
  <2>14. CASE NoticeLoss(p)
    BY <2>14 DEF NoticeLoss
  <2>. QED
    BY <2>1, <2>2, <2>3, <2>4, <2>5, <2>6, <2>7, <2>8, <2>9, <2>10, <2>11, <2>12, <2>13, <2>14
<1>2. InOrder' /\ OnRecord'
  BY DEF BeginMigrate, Grant, Granted, LockTimeout, LoopEnds, Skip, Begin, Apply, Committed,
         StatementFails, Unlock, ClientGone, SessionEnds, NoticeLoss, InOrder, OnRecord
<1>3. ASSUME NEW r \in Processes
      PROVE  Position(r)' /\ Truthful(r)'
  <2> USE <1>3 DEF Position, Truthful, MigrationTypeOK
  <2>1. CASE BeginMigrate(p)
    BY <2>1 DEF BeginMigrate
  <2>2. CASE Grant(p)
    BY <2>2 DEF Grant
  <2>3. CASE Granted(p)
    BY <2>3 DEF Granted, Step
  <2>4. CASE LockTimeout(p)
    BY <2>4 DEF LockTimeout, Step
  <2>5. CASE LoopEnds(p)
    BY <2>5 DEF LoopEnds, Step, OnRecord
  <2>6. CASE Skip(p)
    BY <2>6 DEF Skip, Step, OnRecord
  <2>7. CASE Begin(p)
    BY <2>7 DEF Begin, Step, OnRecord
  <2>8. CASE Apply(p)
    BY <2>8 DEF Apply, Step
  <2>9. CASE Committed(p)
    BY <2>9 DEF Committed, Step
  <2>10. CASE StatementFails(p)
    BY <2>10 DEF StatementFails, Step
  <2>11. CASE Unlock(p)
    BY <2>11 DEF Unlock, Step
  <2>12. CASE ClientGone(p)
    BY <2>12 DEF ClientGone, Steps
  <2>13. CASE SessionEnds(p)
    BY <2>13 DEF SessionEnds
  <2>14. CASE NoticeLoss(p)
    BY <2>14 DEF NoticeLoss, Steps
  <2>. QED
    BY <2>1, <2>2, <2>3, <2>4, <2>5, <2>6, <2>7, <2>8, <2>9, <2>10, <2>11, <2>12, <2>13, <2>14
<1>. QED
  BY <1>1, <1>2, <1>3

LEMMA CreateTableStep ==
  ASSUME MigrationInv, NEW p \in Processes, CreateTable(p)
  PROVE  MigrationInv'
<1> USE MigrationAssumption DEF MigrationInv, CreateTable, Step, MigrationTypeOK
<1>1. MigrationTypeOK' /\ InOrder'
  BY DEF InOrder, Steps
<1>2. OnRecord'
  BY DEF OnRecord
<1>3. \A r \in Processes : Position(r)' /\ Truthful(r)'
  BY DEF Position, Truthful
<1>. QED
  BY <1>1, <1>2, <1>3

LEMMA CommitStep ==
  ASSUME MigrationInv, NEW p \in Processes, Commit(p)
  PROVE  MigrationInv'
<1> USE MigrationAssumption DEF MigrationInv, MigrationTypeOK
<1>1. /\ lock = p /\ file[p] = Len(schema) + 1 /\ schema_migrations = 1..Len(schema)
      /\ file[p] <= Files[p]
  BY DEF Commit, Position, OnRecord
<1>2. /\ schema' = Append(schema, Len(schema) + 1)
      /\ Len(schema') = Len(schema) + 1
      /\ \A i \in 1..Len(schema) : schema'[i] = schema[i]
      /\ schema'[Len(schema) + 1] = Len(schema) + 1
  BY <1>1 DEF Commit
<1>3. MigrationTypeOK'
  BY <1>1, <1>2 DEF Commit
<1>4. InOrder'
  BY <1>2 DEF InOrder
<1>5. OnRecord'
  BY <1>1, <1>2 DEF Commit, OnRecord
<1>6. ASSUME NEW r \in Processes PROVE Truthful(r)'
  <2>1. Truthful(r) /\ Len(schema) \in Nat /\ Files[r] \in Nat
    BY <1>6
  <2>2. result' = result /\ at' = at
    BY DEF Commit
  <2>. QED
    BY <1>2, <2>1, <2>2 DEF Truthful
<1>7. Position(p)'
  BY <1>1, <1>2 DEF Commit, Position
<1>8. ASSUME NEW r \in Processes \ {p} PROVE Position(r)'
  <2>1. backend[r] \in {"none", "waiting"}
    BY <1>1, <1>8 DEF Position
  <2>. QED
    BY <1>1, <1>2, <1>8, <2>1 DEF Commit, Position
<1>. QED
  BY <1>3, <1>4, <1>5, <1>6, <1>7, <1>8

LEMMA StepInv == MigrationInv /\ [MigrationNext]_migrationVars => MigrationInv'
<1> SUFFICES ASSUME MigrationInv, [MigrationNext]_migrationVars
             PROVE  MigrationInv'
  OBVIOUS
<1>1. CASE MigrationNext
  <2>1. PICK p \in Processes : BeginMigrate(p) \/ Migrating(p) \/ Trouble(p)
    BY <1>1 DEF MigrationNext
  <2>. QED
    BY <2>1, QuietStep, CreateTableStep, CommitStep DEF Migrating, Trouble
<1>2. CASE UNCHANGED migrationVars
  BY <1>2 DEF migrationVars, MigrationInv, MigrationTypeOK, InOrder, OnRecord, Position, Truthful
<1>. QED
  BY <1>1, <1>2

(***************************************************************************)
(* The invariant holds however Migrate runs are interleaved and cut short. *)
(***************************************************************************)
THEOREM MigrationCorrect == MigrationSpec => []MigrationInv
  BY InitInv, StepInv, PTL DEF MigrationSpec

(***************************************************************************)
(* schema_migrations is always the record of the SQL that Migrate has      *)
(* committed, no more and no less.                                         *)
(***************************************************************************)
THEOREM RecordTrue == MigrationSpec => []OnRecord
<1>1. MigrationInv => OnRecord
  BY DEF MigrationInv
<1>. QED
  BY <1>1, MigrationCorrect, PTL

-----------------------------------------------------------------------------
\* Steps of Migrate as steps of the schema's history.
LEMMA StepHistory ==
  ASSUME MigrationInv, MigrationInv', [MigrationNext]_migrationVars
  PROVE  [History!Apply \/ \E p \in Processes : History!Return(p)]_<<schema,
            {p \in Processes : at[p] = "ok"}>>
<1> USE MigrationAssumption
<1> DEFINE done == {p \in Processes : at[p] = "ok"}
<1>1. CASE UNCHANGED migrationVars
  BY <1>1 DEF migrationVars
<1>2. CASE MigrationNext
  <2>1. PICK p \in Processes : BeginMigrate(p) \/ Migrating(p) \/ Trouble(p)
    BY <1>2 DEF MigrationNext
  <2>2. CASE Commit(p)
    <3>1. file[p] = Len(schema) + 1 /\ file[p] <= Files[p] /\ Len(schema) \in Nat
          /\ Files[p] \in Nat
      BY <2>2 DEF Commit, MigrationInv, MigrationTypeOK, Position
    <3>2. Len(schema) < Files[p] /\ schema' = Append(schema, Len(schema) + 1) /\ done' = done
      BY <2>2, <3>1 DEF Commit
    <3>. QED
      BY <3>2 DEF History!Apply
  <2>3. CASE (Unlock(p) \/ NoticeLoss(p)) /\ at'[p] = "ok"
    <3>1. p \notin done /\ done' = done \cup {p} /\ schema' = schema
      BY <2>3 DEF Unlock, NoticeLoss, Step, Steps, MigrationInv, MigrationTypeOK
    <3>2. Files[p] <= Len(schema)
      BY <2>3, <3>1 DEF MigrationInv, Truthful
    <3>. QED
      BY <3>1, <3>2 DEF History!Return
  <2>4. CASE (Unlock(p) \/ NoticeLoss(p)) /\ at'[p] # "ok"
    <3>1. done' = done /\ schema' = schema
      BY <2>4 DEF Unlock, NoticeLoss, Step, Steps, MigrationInv, MigrationTypeOK
    <3>. QED
      BY <3>1
  <2>5. CASE \/ BeginMigrate(p) \/ Grant(p) \/ Granted(p) \/ CreateTable(p) \/ LoopEnds(p)
             \/ Skip(p) \/ Begin(p) \/ Apply(p) \/ Committed(p) \/ Trouble(p)
    <3>1. done' = done /\ schema' = schema
      BY <2>5 DEF BeginMigrate, Grant, Granted, CreateTable, LoopEnds, Skip, Begin, Apply,
                  Committed, Trouble,
                  LockTimeout, StatementFails, ClientGone, SessionEnds, Step, Steps,
                  MigrationInv, MigrationTypeOK
    <3>. QED
      BY <3>1
  <2>. QED
    BY <2>1, <2>2, <2>3, <2>4, <2>5 DEF Migrating
<1>. QED
  BY <1>1, <1>2

(***************************************************************************)
(* Migrate implements the schema history: each file once, in order, and no *)
(* process is told that the schema is up to date when it is not.           *)
(***************************************************************************)
THEOREM HistoryKept == MigrationSpec => ImplementsHistory
<1>1. MigrationInit => schema = <<>> /\ {p \in Processes : at[p] = "ok"} = {}
  BY DEF MigrationInit
<1>. QED
  BY <1>1, MigrationCorrect, StepHistory, PTL DEF MigrationSpec, ImplementsHistory, History!Spec
=============================================================================
