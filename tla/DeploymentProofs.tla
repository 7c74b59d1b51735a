--------------------------- MODULE DeploymentProofs ---------------------------
(***************************************************************************)
(* What the migrations promise carries over to the programs that run them, *)
(* and no program serves too early or stops too soon, for any number of    *)
(* processes, releases, requests and any configuration.                    *)
(***************************************************************************)
EXTENDS Deployment, MigrationProofs

\* Steps of the programs as steps of the migrations.
LEMMA MigrationStep == [DeploymentNext]_deploymentVars => [MigrationNext]_migrationVars
<1> SUFFICES ASSUME [DeploymentNext]_deploymentVars
             PROVE  [MigrationNext]_migrationVars
  OBVIOUS
<1>1. CASE UNCHANGED deploymentVars
  BY <1>1 DEF deploymentVars
<1>2. CASE \E q \in Requests : Handle(q)
  BY <1>2 DEF Handle, Acquire, AcquireClosed, Finish, Reply, Write
<1>3. ASSUME NEW p \in Processes, (Migrating(p) \/ Trouble(p)) /\ UNCHANGED runVars
      PROVE  [MigrationNext]_migrationVars
  BY <1>3 DEF MigrationNext
<1>4. ASSUME NEW p \in Processes, Start(p)
      PROVE  [MigrationNext]_migrationVars
  BY <1>4 DEF Start, MigrationNext
<1>5. ASSUME NEW p \in Processes,
             \/ Up(p) \/ StartFails(p) \/ (\E q \in Requests : Accept(p, q)) \/ BeginBatch(p)
             \/ EndBatch(p) \/ Signal(p) \/ ShutdownTimeout(p) \/ Stopping(p) \/ Crash(p)
      PROVE  UNCHANGED migrationVars
  BY <1>5 DEF Up, StartFails, Accept, BeginBatch, EndBatch, Signal, ShutdownTimeout, Stopping,
              Drained, Close, Crash
<1>. QED
  BY <1>1, <1>2, <1>3, <1>4, <1>5 DEF DeploymentNext

(***************************************************************************)
(* The invariant of the migrations holds in a deployment, whose programs   *)
(* call Migrate at their start and may crash at any step of it.            *)
(***************************************************************************)
THEOREM DeploymentMigrates == DeploymentSpec => []MigrationInv
<1>1. DeploymentInit => MigrationInv
  BY InitInv DEF DeploymentInit
<1>2. MigrationInv /\ [DeploymentNext]_deploymentVars => MigrationInv'
  BY MigrationStep, StepInv
<1>. QED
  BY <1>1, <1>2, PTL DEF DeploymentSpec

(***************************************************************************)
(* In a deployment too, schema_migrations is the record of the SQL that    *)
(* was committed.                                                          *)
(***************************************************************************)
THEOREM DeploymentRecordTrue == DeploymentSpec => []OnRecord
<1>1. MigrationInv => OnRecord
  BY DEF MigrationInv
<1>. QED
  BY <1>1, DeploymentMigrates, PTL

(***************************************************************************)
(* A deployment, whatever its programs, releases and crashes, implements   *)
(* the schema history.                                                     *)
(***************************************************************************)
THEOREM DeploymentHistoryKept == DeploymentSpec => ImplementsHistory
<1>1. DeploymentInit => schema = <<>> /\ {p \in Processes : at[p] = "ok"} = {}
  BY DEF DeploymentInit, MigrationInit
<1>. QED
  BY <1>1, DeploymentMigrates, MigrationStep, StepHistory, PTL
  DEF DeploymentSpec, ImplementsHistory, History!Spec

-----------------------------------------------------------------------------
LEMMA SchemaGrows ==
  ASSUME MigrationInv, MigrationInv', [MigrationNext]_migrationVars
  PROVE  Len(schema) \in Nat /\ Len(schema') \in Nat /\ Len(schema) <= Len(schema')
<1>1. schema \in Seq(Nat) /\ schema' \in Seq(Nat)
  BY DEF MigrationInv, MigrationTypeOK
<1>2. schema' = schema \/ \E n : schema' = Append(schema, n)
  <2>1. CASE UNCHANGED migrationVars
    BY <2>1 DEF migrationVars
  <2>2. CASE MigrationNext
    BY <2>2 DEF MigrationNext, BeginMigrate, Migrating, Trouble, Grant, Granted, LockTimeout,
       CreateTable, LoopEnds, Skip, Begin, Apply, Commit, Committed, StatementFails, Unlock,
       ClientGone, SessionEnds, NoticeLoss
  <2>. QED
    BY <2>1, <2>2
<1>. QED
  BY <1>1, <1>2

LifecycleTypeOK ==
  /\ phase \in [Processes -> {"off", "starting", "serving", "draining", "closing", "exited"}]
  /\ ending \in [Processes -> {"none", "clean", "failed", "timeout", "crash"}]

(***************************************************************************)
(* Whoever serves, or is about to without a Migrate of its own, or is a    *)
(* migrate command that others wait for and that ended well, has seen its  *)
(* files applied.                                                          *)
(***************************************************************************)
Prepared(p) ==
  \/ phase[p] \in {"serving", "draining", "closing"}
  \/ phase[p] = "starting" /\ p \notin Migrates
  \/ phase[p] = "exited" /\ ending[p] = "clean"

LifecycleInv ==
  /\ LifecycleTypeOK
  /\ \A p \in Processes : Prepared(p) => Files[p] <= Len(schema)

LEMMA LifecycleStep ==
  ASSUME LifecycleInv, MigrationInv, MigrationInv', [DeploymentNext]_deploymentVars
  PROVE  LifecycleInv'
<1> USE MigrationAssumption, DeploymentAssumption
<1>1. Len(schema) \in Nat /\ Len(schema') \in Nat /\ Len(schema) <= Len(schema')
  BY MigrationStep, SchemaGrows
<1>2. Files \in [Processes -> Nat]
  OBVIOUS
<1>3. CASE UNCHANGED <<phase, ending>>
  BY <1>1, <1>2, <1>3 DEF LifecycleInv, LifecycleTypeOK, Prepared
<1> DEFINE Others(p) == \A r \in Processes \ {p} : phase'[r] = phase[r] /\ ending'[r] = ending[r]
<1>4. ASSUME NEW p \in Processes, LifecycleTypeOK', Others(p),
              Prepared(p)' => Files[p] <= Len(schema)
       PROVE  LifecycleInv'
  <2>1. ASSUME NEW r \in Processes, Prepared(r)' PROVE Files[r] <= Len(schema)
    BY <1>4, <2>1 DEF LifecycleInv, Prepared
  <2>. QED
    BY <1>1, <1>2, <1>4, <2>1 DEF LifecycleInv
<1>5. ASSUME NEW p \in Processes, Start(p)
      PROVE  LifecycleInv'
  <2>1. /\ phase[p] = "off"
        /\ \/ phase' = [phase EXCEPT ![p] = "starting"] /\ ending' = ending
           \/ phase' = [phase EXCEPT ![p] = "exited"] /\ ending' = [ending EXCEPT ![p] = "failed"]
    BY <1>5 DEF Start, Exit
  <2>2. p \notin Migrates => Files[p] <= Len(schema)
    BY <1>5 DEF Start, LifecycleInv, Prepared
  <2>8. LifecycleTypeOK' /\ Others(p)
    BY <2>1 DEF LifecycleInv, LifecycleTypeOK
  <2>9. Prepared(p)' => Files[p] <= Len(schema)
    BY <2>1, <2>2 DEF LifecycleInv, LifecycleTypeOK, Prepared
  <2>. QED
    BY <1>4, <2>8, <2>9
<1>6. ASSUME NEW p \in Processes, Up(p)
      PROVE  LifecycleInv'
  <2>1. Files[p] <= Len(schema)
    BY <1>6 DEF Up, LifecycleInv, Prepared, MigrationInv, Truthful
  <2>2. \/ phase' = [phase EXCEPT ![p] = "serving"] /\ ending' = ending
        \/ phase' = [phase EXCEPT ![p] = "exited"] /\ ending' = [ending EXCEPT ![p] = "clean"]
    BY <1>6 DEF Up, Exit
  <2>8. LifecycleTypeOK' /\ Others(p)
    BY <2>2 DEF LifecycleInv, LifecycleTypeOK
  <2>9. Prepared(p)' => Files[p] <= Len(schema)
    BY <2>1 DEF LifecycleInv, LifecycleTypeOK, Prepared
  <2>. QED
    BY <1>4, <2>8, <2>9
<1>7. ASSUME NEW p \in Processes, Signal(p) \/ ShutdownTimeout(p) \/ Drained(p)
      PROVE  LifecycleInv'
  <2>1. /\ phase[p] \in {"serving", "draining"}
        /\ \/ phase' = [phase EXCEPT ![p] = "draining"]
           \/ phase' = [phase EXCEPT ![p] = "closing"]
        /\ ending' = ending \/ ending' = [ending EXCEPT ![p] = "timeout"]
    BY <1>7 DEF Signal, ShutdownTimeout, Drained
  <2>8. LifecycleTypeOK' /\ Others(p)
    BY <2>1 DEF LifecycleInv, LifecycleTypeOK
  <2>9. Prepared(p)' => Files[p] <= Len(schema)
    BY <2>1 DEF LifecycleInv, LifecycleTypeOK, Prepared
  <2>. QED
    BY <1>4, <2>8, <2>9
<1>8. ASSUME NEW p \in Processes, StartFails(p) \/ Close(p) \/ Crash(p)
      PROVE  LifecycleInv'
  <2>1. /\ phase' = [phase EXCEPT ![p] = "exited"]
        /\ \/ ending' = [ending EXCEPT ![p] = "failed"]
           \/ ending' = [ending EXCEPT ![p] = "timeout"]
           \/ ending' = [ending EXCEPT ![p] = "crash"]
           \/ phase[p] = "closing" /\ ending' = [ending EXCEPT ![p] = "clean"]
    BY <1>8 DEF StartFails, Close, Crash, Exit
  <2>8. LifecycleTypeOK' /\ Others(p)
    BY <2>1 DEF LifecycleInv, LifecycleTypeOK
  <2>9. Prepared(p)' => Files[p] <= Len(schema)
    BY <2>1 DEF LifecycleInv, LifecycleTypeOK, Prepared
  <2>. QED
    BY <1>4, <2>8, <2>9
<1>9. ASSUME NEW p \in Processes,
             \/ (Migrating(p) \/ Trouble(p)) /\ UNCHANGED runVars
             \/ (\E q \in Requests : Accept(p, q)) \/ BeginBatch(p) \/ EndBatch(p)
      PROVE  UNCHANGED <<phase, ending>>
  BY <1>9 DEF runVars, Accept, BeginBatch, EndBatch
<1>10. (\E q \in Requests : Handle(q)) \/ UNCHANGED deploymentVars => UNCHANGED <<phase, ending>>
  BY DEF Handle, Acquire, AcquireClosed, Finish, Reply, Write, deploymentVars, runVars
<1>. QED
  BY <1>3, <1>5, <1>6, <1>7, <1>8, <1>9, <1>10 DEF DeploymentNext, Stopping

(***************************************************************************)
(* A process that got past its start, by its own Migrate or behind the     *)
(* migrate command, has a schema with every file of its release.           *)
(***************************************************************************)
THEOREM LifecycleCorrect == DeploymentSpec => []LifecycleInv
<1>1. DeploymentInit => LifecycleInv
  BY DEF DeploymentInit, LifecycleInv, LifecycleTypeOK, Prepared
<1>. QED
  BY <1>1, DeploymentMigrates, LifecycleStep, PTL DEF DeploymentSpec

(***************************************************************************)
(* No process serves on a schema that lacks a file of its release, whether *)
(* it migrates by itself or waits for the migrate command.                 *)
(***************************************************************************)
THEOREM NeverServesEarly == DeploymentSpec => []ServesUpToDate
<1>1. LifecycleInv => ServesUpToDate
  BY DEF LifecycleInv, Prepared, ServesUpToDate
<1>. QED
  BY <1>1, LifecycleCorrect, PTL

-----------------------------------------------------------------------------
RequestTypeOK ==
  request \in [Requests -> [at : {"new", "handler", "tx", "write", "answered", "lost"},
                            proc : Processes \cup {NULL}, uses : Nat, conn : BOOLEAN,
                            answer : {"none", "closed", "error", "done"}]]

(***************************************************************************)
(* A request in the hands of a process: only an API that has begun to      *)
(* serve has any; it has none left once it closes its pool, except after   *)
(* its shutdown timed out.                                                 *)
(***************************************************************************)
Attended(q) ==
  LET p == request[q].proc IN
  /\ request[q].at = "new" => request[q].proc = NULL /\ request[q].answer = "none"
  /\ request[q].at # "new" =>
       p \in Processes /\ Role[p] = "api" /\ phase[p] \notin {"off", "starting"}
  /\ request[q].at \in {"handler", "tx", "write"} =>
       phase[p] # "exited" /\ (phase[p] = "closing" => ending[p] = "timeout")
  /\ request[q].at = "lost" \/ request[q].answer = "closed" =>
       \/ ending[p] = "timeout" /\ phase[p] \in {"closing", "exited"}
       \/ ending[p] = "crash" /\ phase[p] = "exited"

RequestInv == RequestTypeOK /\ \A q \in Requests : Attended(q)

\* A step of the handler of one request.
LEMMA HandleStep ==
  ASSUME RequestInv, NEW q \in Requests, Handle(q)
  PROVE  RequestInv'
<1> USE DeploymentAssumption DEF RequestInv, RequestTypeOK
<1>1. /\ UNCHANGED <<phase, ending>>
      /\ RequestTypeOK'
      /\ \A x \in Requests \ {q} : request'[x] = request[x]
  BY DEF Handle, Acquire, AcquireClosed, Finish, Reply, Write
<1>2. Attended(q)'
  <2>1. /\ request'[q].proc = request[q].proc
        /\ request[q].at \in {"handler", "tx", "write"}
        /\ request'[q].at \in {"handler", "tx", "write", "answered"}
        /\ \/ request'[q].answer \in {request[q].answer, "error", "done"}
           \/ phase[request[q].proc] = "closing"
    BY DEF Handle, Acquire, AcquireClosed, Finish, Reply, Write
  <2>. QED
    BY <1>1, <2>1 DEF Attended
<1>3. \A x \in Requests \ {q} : Attended(x)'
  BY <1>1 DEF Attended
<1>. QED
  BY <1>1, <1>2, <1>3

\* A step of a process' own that answers and loses nothing.
LEMMA PhaseStep ==
  ASSUME RequestInv, LifecycleTypeOK, NEW p \in Processes,
         \/ Start(p) \/ Up(p) \/ StartFails(p) \/ Signal(p) \/ Drained(p) \/ ShutdownTimeout(p)
  PROVE  RequestInv'
<1> USE DeploymentAssumption, MigrationAssumption DEF RequestInv, LifecycleTypeOK
<1>1. request' = request /\ RequestTypeOK'
  BY DEF Start, Up, StartFails, Signal, Drained, ShutdownTimeout, RequestTypeOK
<1>2. \A r \in Processes \ {p} : phase'[r] = phase[r] /\ ending'[r] = ending[r]
  BY DEF Start, Up, StartFails, Signal, Drained, ShutdownTimeout, Exit
<1>3. ASSUME NEW q \in Requests PROVE Attended(q)'
  <2>1. CASE request[q].proc # p
    BY <1>1, <1>2, <1>3, <2>1 DEF Attended, RequestTypeOK
  <2>2. CASE request[q].proc = p /\ (Start(p) \/ Up(p) \/ StartFails(p))
    BY <1>1, <2>2 DEF Attended, RequestTypeOK, Start, Up, StartFails
  <2>3. CASE request[q].proc = p /\ Signal(p)
    BY <1>1, <2>3 DEF Attended, RequestTypeOK, Signal
  <2>4. CASE request[q].proc = p /\ Drained(p)
    BY <1>1, <2>4 DEF Attended, RequestTypeOK, Drained, Open
  <2>5. CASE request[q].proc = p /\ ShutdownTimeout(p)
    BY <1>1, <2>5 DEF Attended, RequestTypeOK, ShutdownTimeout
  <2>. QED
    BY <2>1, <2>2, <2>3, <2>4, <2>5
<1>. QED
  BY <1>1, <1>3

\* A process ends: what it had not answered is lost.
LEMMA EndStep ==
  ASSUME RequestInv, LifecycleTypeOK, NEW p \in Processes, Close(p) \/ Crash(p)
  PROVE  RequestInv'
<1> USE DeploymentAssumption, MigrationAssumption DEF RequestInv, LifecycleTypeOK
<1>1. /\ phase[p] \in {"serving", "draining", "closing"}
      /\ phase' = [phase EXCEPT ![p] = "exited"]
      /\ \/ ending' = [ending EXCEPT ![p] = "crash"]
         \/ /\ phase[p] = "closing"
            /\ ending' = [ending EXCEPT ![p] = IF @ = "timeout" THEN "timeout" ELSE "clean"]
      /\ Lost(p)
  BY DEF Close, Crash, Exit
<1>2. RequestTypeOK'
  <2> DEFINE T == [at : {"new", "handler", "tx", "write", "answered", "lost"},
                   proc : Processes \cup {NULL}, uses : Nat, conn : BOOLEAN,
                   answer : {"none", "closed", "error", "done"}]
  <2>1. \A q \in Requests : request[q] \in T
    BY DEF RequestTypeOK
  <2>2. \A x \in T : [x EXCEPT !.at = "lost", !.conn = FALSE] \in T
    OBVIOUS
  <2> HIDE DEF T
  <2>3. request' \in [Requests -> T]
    BY <1>1, <2>1, <2>2 DEF Lost
  <2>. QED
    BY <2>3 DEF T, RequestTypeOK
<1>3. ASSUME NEW q \in Requests PROVE Attended(q)'
  <2>1. request'[q] = IF q \in Open(p) THEN [request[q] EXCEPT !.at = "lost", !.conn = FALSE]
                      ELSE request[q]
    BY <1>1, <1>3 DEF Lost
  <2>2. CASE q \in Open(p)
    <3>1. /\ request[q].proc = p /\ request[q].at \in {"handler", "tx", "write"}
          /\ request'[q].proc = p /\ request'[q].at = "lost"
      BY <2>1, <2>2 DEF Open, RequestTypeOK
    <3>. QED
      BY <1>1, <1>3, <3>1 DEF Attended
  <2>3. CASE q \notin Open(p)
    <3>1. request'[q] = request[q]
      BY <2>1, <2>3
    <3>2. CASE request[q].proc # p
      BY <1>1, <1>3, <3>1, <3>2 DEF Attended, RequestTypeOK
    <3>3. CASE request[q].proc = p
      BY <1>1, <1>3, <2>3, <3>1, <3>3 DEF Attended, RequestTypeOK, Open
    <3>. QED
      BY <3>2, <3>3
  <2>. QED
    BY <2>2, <2>3
<1>. QED
  BY <1>2, <1>3

LEMMA RequestStep ==
  ASSUME RequestInv, LifecycleTypeOK, [DeploymentNext]_deploymentVars
  PROVE  RequestInv'
<1>1. ASSUME NEW p \in Processes, NEW q \in Requests, Accept(p, q)
      PROVE  RequestInv'
  <2> USE DEF RequestInv, RequestTypeOK
  <2>1. /\ UNCHANGED <<phase, ending>>
        /\ phase[p] = "serving" /\ Role[p] = "api"
        /\ RequestTypeOK'
        /\ \A x \in Requests \ {q} : request'[x] = request[x]
        /\ request'[q].at = "handler" /\ request'[q].proc = p
        /\ request'[q].answer = "none"
    BY <1>1, DeploymentAssumption DEF Accept, Unsent
  <2>. QED
    BY <2>1 DEF Attended
<1>2. ASSUME UNCHANGED <<phase, ending, request>>
      PROVE  RequestInv'
  BY <1>2 DEF RequestInv, RequestTypeOK, Attended
<1>3. ASSUME NEW p \in Processes,
             \/ (Migrating(p) \/ Trouble(p)) /\ UNCHANGED runVars
             \/ BeginBatch(p) \/ EndBatch(p)
      PROVE  UNCHANGED <<phase, ending, request>>
  BY <1>3 DEF runVars, BeginBatch, EndBatch
<1>4. UNCHANGED deploymentVars => UNCHANGED <<phase, ending, request>>
  BY DEF deploymentVars, runVars
<1>. QED
  BY <1>1, <1>2, <1>3, <1>4, HandleStep, PhaseStep, EndStep DEF DeploymentNext, Stopping

(***************************************************************************)
(* A process that stops on a signal answers every request it had accepted, *)
(* and none with the error of a closed pool, unless the shutdown timed     *)
(* out or the process was killed.                                          *)
(***************************************************************************)
THEOREM GracefulStop == DeploymentSpec => []StopsGracefully
<1>1. DeploymentInit => RequestInv
  BY MigrationAssumption DEF DeploymentInit, Unsent, RequestInv, RequestTypeOK, Attended
<1>2. RequestInv => StopsGracefully
  BY DEF RequestInv, Attended, StopsGracefully
<1>3. LifecycleInv => LifecycleTypeOK
  BY DEF LifecycleInv
<1>. QED
  BY <1>1, <1>2, <1>3, LifecycleCorrect, RequestStep, PTL DEF DeploymentSpec

-----------------------------------------------------------------------------
\* A number that Load accepts is within its bounds.
LEMMA WithinBounds ==
  ASSUME NEW environ, Loads(environ), NEW name \in DOMAIN IntSettings
  PROVE  Read(environ)[name] \in IntSettings[name].min .. IntSettings[name].max
BY DEF Loads

\* What Load reads for a duration is a duration, set or not.
LEMMA DurationRead ==
  ASSUME NEW environ \in Environments, NEW name \in DOMAIN DurationSettings
  PROVE  Read(environ)[name] \in Int
<1>1. DurationSettings[name] \in Int
  BY DEF DurationSettings, Minutes, Second, Millisecond
<1>2. Read(environ)[name] = Get(environ, name, DurationSettings[name])
  BY DEF Read, DurationSettings, IntSettings
<1>. QED
  BY <1>1, <1>2, DeploymentAssumption DEF Get

\* A duration of a millisecond or more arrives, if PostgreSQL takes it at all.
LEMMA DurationArrives ==
  ASSUME NEW duration \in Int, Timeout(duration) <= TimeoutLimit
  PROVE  Arrives(duration, Timeout(duration))
BY ConfigAssumption DEF Timeout, Millisecond, Arrives

\* The settings that the components test again.
LEMMA SettingsSuffice ==
  ASSUME NEW c,
         c.WORKER_BATCH_SIZE \in 1..1000,
         c.DEMO_MAX_CONCURRENCY \in 1..100,
         c.WORKER_POLL_INTERVAL > 0,
         c.DATABASE_MIN_CONNS <= c.DATABASE_MAX_CONNS,
         c.DATABASE_STATEMENT_TIMEOUT \in Int,
         c.DATABASE_TRANSACTION_TIMEOUT \in Int,
         Connects(PoolConfig(c))
  PROVE  Serviceable(c)
<1>1. ~ (c.WORKER_BATCH_SIZE <= 0 \/ c.WORKER_BATCH_SIZE > 1000)
  BY SMTT(30)
<1>2. ~ (c.DEMO_MAX_CONCURRENCY < 1 \/ c.DEMO_MAX_CONCURRENCY > 100)
  OBVIOUS
<1>3. PoolConfig(c).minConns <= PoolConfig(c).maxConns
  BY DEF PoolConfig
<1>4. /\ PoolConfig(c).statement_timeout = Timeout(c.DATABASE_STATEMENT_TIMEOUT)
      /\ PoolConfig(c).transaction_timeout = Timeout(c.DATABASE_TRANSACTION_TIMEOUT)
  BY DEF PoolConfig
<1>5. /\ Timeout(c.DATABASE_STATEMENT_TIMEOUT) <= TimeoutLimit
      /\ Timeout(c.DATABASE_TRANSACTION_TIMEOUT) <= TimeoutLimit
  BY <1>4 DEF Connects
<1>6. Arrives(c.DATABASE_STATEMENT_TIMEOUT, PoolConfig(c).statement_timeout)
  BY <1>4, <1>5, DurationArrives
<1>7. Arrives(c.DATABASE_TRANSACTION_TIMEOUT, PoolConfig(c).transaction_timeout)
  BY <1>4, <1>5, DurationArrives
<1>. QED
  BY <1>1, <1>2, <1>3, <1>6, <1>7, ZenonT(60) DEF Serviceable

\* What Load and PostgreSQL accept, the components can work with.
LEMMA AcceptedSuits ==
  ASSUME NEW environ \in Environments, Starts(environ)
  PROVE  Serviceable(Read(environ))
<1> DEFINE c == Read(environ)
<1>1. Loads(environ) /\ Connects(PoolConfig(c))
  BY DEF Starts
<1>2. c.WORKER_BATCH_SIZE \in 1..1000
  BY <1>1, WithinBounds, SMTT(30) DEF IntSettings
<1>3. c.DEMO_MAX_CONCURRENCY \in 1..100
  BY <1>1, WithinBounds DEF IntSettings
<1>4. c.WORKER_POLL_INTERVAL > 0
  BY <1>1 DEF Loads, DurationSettings
<1>5. c.DATABASE_MIN_CONNS <= c.DATABASE_MAX_CONNS
  BY <1>1 DEF Loads
<1>6. /\ c.DATABASE_STATEMENT_TIMEOUT \in Int
      /\ c.DATABASE_TRANSACTION_TIMEOUT \in Int
  BY DurationRead DEF DurationSettings
<1> HIDE DEF c
<1>. QED
  BY <1>1, <1>2, <1>3, <1>4, <1>5, <1>6, SettingsSuffice DEF c

\* A process that is up has come through Start, whatever happened to it since.
UpStarted == \A p \in Processes : phase[p] \notin {"off", "exited"} => Starts(Environ[p])

LEMMA UpStartedStep ==
  ASSUME LifecycleTypeOK, UpStarted, [DeploymentNext]_deploymentVars
  PROVE  UpStarted'
<1> SUFFICES ASSUME NEW x \in Processes, phase'[x] \notin {"off", "exited"}
             PROVE  Starts(Environ[x])
  BY DEF UpStarted
<1>1. CASE phase[x] \notin {"off", "exited"}
  BY <1>1 DEF UpStarted
<1>2. CASE phase[x] \in {"off", "exited"}
  <2>1. phase' # phase
    BY <1>2
  <2>2. PICK p \in Processes :
          \/ Start(p) \/ Up(p) \/ StartFails(p) \/ Signal(p) \/ ShutdownTimeout(p)
          \/ Drained(p) \/ Close(p) \/ Crash(p)
    BY <2>1 DEF DeploymentNext, deploymentVars, runVars, Stopping, Handle, Accept, Acquire,
       AcquireClosed, Finish, Reply, Write, BeginBatch, EndBatch
  <2>3. CASE Start(p)
    BY <1>2, <2>3 DEF Start, Exit, LifecycleTypeOK
  <2>4. CASE Up(p) \/ StartFails(p) \/ Signal(p) \/ ShutdownTimeout(p) \/ Drained(p)
             \/ Close(p) \/ Crash(p)
    BY <1>2, <2>4 DEF Up, StartFails, Signal, ShutdownTimeout, Drained, Close, Crash, Exit,
       LifecycleTypeOK
  <2>. QED
    BY <2>2, <2>3, <2>4
<1>. QED
  BY <1>1, <1>2

(***************************************************************************)
(* Whatever the environments: what config.Load accepts and PostgreSQL lets *)
(* connect, the worker, the public demo and the pool can work with, and no *)
(* process is ever up with anything else.                                  *)
(***************************************************************************)
THEOREM ConfigurationSuits == DeploymentSpec => []AcceptedServes
<1>1. DeploymentInit => UpStarted
  BY DEF DeploymentInit, UpStarted
<1>2. UpStarted => AcceptedServes
  <2> SUFFICES ASSUME UpStarted
               PROVE  AcceptedServes
    OBVIOUS
  <2>1. ASSUME NEW p \in Processes, phase[p] \notin {"off", "exited"}
        PROVE  Serviceable(cfg[p])
    <3>1. Starts(Environ[p]) /\ Environ[p] \in Environments
      BY <2>1, DeploymentAssumption DEF UpStarted
    <3>2. cfg[p] = Read(Environ[p])
      BY DEF cfg
    <3>. QED
      BY <3>1, <3>2, AcceptedSuits
  <2>. QED
    BY <2>1, AcceptedSuits DEF AcceptedServes
<1>3. LifecycleInv => LifecycleTypeOK
  BY DEF LifecycleInv
<1>. QED
  BY <1>1, <1>2, <1>3, LifecycleCorrect, UpStartedStep, PTL DEF DeploymentSpec
=============================================================================
