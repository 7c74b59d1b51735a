---------------------------- MODULE Deployment ----------------------------
(***************************************************************************)
(* The programs cmd/api, cmd/worker and cmd/migrate as processes: they     *)
(* load their configuration, open a connection pool, migrate if they are   *)
(* to, serve requests and run the worker over the pool's few connections,  *)
(* and stop on a signal.                                                   *)
(***************************************************************************)
EXTENDS Migration, Config, FiniteSets

CONSTANTS
  Role,       \* "api", "worker" or "migrate"
  Environ,    \* each process' environment
  Requests,   \* requests, each sent to some API once
  MaxUses,    \* how often a handler goes to the pool: twice for confirm, whose
              \* GetReservation follows the commit
  Environments    \* environments to try Load with

ASSUME DeploymentAssumption ==
  /\ Role \in [Processes -> {"api", "worker", "migrate"}]
  /\ MaxUses \in Nat \ {0}
  /\ Environ \in [Processes -> Environments]
  /\ \A environ \in Environments : \A name \in DOMAIN environ \cap DOMAIN DurationSettings :
       environ[name] \in Int

VARIABLES
  phase,     \* of each process
  ending,    \* how it came to stop
  request,   \* of each request: where it is, its process and its connection
  batch      \* the processes whose worker has a batch open

runVars == <<phase, ending, request, batch>>
deploymentVars == <<migrationVars, runVars>>

cfg == [p \in Processes |-> Read(Environ[p])]
pool == [p \in Processes |-> PoolConfig(cfg[p])]
Migrates == {p \in Processes : Role[p] = "migrate" \/ cfg[p].RUN_MIGRATIONS}
Works == {p \in Processes : Role[p] = "worker" \/ cfg[p].RUN_WORKER}

\* The requests a process has not answered, and the connections it has in use.
Open(p) == {q \in Requests : request[q].proc = p /\ request[q].at \in {"handler", "tx", "write"}}
InUse(p) == {q \in Requests : request[q].proc = p /\ request[q].conn} \cup (batch \cap {p})
Free(p) == Cardinality(InUse(p)) < pool[p].maxConns

Exit(p, how) ==
  /\ phase' = [phase EXCEPT ![p] = "exited"]
  /\ ending' = [ending EXCEPT ![p] = how]

-----------------------------------------------------------------------------
\* config.Load and OpenWithOptions; docker-compose starts a process that does
\* not migrate when the migrate command of its release has succeeded.
Start(p) ==
  /\ phase[p] = "off"
  /\ p \notin Migrates => \E m \in Processes : /\ Role[m] = "migrate" /\ Files[m] = Files[p]
                                           /\ phase[m] = "exited" /\ ending[m] = "clean"
  /\ \/ /\ Starts(Environ[p])
        /\ phase' = [phase EXCEPT ![p] = "starting"]
        /\ UNCHANGED ending
        /\ IF p \in Migrates THEN BeginMigrate(p) ELSE UNCHANGED migrationVars
     \/ Exit(p, "failed") /\ UNCHANGED migrationVars    \* the configuration or the ping
  /\ UNCHANGED <<request, batch>>

\* A server that does not wait for its migrations.
UpEarly(p) ==
  /\ phase[p] = "starting"
  /\ IF Role[p] = "migrate" THEN at[p] = "ok" /\ Exit(p, "clean")
     ELSE phase' = [phase EXCEPT ![p] = "serving"] /\ UNCHANGED ending
  /\ UNCHANGED <<migrationVars, request, batch>>

\* Migrate has returned: the job is done, or the server starts to listen.
Up(p) ==
  /\ phase[p] = "starting"
  /\ p \in Migrates => at[p] = "ok"
  /\ IF Role[p] = "migrate" THEN Exit(p, "clean")
     ELSE phase' = [phase EXCEPT ![p] = "serving"] /\ UNCHANGED ending
  /\ UNCHANGED <<migrationVars, request, batch>>

StartFails(p) ==
  /\ phase[p] = "starting"
  /\ p \in Migrates /\ at[p] = "failed"
  /\ Exit(p, "failed")
  /\ UNCHANGED <<migrationVars, request, batch>>

-----------------------------------------------------------------------------
Unsent == [at |-> "new", proc |-> NULL, uses |-> 0, conn |-> FALSE, answer |-> "none"]

Accept(p, q) ==
  /\ phase[p] = "serving" /\ Role[p] = "api"
  /\ request[q] = Unsent
  /\ \E uses \in 1..MaxUses :
       request' = [request EXCEPT ![q].at = "handler", ![q].proc = p, ![q].uses = uses]
  /\ UNCHANGED <<migrationVars, phase, ending, batch>>

\* pool.Begin or pool.QueryRow: wait for a connection.
Acquire(q) ==
  LET p == request[q].proc IN
  /\ request[q].at = "handler" /\ request[q].uses > 0
  /\ phase[p] \in {"serving", "draining"}
  /\ Free(p)
  /\ request' = [request EXCEPT ![q].at = "tx", ![q].conn = TRUE]
  /\ UNCHANGED <<migrationVars, phase, ending, batch>>

\* pool.Close has been called: the handler gets an error and answers 500.
AcquireClosed(q) ==
  /\ request[q].at = "handler" /\ request[q].uses > 0
  /\ phase[request[q].proc] = "closing"
  /\ request' = [request EXCEPT ![q].at = "write", ![q].answer = "closed"]
  /\ UNCHANGED <<migrationVars, phase, ending, batch>>

\* An error path that forgets to roll back.
FinishLeaking(q) ==
  /\ request[q].at = "tx"
  /\ \/ request' = [request EXCEPT ![q].at = "handler", ![q].uses = @ - 1, ![q].conn = FALSE]
     \/ request' = [request EXCEPT ![q].at = "write", ![q].answer = "error"]
  /\ UNCHANGED <<migrationVars, phase, ending, batch>>

\* COMMIT, or an error and the deferred rollback: the connection goes back.
Finish(q) ==
  /\ request[q].at = "tx"
  /\ \/ request' = [request EXCEPT ![q].at = "handler", ![q].uses = @ - 1, ![q].conn = FALSE]
     \/ request' = [request EXCEPT ![q].at = "write", ![q].answer = "error", ![q].conn = FALSE]
  /\ UNCHANGED <<migrationVars, phase, ending, batch>>

Reply(q) ==
  /\ request[q].at = "handler" /\ request[q].uses = 0
  /\ request' = [request EXCEPT ![q].at = "write", ![q].answer = "done"]
  /\ UNCHANGED <<migrationVars, phase, ending, batch>>

Write(q) ==
  /\ request[q].at = "write"
  /\ request' = [request EXCEPT ![q].at = "answered"]
  /\ UNCHANGED <<migrationVars, phase, ending, batch>>

\* expirationworker.Run: a tick's batch takes a connection; it ends by itself or
\* with the context.
BeginBatch(p) ==
  /\ phase[p] = "serving" /\ p \in Works /\ p \notin batch
  /\ Free(p)
  /\ batch' = batch \cup {p}
  /\ UNCHANGED <<migrationVars, phase, ending, request>>

EndBatch(p) ==
  /\ p \in batch
  /\ batch' = batch \ {p}
  /\ UNCHANGED <<migrationVars, phase, ending, request>>

-----------------------------------------------------------------------------
\* SIGTERM, or the listener failed.  The API stops accepting; the worker's Run
\* returns and with it main.
Signal(p) ==
  /\ phase[p] = "serving"
  /\ phase' = [phase EXCEPT ![p] = IF Role[p] = "api" THEN "draining" ELSE "closing"]
  /\ UNCHANGED <<migrationVars, ending, request, batch>>

\* A Shutdown that returns at once.
DrainedAtOnce(p) ==
  /\ phase[p] = "draining"
  /\ phase' = [phase EXCEPT ![p] = "closing"]
  /\ UNCHANGED <<migrationVars, ending, request, batch>>

\* server.Shutdown returns when every request is answered, or after SHUTDOWN_TIMEOUT.
Drained(p) ==
  /\ phase[p] = "draining"
  /\ Open(p) = {}
  /\ phase' = [phase EXCEPT ![p] = "closing"]
  /\ UNCHANGED <<migrationVars, ending, request, batch>>

ShutdownTimeout(p) ==
  /\ phase[p] = "draining"
  /\ phase' = [phase EXCEPT ![p] = "closing"]
  /\ ending' = [ending EXCEPT ![p] = "timeout"]
  /\ UNCHANGED <<migrationVars, request, batch>>

\* The process is gone, and the requests it had not answered with it.
Lost(p) ==
  request' = [q \in Requests |->
    IF q \in Open(p) THEN [request[q] EXCEPT !.at = "lost", !.conn = FALSE] ELSE request[q]]

\* pool.Close waits for the connections in use; then main returns.
Close(p) ==
  /\ phase[p] = "closing"
  /\ InUse(p) = {}
  /\ Exit(p, IF ending[p] = "timeout" THEN "timeout" ELSE "clean")
  /\ Lost(p)
  /\ UNCHANGED <<migrationVars, batch>>

Crash(p) ==
  /\ phase[p] \in {"serving", "draining", "closing"}
  /\ Exit(p, "crash")
  /\ Lost(p)
  /\ batch' = batch \ {p}
  /\ UNCHANGED migrationVars

-----------------------------------------------------------------------------
DeploymentInit ==
  /\ MigrationInit
  /\ phase = [p \in Processes |-> "off"]
  /\ ending = [p \in Processes |-> "none"]
  /\ request = [q \in Requests |-> Unsent]
  /\ batch = {}

Handle(q) == Acquire(q) \/ AcquireClosed(q) \/ Finish(q) \/ Reply(q) \/ Write(q)

Stopping(p) == Drained(p) \/ Close(p)

DeploymentNext ==
  \/ \E p \in Processes :
       \/ (Migrating(p) \/ Trouble(p)) /\ UNCHANGED runVars
       \/ Start(p) \/ Up(p) \/ StartFails(p)
       \/ \E q \in Requests : Accept(p, q)
       \/ BeginBatch(p) \/ EndBatch(p)
       \/ Signal(p) \/ ShutdownTimeout(p) \/ Stopping(p) \/ Crash(p)
  \/ \E q \in Requests : Handle(q)

(***************************************************************************)
(* A started process goes on, waiters for a connection are served in       *)
(* order, every transaction ends (transaction_timeout sees to it), and     *)
(* time passes, so a shutdown that does not drain times out.               *)
(***************************************************************************)
DeploymentFairness ==
  /\ \A p \in Processes :
       /\ WF_deploymentVars(Migrating(p) /\ UNCHANGED runVars)
       /\ WF_deploymentVars(at[p] \notin Steps /\ SessionEnds(p) /\ UNCHANGED runVars)
       /\ WF_deploymentVars(Up(p) \/ StartFails(p))
       /\ WF_deploymentVars(EndBatch(p))
       /\ WF_deploymentVars(ShutdownTimeout(p) \/ Stopping(p))
  /\ \A q \in Requests : SF_deploymentVars(Handle(q))

DeploymentSpec ==
  DeploymentInit /\ [][DeploymentNext]_deploymentVars /\ DeploymentFairness

-----------------------------------------------------------------------------
(***************************************************************************)
(* No process serves on a schema its release does not know: its own        *)
(* Migrate, or the migrate command it waited for, has applied every file.  *)
(***************************************************************************)
ServesUpToDate ==
  \A p \in Processes : phase[p] \in {"serving", "draining"} => Files[p] <= Len(schema)

(***************************************************************************)
(* A graceful stop: a request that was accepted is answered, and from an   *)
(* open pool, unless the process was killed or its shutdown ran into the   *)
(* timeout.                                                                *)
(***************************************************************************)
StopsGracefully ==
  \A q \in Requests :
    request[q].at = "lost" \/ request[q].answer = "closed" =>
      ending[request[q].proc] \in {"crash", "timeout"}

(***************************************************************************)
(* Everybody gets through a pool of few connections, and every process     *)
(* that was told to stop exits.                                            *)
(***************************************************************************)
RequestsEnd == \A q \in Requests : request[q].at = "handler" ~> request[q].at \in {"answered", "lost"}
StopsWhenTold == \A p \in Processes : phase[p] = "draining" ~> phase[p] = "exited"

(***************************************************************************)
(* A configuration that Load accepts either stops the process at once,     *)
(* because PostgreSQL refuses the ping's connection (Load sets no upper    *)
(* bound to a timeout), or never makes a component refuse its work later:  *)
(* ExpireBatch and ReservePublicDemo have bounds of their own, a ticker    *)
(* needs a positive interval, a pool a consistent size, and a timeout of a *)
(* millisecond or more must reach PostgreSQL as a timeout it takes.        *)
(* So it is with every process that is up, and, to have tried them before  *)
(* anything is started, with every environment.                            *)
(***************************************************************************)
Arrives(duration, timeout) == duration >= Millisecond => timeout \in 1..TimeoutLimit

Serviceable(c) ==
  /\ ~ (c.WORKER_BATCH_SIZE <= 0 \/ c.WORKER_BATCH_SIZE > 1000)
  /\ ~ (c.DEMO_MAX_CONCURRENCY < 1 \/ c.DEMO_MAX_CONCURRENCY > 100)
  /\ c.WORKER_POLL_INTERVAL > 0
  /\ PoolConfig(c).minConns <= PoolConfig(c).maxConns
  /\ Arrives(c.DATABASE_STATEMENT_TIMEOUT, PoolConfig(c).statement_timeout)
  /\ Arrives(c.DATABASE_TRANSACTION_TIMEOUT, PoolConfig(c).transaction_timeout)

AcceptedServes ==
  /\ \A p \in Processes : phase[p] \notin {"off", "exited"} => Serviceable(cfg[p])
  /\ (\A p \in Processes : phase[p] = "off") =>
       \A environ \in Environments : Starts(environ) => Serviceable(Read(environ))
=============================================================================
