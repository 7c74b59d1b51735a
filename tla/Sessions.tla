------------------------------ MODULE Sessions ------------------------------
(***************************************************************************)
(* Requests in progress.  Each session is one handler goroutine (or the    *)
(* expiration worker) with its database connection and one transaction at  *)
(* a time.  A transaction runs statement by statement under READ COMMITTED *)
(* with PostgreSQL's row locks; what it has written is seen by the others  *)
(* when it commits, so the variables of Tables always hold what is         *)
(* committed and the writes of an open transaction follow from its record  *)
(* in tx.  Statements that touch only rows the transaction itself inserted *)
(* or already locked are part of the step before or after them.            *)
(***************************************************************************)
EXTENDS Tables

CONSTANTS Sessions

VARIABLES
  tx,      \* the transaction of each session: its next statement and locals
  held,    \* the locks each session's transaction holds until it ends
  reply    \* what the last finished request of each session was answered

sessions == <<tx, held, reply>>
vars == <<clock, tables, sessions>>

Idle == [at |-> "idle", op |-> "none"]

(***************************************************************************)
(* Locks are <<table, id, mode>>.  FOR UPDATE conflicts with every mode;   *)
(* the lock of an UPDATE that leaves the key alone ("no key update") lets  *)
(* a foreign key check ("key share") through, and two of those coexist.    *)
(* A unique key inserted and not yet committed, and an advisory lock, are  *)
(* locks of mode "update".                                                 *)
(***************************************************************************)
Compatible(m, n) == "key share" \in {m, n} /\ "update" \notin {m, n}

Free(self, table, id, mode) ==
  \A t \in Sessions \ {self} : \A l \in held[t] :
    l[1] = table /\ l[2] = id => Compatible(l[3], mode)

Acquire(self, table, id, mode) ==
  /\ Free(self, table, id, mode)
  /\ held' = [held EXCEPT ![self] = @ \cup {<<table, id, mode>>}]

\* No open transaction has the row locked: a one-statement UPDATE can run.
Unlocked(table, id) ==
  \A t \in Sessions : \A l \in held[t] :
    l[1] = table /\ l[2] = id => Compatible(l[3], "no key update")

\* Session self is at this statement of this operation.
At(self, op, statement) == tx[self].op = op /\ tx[self].at = statement

Goto(self, statement) == tx' = [tx EXCEPT ![self].at = statement]

\* The transaction ends, by COMMIT or ROLLBACK, and the request is answered.
Finish(self, answer) ==
  /\ tx' = [tx EXCEPT ![self] = Idle]
  /\ held' = [held EXCEPT ![self] = {}]
  /\ reply' = [reply EXCEPT ![self] = answer]

\* The request fails with an error that says nothing about the tables.
InternalError == [op |-> "none", code |-> "INTERNAL_ERROR"]

Begin(self, transaction) ==
  /\ tx[self] = Idle
  /\ tx' = [tx EXCEPT ![self] = transaction]
  /\ reply' = [reply EXCEPT ![self] = InternalError]
  /\ UNCHANGED <<clock, tables, held>>

\* Without the deferred rollback the connection would keep its locks.
AbortWithoutRollback(self) ==
  /\ tx[self] # Idle
  /\ tx' = [tx EXCEPT ![self] = Idle]
  /\ reply' = [reply EXCEPT ![self] = InternalError]
  /\ UNCHANGED <<clock, tables, held>>

(***************************************************************************)
(* A transaction ends without committing: the client went away and its     *)
(* context was cancelled, the statement timeout or the deadlock detector   *)
(* struck, the connection broke, or the process died.  The deferred        *)
(* rollback (or the server, on a lost connection) discards its writes.     *)
(***************************************************************************)
Abort(self) ==
  /\ tx[self] # Idle
  /\ Finish(self, InternalError)
  /\ UNCHANGED <<clock, tables>>

SessionsInit ==
  /\ tx = [self \in Sessions |-> Idle]
  /\ held = [self \in Sessions |-> {}]
  /\ reply = [self \in Sessions |-> InternalError]
=============================================================================
