-------------------------------- MODULE Store --------------------------------
(***************************************************************************)
(* internal/store at work: any mix of requests, each in a session of its   *)
(* own, the expiration worker, the administrator and time.  The constants  *)
(* below bound what clients ask for; an empty set leaves an operation out. *)
(***************************************************************************)
EXTENDS Reserve, Transition, Expiration, Payment, Catalog

CONSTANTS
  ReserveRequests,      \* reservation requests clients send, under any key
  TransitionTargets,    \* subset of Targets
  PaymentOutcomes,      \* subset of Outcomes
  BatchSizes,           \* batch sizes of the deployed workers
  AdminSaleStates,      \* states SetSaleState is called with
  ActiveFlags           \* values of products.active the administrator sets

ASSUME StoreAssumption ==
  /\ ReserveRequests \subseteq Request
  /\ TransitionTargets \subseteq Targets
  /\ PaymentOutcomes \subseteq Outcomes
  /\ BatchSizes \subseteq 1..1000
  /\ AdminSaleStates \subseteq {"active", "ended", "cancelled"}
  /\ ActiveFlags \subseteq BOOLEAN

Requests(self) ==
  \/ \E k \in Keys, req \in ReserveRequests : BeginReserve(self, k, req)
  \/ \E id \in ReservationIDs, target \in TransitionTargets : BeginTransition(self, id, target)
  \/ \E limit \in BatchSizes : BeginExpire(self, limit)
  \/ \E k \in PaymentKeys, id \in ReservationIDs, outcome \in PaymentOutcomes :
       BeginPayment(self, k, [outcome |-> outcome, order_id |-> id])

Step(self) == ReserveStep(self) \/ TransitionStep(self) \/ ExpireStep(self) \/ PaymentStep(self)

Administrator ==
  \/ \E p \in Products, active \in ActiveFlags :
       \/ CreateProduct(p, active)
       \/ UpdateProduct(p, active)
       \/ \E n \in StockLevels : UpdateProductInventory(p, active, n)
  \/ \E s \in Sales :
       \/ CreateSale(s)
       \/ \E state \in AdminSaleStates : SetSaleState(s, state)

Init == TablesInit /\ SessionsInit

Next ==
  \/ Tick /\ UNCHANGED sessions
  \/ Administrator
  \/ \E self \in Sessions : Requests(self) \/ Step(self) \/ Abort(self)

Spec == Init /\ [][Next]_vars

-----------------------------------------------------------------------------
(***************************************************************************)
(* Waiting.  The lock that a transaction's next statement has to have, if  *)
(* it needs one; a guarded UPDATE whose row does not match needs none (the *)
(* guards of payment and expiration always match: UnitsAreThere).          *)
(***************************************************************************)
ReserveWants(x) ==
  LET s == x.request.sale_id
      p == ProductOf[s]
      q == x.request.quantity
  IN CASE x.at = "claim" /\ x.key \notin DOMAIN idempotency_keys ->
            {<<"idempotency_keys", x.key, "update">>}
       [] x.at = "advisory" -> {<<"advisory", <<s, x.request.spelling, x.request.user_id>>, "update">>}
       [] x.at = "sale" /\ SaleMatches(s, q) -> {<<"flash_sales", s, "no key update">>}
       [] x.at = "inventory" /\ InventoryMatches(p, q) -> {<<"inventory", p, "no key update">>}
       [] OTHER -> {}

TransitionWants(x) ==
  LET s == reservations[x.id].sale_id IN
  CASE x.at = "lock" /\ x.id \in DOMAIN reservations -> {<<"reservations", x.id, "update">>}
    [] x.at = "order" -> {<<"orders", x.id, "no key update">>}
    [] x.at = "inventory" /\ ReservedCovers(x.id) ->
         {<<"inventory", ProductOf[s], "no key update">>}
    [] x.at = "sale" -> {<<"flash_sales", s, "no key update">>}
    [] OTHER -> {}

ExpireWants(x) ==
  LET s == reservations[x.current].sale_id IN
  CASE x.at = "inventory" -> {<<"inventory", ProductOf[s], "no key update">>}
    [] x.at = "sale" -> {<<"flash_sales", s, "no key update">>}
    [] x.at = "order" -> {<<"orders", x.current, "no key update">>}
    [] OTHER -> {}

PaymentWants(x) ==
  LET o == x.request.order_id IN
  CASE x.at = "insert" /\ x.key \notin DOMAIN payments -> {<<"payments", x.key, "update">>}
    [] x.at = "foreign key" /\ o \in DOMAIN orders -> {<<"orders", o, "key share">>}
    [] x.at = "lock order" -> {<<"orders", o, "update">>}
    [] x.at = "lock reservation" -> {<<"reservations", o, "update">>}
    [] x.at = "inventory" ->
         {<<"inventory", ProductOf[reservations[o].sale_id], "no key update">>}
    [] OTHER -> {}

Wants(self) ==
  CASE tx[self].op = "reserve"    -> ReserveWants(tx[self])
    [] tx[self].op = "transition" -> TransitionWants(tx[self])
    [] tx[self].op = "expire"     -> ExpireWants(tx[self])
    [] tx[self].op = "payment"    -> PaymentWants(tx[self])
    [] OTHER -> {}

\* Session self waits for a lock of session t.
WaitsFor(self, t) ==
  /\ self # t
  /\ \E w \in Wants(self), h \in held[t] :
       h[1] = w[1] /\ h[2] = w[2] /\ ~ Compatible(h[3], w[3])

(***************************************************************************)
(* The sessions of D are stuck: each waits for another of them, or for the *)
(* lock of a transaction that is over.  PostgreSQL's detector makes one of *)
(* the transactions of such a set fail.                                    *)
(***************************************************************************)
Deadlock(D) ==
  /\ D # {}
  /\ \A self \in D : \E t \in Sessions : WaitsFor(self, t) /\ (t \in D \/ tx[t] = Idle)

DeadlockDetector == \E D \in SUBSET Sessions : Deadlock(D) /\ \E self \in D : Abort(self)

(***************************************************************************)
(* PostgreSQL grants a lock in the order of its queue, so a transaction    *)
(* whose next statement can run again and again does run it; and it runs   *)
(* its deadlock detector.  Nothing is assumed of the clients, the clock or *)
(* the administrator, and a transaction may always be aborted.             *)
(***************************************************************************)
Fairness ==
  /\ \A self \in Sessions : SF_vars(Step(self))
  /\ WF_vars(DeadlockDetector)

FairSpec == Spec /\ Fairness

(***************************************************************************)
(* For the worker: expirationworker.Run ticks for ever, an error only      *)
(* makes it wait for the next tick, and trouble is transient: from some    *)
(* time on no transaction is aborted, be it by a fault or by a deadlock.   *)
(***************************************************************************)
WorkerFairness ==
  /\ SF_vars(\E self \in Sessions, limit \in BatchSizes : BeginExpire(self, limit))
  /\ <>[][\A self \in Sessions : ~ Abort(self)]_vars


-----------------------------------------------------------------------------
(***************************************************************************)
(* Every open transaction is one of the four operations at one of its      *)
(* statements, locks are held by open transactions only, and two sessions  *)
(* never hold conflicting locks on a row.                                  *)
(***************************************************************************)
Statements ==
  [none       |-> {"idle"},
   reserve    |-> {"claim", "replay", "advisory", "read", "limit", "sale", "inventory",
                   "commit"},
   transition |-> {"lock", "order", "inventory", "sale", "commit"},
   expire     |-> {"select", "inventory", "sale", "order", "commit"},
   payment    |-> {"insert", "replay", "foreign key", "lock order", "lock reservation",
                   "inventory", "commit"}]

TypeOK ==
  /\ TablesTypeOK
  /\ \A self \in Sessions :
       /\ tx[self].op \in DOMAIN Statements
       /\ tx[self].at \in Statements[tx[self].op]
       /\ tx[self] = Idle => held[self] = {}
       /\ \A l \in held[self] : Free(self, l[1], l[2], l[3])

(***************************************************************************)
(* What a client was told about its reservation request is what the        *)
(* database holds for its key, and will be told again by every retry;      *)
(* and of all the requests sent under one key at most one was answered as  *)
(* the original (201), the others as duplicates.                           *)
(***************************************************************************)
AnswersDurable ==
  \A self \in Sessions :
    LET a == reply[self] IN
    a.op = "reserve" /\ a.code # "IDEMPOTENCY_CONFLICT" =>
      /\ a.key \in DOMAIN idempotency_keys
      /\ idempotency_keys[a.key] =
           [request |-> a.request, code |-> a.code, resource_id |-> a.resource_id]
      /\ a.code = "CREATED" /\ ~ a.duplicate =>
           \A other \in Sessions \ {self} :
             ~ ( /\ reply[other].op = "reserve"
                 /\ reply[other].key = a.key
                 /\ reply[other].code = "CREATED"
                 /\ ~ reply[other].duplicate )

\* The same of payments: the answered status is the stored one, for good.
PaymentAnswersDurable ==
  \A self \in Sessions :
    LET a == reply[self] IN
    a.op = "payment" /\ a.code \in PaymentStatuses =>
      /\ a.key \in DOMAIN payments
      /\ payments[a.key] = [outcome |-> a.request.outcome,
                            order_id |-> a.request.order_id, status |-> a.code]

(***************************************************************************)
(* The only deadlocks there are.  Reservation requests lock sale before    *)
(* inventory, cancellations and expirations the other way round; payments  *)
(* lock the order before the reservation, transitions the other way round, *)
(* and two payments of an order each hold its foreign key check's lock     *)
(* when they want it FOR UPDATE.  Everything else takes its locks in one   *)
(* order: in any deadlock there is a transaction that gives units back and *)
(* already has an inventory row, or there are two on one order of which    *)
(* one is a payment.                                                       *)
(***************************************************************************)
OnOrder(self, o) ==
  \/ tx[self].op = "transition" /\ tx[self].id = o
  \/ tx[self].op = "expire" /\ o \in tx[self].batch
  \/ tx[self].op = "payment" /\ tx[self].request.order_id = o

GivesBack(self) ==
  /\ tx[self].op \in {"transition", "expire"}
  /\ \E l \in held[self] : l[1] = "inventory"

NoDeadlock ==
  \A D \in SUBSET Sessions : Deadlock(D) =>
    \/ \E self \in D : GivesBack(self)
    \/ \E self, t \in D : self # t /\ tx[self].op = "payment"
                           /\ OnOrder(t, tx[self].request.order_id)

(***************************************************************************)
(* The guard reserved >= quantity of the UPDATEs that take a reservation's *)
(* units out of `reserved` never fails.  So no cancellation, which does    *)
(* not look at RowsAffected, silently keeps its units; and no payment and  *)
(* no batch, which do, ends in "inventory invariant prevented ..." and     *)
(* would fail again at every tick.                                         *)
(***************************************************************************)
UnitsAreThere ==
  \A self \in Sessions :
    /\ At(self, "transition", "inventory") => ReservedCovers(tx[self].id)
    /\ At(self, "payment", "inventory") => ReservedCovers(tx[self].request.order_id)
    /\ At(self, "expire", "inventory") => Restorable(self)

\* Every request is answered, whatever it has to wait for and whoever aborts.
RequestsAnswered == \A self \in Sessions : tx[self] # Idle ~> tx[self] = Idle

(***************************************************************************)
(* A reservation that is due does not keep its units: it is expired, or    *)
(* was confirmed or cancelled first, even with one row per batch, workers  *)
(* that skip each other's rows, deadlocks and aborted batches.             *)
(***************************************************************************)
DueIsSettled ==
  WorkerFairness =>
    \A r \in ReservationIDs :
      ( /\ r \in DOMAIN reservations
        /\ reservations[r].state = "pending"
        /\ reservations[r].expires_at <= clock ) ~>
        (r \in DOMAIN reservations /\ reservations[r].state # "pending")

(***************************************************************************)
(* The interleaved statements amount to whole transactions, each acting on *)
(* the tables as they are when it commits.                                 *)
(***************************************************************************)
Ledger == INSTANCE StockLedger

ImplementsLedger == Ledger!Spec
=============================================================================
