------------------------------- MODULE Payment -------------------------------
(***************************************************************************)
(* Store.SimulatePayment: one transaction that inserts the payment under   *)
(* its Idempotency-Key, locks the order and its reservation and settles    *)
(* the requested outcome; a key that is already taken is answered from the *)
(* stored payment.  Every error rolls the inserted payment back.           *)
(***************************************************************************)
EXTENDS Sessions

\* The order's id is its reservation's id: orders.reservation_id is unique.
PaymentRequest == [order_id : ReservationIDs, outcome : Outcomes]

BeginPayment(self, k, req) ==
  Begin(self, [request |-> req, at |-> "insert", key |-> k, op |-> "payment"])

PaymentReply(k, req, code, duplicate) ==
  [request |-> req, key |-> k, op |-> "payment", code |-> code, duplicate |-> duplicate]

FailPayment(self, code) ==
  Finish(self, PaymentReply(tx[self].key, tx[self].request, code, FALSE))

\* INSERT INTO payments ... ON CONFLICT (idempotency_key) DO NOTHING
InsertPayment(self) ==
  LET k == tx[self].key IN
  /\ At(self, "payment", "insert")
  /\ \/ /\ k \in DOMAIN payments
        /\ Goto(self, "replay")
        /\ UNCHANGED held
     \/ /\ k \notin DOMAIN payments
        /\ Acquire(self, "payments", k, "update")
        /\ Goto(self, "foreign key")
  /\ UNCHANGED <<clock, tables, reply>>

\* Replaying without comparing the fingerprints.
ReplayPaymentUnchecked(self) ==
  LET k == tx[self].key IN
  /\ At(self, "payment", "replay")
  /\ Finish(self, PaymentReply(k, tx[self].request, payments[k].status, TRUE))
  /\ UNCHANGED <<clock, tables>>

\* The stored payment's request is compared by fingerprint.
ReplayPayment(self) ==
  LET k == tx[self].key
      req == tx[self].request
      row == payments[k]
  IN /\ At(self, "payment", "replay")
     /\ Finish(self,
          IF req = [outcome |-> row.outcome, order_id |-> row.order_id]
          THEN PaymentReply(k, req, row.status, TRUE)
          ELSE PaymentReply(k, req, "IDEMPOTENCY_CONFLICT", FALSE))
     /\ UNCHANGED <<clock, tables>>

\* payments.order_id REFERENCES orders(id), checked as the INSERT ends.
CheckForeignKey(self) ==
  LET o == tx[self].request.order_id IN
  /\ At(self, "payment", "foreign key")
  /\ \/ /\ o \notin DOMAIN orders
        /\ FailPayment(self, "INTERNAL_ERROR")
     \/ /\ o \in DOMAIN orders
        /\ Acquire(self, "orders", o, "key share")
        /\ Goto(self, "lock order")
        /\ UNCHANGED reply
  /\ UNCHANGED <<clock, tables>>

\* SELECT ... FOR UPDATE OF o,r: the order's row first, then the reservation's.
LockOrder(self) ==
  /\ At(self, "payment", "lock order")
  /\ Acquire(self, "orders", tx[self].request.order_id, "update")
  /\ Goto(self, "lock reservation")
  /\ UNCHANGED <<clock, tables, reply>>

\* A failed payment accepted whatever became of the reservation.
SettledFromAny(outcome) ==
  IF outcome = "successful" THEN {"confirmed"} ELSE ReservationStates

\* The reservation states in which an outcome may be settled.
SettledFrom(outcome) ==
  CASE outcome = "successful" -> {"confirmed"}
    [] outcome = "failed"     -> {"confirmed", "pending"}
    [] outcome = "delayed"    -> ReservationStates

LockReservation(self) ==
  LET o == tx[self].request.order_id
      outcome == tx[self].request.outcome
  IN /\ At(self, "payment", "lock reservation")
     /\ Free(self, "reservations", o, "update")
     /\ \/ /\ reservations[o].state \notin SettledFrom(outcome)
           /\ FailPayment(self, "INVALID_STATE_TRANSITION")
        \/ /\ reservations[o].state \in SettledFrom(outcome)
           /\ Acquire(self, "reservations", o, "update")
           /\ Goto(self, IF outcome = "successful" THEN "inventory" ELSE "commit")
           /\ UNCHANGED reply
     /\ UNCHANGED <<clock, tables>>

\* RowsAffected() != 1 is an error here: the rollback is Abort.
SellInventory(self) ==
  LET row == reservations[tx[self].request.order_id] IN
  /\ At(self, "payment", "inventory")
  /\ ReservedCovers(tx[self].request.order_id)
  /\ Acquire(self, "inventory", ProductOf[row.sale_id], "no key update")
  /\ Goto(self, "commit")
  /\ UNCHANGED <<clock, tables, reply>>

\* status := "succeeded" as the default of the switch.
StatusOfDefaultSucceeded(outcome) == IF outcome = "failed" THEN "failed" ELSE "succeeded"

StatusOf(outcome) ==
  CASE outcome = "successful" -> "succeeded"
    [] outcome = "failed"     -> "failed"
    [] outcome = "delayed"    -> "pending"

SoldInventory(p, q) == [inventory EXCEPT ![p].reserved = @ - q, ![p].sold = @ + q]

CommitPayment(self) ==
  LET k == tx[self].key
      req == tx[self].request
      o == req.order_id
      row == reservations[o]
      paid == req.outcome = "successful"
  IN /\ At(self, "payment", "commit")
     /\ payments' = Insert(payments, k,
          [outcome |-> req.outcome, order_id |-> o, status |-> StatusOf(req.outcome)])
     /\ inventory' = IF paid THEN SoldInventory(ProductOf[row.sale_id], row.quantity)
                     ELSE inventory
     /\ reservations' = IF paid THEN [reservations EXCEPT ![o].state = "paid"]
                        ELSE reservations
     /\ orders' = [orders EXCEPT ![o] = CASE req.outcome = "successful" -> "paid"
                                          [] req.outcome = "failed" -> "payment_failed"
                                          [] req.outcome = "delayed" -> @]
     /\ Event(IF paid THEN {o} ELSE {}, "confirmed", "paid")
     /\ Finish(self, PaymentReply(k, req, StatusOf(req.outcome), FALSE))
     /\ UNCHANGED <<clock, products, flash_sales, idempotency_keys>>

PaymentStep(self) ==
  \/ InsertPayment(self) \/ ReplayPayment(self) \/ CheckForeignKey(self)
  \/ LockOrder(self) \/ LockReservation(self) \/ SellInventory(self)
  \/ CommitPayment(self)
=============================================================================
