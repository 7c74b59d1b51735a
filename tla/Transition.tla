----------------------------- MODULE Transition -----------------------------
(***************************************************************************)
(* Store.TransitionReservation, behind POST /reservations/{id}/confirm and *)
(* /cancel: lock the reservation, validate the transition, update the      *)
(* reservation and its order and, for a cancellation, give the units back. *)
(***************************************************************************)
EXTENDS Sessions

\* The two targets the router passes.
Targets == {"confirmed", "cancelled"}

BeginTransition(self, id, target) ==
  Begin(self, [id |-> id, target |-> target, at |-> "lock", current |-> "",
               op |-> "transition", restored |-> FALSE])

\* ValidateReservationTransition
ValidTransition(from, to) ==
  \/ from = "pending" /\ to \in {"confirmed", "cancelled", "expired"}
  \/ from = "confirmed" /\ to = "paid"

TransitionReply(code) == [op |-> "transition", code |-> code]

\* The same SELECT without FOR UPDATE.
ReadForTransition(self) ==
  LET id == tx[self].id IN
  /\ At(self, "transition", "lock")
  /\ id \in DOMAIN reservations
  /\ ValidTransition(reservations[id].state, tx[self].target)
  /\ tx' = [tx EXCEPT ![self].at = "order", ![self].current = reservations[id].state]
  /\ UNCHANGED <<clock, tables, held, reply>>

\* SELECT ... FOR UPDATE, then the validation of the state it returned.
LockForTransition(self) ==
  LET id == tx[self].id IN
  /\ At(self, "transition", "lock")
  /\ \/ /\ id \notin DOMAIN reservations
        /\ Finish(self, TransitionReply("NOT_FOUND"))
     \/ /\ id \in DOMAIN reservations
        /\ Free(self, "reservations", id, "update")
        /\ ~ ValidTransition(reservations[id].state, tx[self].target)
        /\ Finish(self, TransitionReply("INVALID_STATE_TRANSITION"))
     \/ /\ id \in DOMAIN reservations
        /\ ValidTransition(reservations[id].state, tx[self].target)
        /\ Acquire(self, "reservations", id, "update")
        /\ tx' = [tx EXCEPT ![self].at = "order", ![self].current = reservations[id].state]
        /\ UNCHANGED reply
  /\ UNCHANGED <<clock, tables>>

\* UPDATE orders ... WHERE reservation_id=$1
UpdateOrder(self) ==
  /\ At(self, "transition", "order")
  /\ Acquire(self, "orders", tx[self].id, "no key update")
  /\ Goto(self, IF tx[self].target = "cancelled" THEN "inventory" ELSE "commit")
  /\ UNCHANGED <<clock, tables, reply>>

(***************************************************************************)
(* The UPDATE of inventory is guarded by reserved >= quantity and its      *)
(* RowsAffected is not looked at: a row that does not match is left alone  *)
(* and the cancellation goes on.                                           *)
(***************************************************************************)
UpdateInventory(self) ==
  LET p == ProductOf[reservations[tx[self].id].sale_id]
      matches == ReservedCovers(tx[self].id)
  IN /\ At(self, "transition", "inventory")
     /\ matches => Free(self, "inventory", p, "no key update")
     /\ held' = [held EXCEPT ![self] =
          @ \cup (IF matches THEN {<<"inventory", p, "no key update">>} ELSE {})]
     /\ tx' = [tx EXCEPT ![self].at = "sale", ![self].restored = matches]
     /\ UNCHANGED <<clock, tables, reply>>

UpdateSale(self) ==
  /\ At(self, "transition", "sale")
  /\ Acquire(self, "flash_sales", reservations[tx[self].id].sale_id, "no key update")
  /\ Goto(self, "commit")
  /\ UNCHANGED <<clock, tables, reply>>

\* A cancellation that forgets the sale's counter.
ForgottenSale(s, q) == flash_sales

\* What a cancellation gives back to the two counters.
RestoredInventory(p, q) ==
  [inventory EXCEPT ![p].available = @ + q, ![p].reserved = @ - q]
RestoredSale(s, q) ==
  [flash_sales EXCEPT ![s].remaining_stock = @ + q]

CommitTransition(self) ==
  LET id == tx[self].id
      target == tx[self].target
      s == reservations[id].sale_id
      q == reservations[id].quantity
  IN /\ At(self, "transition", "commit")
     /\ reservations' = [reservations EXCEPT ![id].state = target]
     /\ orders' = [orders EXCEPT ![id] = target]
     /\ inventory' = IF tx[self].restored THEN RestoredInventory(ProductOf[s], q) ELSE inventory
     /\ flash_sales' = IF target = "cancelled" THEN RestoredSale(s, q) ELSE flash_sales
     /\ Event({id}, tx[self].current, target)
     /\ Finish(self, TransitionReply("OK"))
     /\ UNCHANGED <<clock, products, payments, idempotency_keys>>

TransitionStep(self) ==
  \/ LockForTransition(self) \/ UpdateOrder(self) \/ UpdateInventory(self)
  \/ UpdateSale(self) \/ CommitTransition(self)
=============================================================================
