------------------------------- MODULE Reserve -------------------------------
(***************************************************************************)
(* Store.Reserve: one transaction that claims the Idempotency-Key, checks  *)
(* the sale and the user's limit, takes the units from the sale and from   *)
(* the inventory and inserts the reservation with its order.  A refusal    *)
(* is stored with the key and committed too; a key that is already taken   *)
(* is answered from its stored response.                                   *)
(***************************************************************************)
EXTENDS Sessions

\* A request that passed validation starts a transaction.
BeginReserve(self, k, req) ==
  Begin(self, [request |-> req, at |-> "claim", key |-> k, op |-> "reserve", now |-> 0])

Answer(k, req, code, id, duplicate) ==
  [request |-> req, key |-> k, op |-> "reserve", code |-> code, resource_id |-> id,
   duplicate |-> duplicate]

\* Committing a refusal without storing its response.
FinishReservationErrorUnstored(self, code) ==
  LET k == tx[self].key
      req == tx[self].request
  IN /\ idempotency_keys' = Insert(idempotency_keys, k,
          [request |-> req, code |-> "", resource_id |-> NULL])
     /\ Finish(self, Answer(k, req, code, NULL, FALSE))
     /\ UNCHANGED <<clock, products, inventory, reservations, orders, payments, domain_events>>

\* finishReservationError: the refusal is stored under the key, and committed.
FinishReservationError(self, code) ==
  LET k == tx[self].key
      req == tx[self].request
  IN /\ idempotency_keys' = Insert(idempotency_keys, k,
          [request |-> req, code |-> code, resource_id |-> NULL])
     /\ Finish(self, Answer(k, req, code, NULL, FALSE))
     /\ UNCHANGED <<clock, products, inventory, reservations, orders, payments, domain_events>>

\* ON CONFLICT DO UPDATE instead: a committed key is claimed again.
ClaimKeyUpsert(self) ==
  /\ At(self, "reserve", "claim")
  /\ Acquire(self, "idempotency_keys", tx[self].key, "update")
  /\ Goto(self, "advisory")
  /\ UNCHANGED <<clock, tables, reply>>

(***************************************************************************)
(* INSERT ... ON CONFLICT DO NOTHING: waits for an open transaction that   *)
(* inserted the same key, then inserts, or finds the key committed.        *)
(***************************************************************************)
ClaimKey(self) ==
  LET k == tx[self].key IN
  /\ At(self, "reserve", "claim")
  /\ \/ /\ k \in DOMAIN idempotency_keys
        /\ Goto(self, "replay")
        /\ UNCHANGED held
     \/ /\ k \notin DOMAIN idempotency_keys
        /\ Acquire(self, "idempotency_keys", k, "update")
        /\ Goto(self, "advisory")
  /\ UNCHANGED <<clock, tables, reply>>

\* Replaying without comparing the fingerprints.
ReplayAnswerUnchecked(k, req) ==
  LET row == idempotency_keys[k] IN
  Answer(k, req, row.code, row.resource_id, row.code = "CREATED")

\* replayReservation's answer to req from the stored row.
ReplayAnswer(k, req) ==
  LET row == idempotency_keys[k] IN
  CASE row.request # req -> Answer(k, req, "IDEMPOTENCY_CONFLICT", NULL, FALSE)
    [] row.request = req /\ row.code = "" ->
         Answer(k, req, "IDEMPOTENCY_IN_PROGRESS", NULL, FALSE)
    [] OTHER -> Answer(k, req, row.code, row.resource_id, row.code = "CREATED")

ReplayReservation(self) ==
  /\ At(self, "reserve", "replay")
  /\ Finish(self, ReplayAnswer(tx[self].key, tx[self].request))
  /\ UNCHANGED <<clock, tables>>

\* No advisory lock: the limit is checked against a sum that may be stale.
LockUserSkipped(self) ==
  /\ At(self, "reserve", "advisory")
  /\ Goto(self, "read")
  /\ UNCHANGED <<clock, tables, held, reply>>

(***************************************************************************)
(* pg_advisory_xact_lock, on a hash of the user's id and of the sale's id  *)
(* as the URL spelled it: one request at a time for a user and a spelling  *)
(* of a sale.                                                              *)
(***************************************************************************)
LockUser(self) ==
  LET req == tx[self].request IN
  /\ At(self, "reserve", "advisory")
  /\ Acquire(self, "advisory", <<req.sale_id, req.spelling, req.user_id>>, "update")
  /\ Goto(self, "read")
  /\ UNCHANGED <<clock, tables, reply>>

\* What the sale's and product's rows, read at `now`, refuse; "" is nothing.
SaleRefusal(s, now) ==
  CASE s \notin DOMAIN flash_sales -> "SALE_NOT_FOUND"
    [] s \in DOMAIN flash_sales /\ ~ ( /\ flash_sales[s].state = "active"
                                       /\ StartsAt[s] <= now
                                       /\ now < EndsAt[s] ) -> "SALE_NOT_ACTIVE"
    [] OTHER -> IF products[ProductOf[s]].active THEN "" ELSE "PRODUCT_INACTIVE"

ReadSale(self) ==
  LET refusal == SaleRefusal(tx[self].request.sale_id, clock) IN
  /\ At(self, "reserve", "read")
  /\ \/ /\ refusal # ""
        /\ FinishReservationError(self, refusal)
        /\ UNCHANGED flash_sales
     \/ /\ refusal = ""
        /\ tx' = [tx EXCEPT ![self].at = "limit", ![self].now = clock]
        /\ UNCHANGED <<clock, tables, held, reply>>

\* existingQuantity+request.Quantity > maxQuantity, however the requests of the
\* existing reservations spelled the sale.
LimitExceeded(req) ==
  Sum(reservations, OfUser(reservations, req.sale_id, req.user_id, Active)) + req.quantity
    > MaxPerUser[req.sale_id]

CheckLimit(self) ==
  /\ At(self, "reserve", "limit")
  /\ \/ /\ LimitExceeded(tx[self].request)
        /\ FinishReservationError(self, "PURCHASE_LIMIT_EXCEEDED")
        /\ UNCHANGED flash_sales
     \/ /\ ~ LimitExceeded(tx[self].request)
        /\ Goto(self, "sale")
        /\ UNCHANGED <<clock, tables, held, reply>>

\* The UPDATE of the sale without "AND remaining_stock >= $2".
SaleMatchesState(s, q) == flash_sales[s].state = "active"

(***************************************************************************)
(* The two guarded UPDATEs.  A row that does not match is passed over at   *)
(* once; one that matches is locked, waiting for its holder and looking at *)
(* the row again afterwards.                                               *)
(***************************************************************************)
SaleMatches(s, q) == flash_sales[s].state = "active" /\ flash_sales[s].remaining_stock >= q

DecrementSale(self) ==
  LET req == tx[self].request IN
  /\ At(self, "reserve", "sale")
  /\ \/ /\ SaleMatches(req.sale_id, req.quantity)
        /\ Acquire(self, "flash_sales", req.sale_id, "no key update")
        /\ Goto(self, "inventory")
        /\ UNCHANGED <<clock, tables, reply>>
     \/ /\ ~ SaleMatches(req.sale_id, req.quantity)
        /\ FinishReservationError(self, "INVENTORY_SOLD_OUT")
        /\ UNCHANGED flash_sales

\* Only the inventory is decremented.
SaleUntouched(s, q) == flash_sales

\* The sale's row once this transaction's decrement is committed.
SaleAfter(s, q) == [flash_sales EXCEPT ![s].remaining_stock = @ - q]

\* A comparison that leaves the last units of a product unsold.
InventoryMatchesStrictly(p, q) == inventory[p].available > q

InventoryMatches(p, q) == inventory[p].available >= q

DecrementInventory(self) ==
  LET req == tx[self].request
      p == ProductOf[req.sale_id]
  IN /\ At(self, "reserve", "inventory")
     /\ \/ /\ InventoryMatches(p, req.quantity)
           /\ Acquire(self, "inventory", p, "no key update")
           /\ Goto(self, "commit")
           /\ UNCHANGED <<clock, tables, reply>>
        \/ /\ ~ InventoryMatches(p, req.quantity)
           /\ FinishReservationError(self, "INVENTORY_SOLD_OUT")
           /\ flash_sales' = SaleAfter(req.sale_id, req.quantity)

\* A fresh id: NewID's 16 random bytes, kept unique by the primary key.
NewID == CHOOSE r \in ReservationIDs : r \notin DOMAIN reservations

\* The inserts, the stored 201 and COMMIT.
CommitReservation(self) ==
  LET k == tx[self].key
      req == tx[self].request
      s == req.sale_id
      q == req.quantity
      r == NewID
  IN /\ At(self, "reserve", "commit")
     /\ ReservationIDs \ DOMAIN reservations # {}
     /\ flash_sales' = SaleAfter(s, q)
     /\ inventory' = [inventory EXCEPT ![ProductOf[s]].available = @ - q,
                                       ![ProductOf[s]].reserved = @ + q]
     /\ reservations' = Insert(reservations, r,
          [sale_id |-> s, spelling |-> req.spelling, user_id |-> req.user_id, quantity |-> q,
           state |-> "pending", expires_at |-> tx[self].now + TTL])
     /\ orders' = Insert(orders, r, "pending")
     /\ idempotency_keys' = Insert(idempotency_keys, k,
          [request |-> req, code |-> "CREATED", resource_id |-> r])
     /\ Event({r}, NULL, "pending")
     /\ Finish(self, Answer(k, req, "CREATED", r, FALSE))
     /\ UNCHANGED <<clock, products, payments>>

ReserveStep(self) ==
  \/ ClaimKey(self) \/ ReplayReservation(self) \/ LockUser(self) \/ ReadSale(self)
  \/ CheckLimit(self) \/ DecrementSale(self) \/ DecrementInventory(self)
  \/ CommitReservation(self)
=============================================================================
