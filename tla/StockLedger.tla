---------------------------- MODULE StockLedger ----------------------------
(***************************************************************************)
(* What the store promises: the tables change only by whole transactions,  *)
(* each of which sees the tables as they are when it commits.  There are   *)
(* no sessions, statements or locks here; module Store has them, and is    *)
(* shown to implement this specification.                                  *)
(***************************************************************************)
EXTENDS Tables

CreateProduct(p, active) ==
  /\ p \in Products \ DOMAIN products
  /\ products' = Insert(products, p, [active |-> active])
  /\ inventory' = Insert(inventory, p,
       [available |-> Stock[p], reserved |-> 0, sold |-> 0, expected_total |-> Stock[p]])
  /\ UNCHANGED <<clock, flash_sales, reservations, orders, payments, idempotency_keys,
                 domain_events>>

UpdateProduct(p, active) ==
  /\ p \in DOMAIN products
  /\ products' = [products EXCEPT ![p].active = active]
  /\ UNCHANGED <<clock, inventory, flash_sales, reservations, orders, payments,
                 idempotency_keys, domain_events>>

\* With a recount: n units are in hand, and the expected total follows.
UpdateInventory(p, active, n) ==
  /\ p \in DOMAIN products
  /\ products' = [products EXCEPT ![p].active = active]
  /\ inventory' = [inventory EXCEPT ![p].available = n,
                     ![p].expected_total = n + inventory[p].reserved + inventory[p].sold]
  /\ UNCHANGED <<clock, flash_sales, reservations, orders, payments, idempotency_keys,
                 domain_events>>

CreateSale(s) ==
  /\ s \in Sales \ DOMAIN flash_sales
  /\ ProductOf[s] \in DOMAIN products
  /\ \E state \in {"draft", "scheduled"} :
       flash_sales' = Insert(flash_sales, s,
                        [state |-> state, remaining_stock |-> Allocated[s]])
  /\ UNCHANGED <<clock, products, inventory, reservations, orders, payments,
                 idempotency_keys, domain_events>>

SetSaleState(s, state) ==
  /\ s \in DOMAIN flash_sales
  /\ flash_sales' = [flash_sales EXCEPT ![s].state = state]
  /\ UNCHANGED <<clock, products, inventory, reservations, orders, payments,
                 idempotency_keys, domain_events>>

-----------------------------------------------------------------------------
(***************************************************************************)
(* A reservation request under a fresh Idempotency-Key is granted, or      *)
(* refused; either way the answer is stored with it.                       *)
(***************************************************************************)
Grant(k, req, r) ==
  LET s == req.sale_id
      p == ProductOf[s]
      q == req.quantity
  IN /\ k \in Keys \ DOMAIN idempotency_keys
     /\ r \in ReservationIDs \ DOMAIN reservations
     /\ s \in DOMAIN flash_sales
     /\ flash_sales[s].state = "active"
     /\ flash_sales[s].remaining_stock >= q
     /\ inventory[p].available >= q
     \* The limit counts for sure only what was granted for the same spelling.
     /\ Sum(reservations, OfUserAs(reservations, s, req.spelling, req.user_id, Active)) + q
          <= MaxPerUser[s]
     /\ flash_sales' = [flash_sales EXCEPT ![s].remaining_stock = @ - q]
     /\ inventory' = [inventory EXCEPT ![p].available = @ - q, ![p].reserved = @ + q]
     /\ \E now \in StartsAt[s]..clock :    \* when the request was let in
          /\ now < EndsAt[s]
          /\ reservations' = Insert(reservations, r,
               [sale_id |-> s, spelling |-> req.spelling, user_id |-> req.user_id,
                quantity |-> q,
                state |-> "pending", expires_at |-> now + TTL])
     /\ orders' = Insert(orders, r, "pending")
     /\ idempotency_keys' = Insert(idempotency_keys, k,
          [request |-> req, code |-> "CREATED", resource_id |-> r])
     /\ Event({r}, NULL, "pending")
     /\ UNCHANGED <<clock, products, payments>>

Refuse(k, req, code) ==
  /\ k \in Keys \ DOMAIN idempotency_keys
  /\ idempotency_keys' = Insert(idempotency_keys, k,
       [request |-> req, code |-> code, resource_id |-> NULL])
  /\ UNCHANGED <<clock, products, inventory, flash_sales, reservations, orders, payments,
                 domain_events>>

(***************************************************************************)
(* The one refusal that is not free of effects: when the sale still has    *)
(* units and the inventory does not, the sale's counter is decremented all *)
(* the same, so those units of the allocation can never be sold.           *)
(***************************************************************************)
RefuseShort(k, req) ==
  LET s == req.sale_id IN
  /\ k \in Keys \ DOMAIN idempotency_keys
  /\ s \in DOMAIN flash_sales
  /\ flash_sales[s].remaining_stock >= req.quantity
  /\ inventory[ProductOf[s]].available < req.quantity
  /\ flash_sales' = [flash_sales EXCEPT ![s].remaining_stock = @ - req.quantity]
  /\ idempotency_keys' = Insert(idempotency_keys, k,
       [request |-> req, code |-> "INVENTORY_SOLD_OUT", resource_id |-> NULL])
  /\ UNCHANGED <<clock, products, inventory, reservations, orders, payments, domain_events>>

-----------------------------------------------------------------------------
Confirm(r) ==
  /\ r \in DOMAIN reservations
  /\ reservations[r].state = "pending"
  /\ reservations' = [reservations EXCEPT ![r].state = "confirmed"]
  /\ orders' = [orders EXCEPT ![r] = "confirmed"]
  /\ Event({r}, "pending", "confirmed")
  /\ UNCHANGED <<clock, products, inventory, flash_sales, payments, idempotency_keys>>

\* The reservations of S end in `state`; their units go back to both counters.
Release(S, state) ==
  /\ S \subseteq DOMAIN reservations
  /\ reservations' = [r \in DOMAIN reservations |->
       IF r \in S THEN [reservations[r] EXCEPT !.state = state] ELSE reservations[r]]
  /\ orders' = [r \in DOMAIN orders |-> IF r \in S THEN state ELSE orders[r]]
  /\ inventory' = [p \in DOMAIN inventory |->
       LET n == Sum(reservations, {r \in S : ProductOf[reservations[r].sale_id] = p}) IN
       [inventory[p] EXCEPT !.available = @ + n, !.reserved = @ - n]]
  /\ flash_sales' = [s \in DOMAIN flash_sales |->
       [flash_sales[s] EXCEPT !.remaining_stock =
          @ + Sum(reservations, {r \in S : reservations[r].sale_id = s})]]
  /\ Event(S, "pending", state)
  /\ UNCHANGED <<clock, products, payments, idempotency_keys>>

Cancel(r) ==
  /\ r \in DOMAIN reservations
  /\ reservations[r].state = "pending"
  /\ Release({r}, "cancelled")

Expire(S) ==
  /\ \A r \in S : reservations[r].state = "pending" /\ reservations[r].expires_at <= clock
  /\ Release(S, "expired")

-----------------------------------------------------------------------------
\* Payments of order r under the fresh key k, by outcome.
RecordPayment(k, r, outcome, status) ==
  /\ k \in PaymentKeys \ DOMAIN payments
  /\ payments' = Insert(payments, k,
       [outcome |-> outcome, order_id |-> r, status |-> status])

Charge(k, r) ==
  LET p == ProductOf[reservations[r].sale_id]
      q == reservations[r].quantity
  IN /\ r \in DOMAIN orders
     /\ reservations[r].state = "confirmed"
     /\ RecordPayment(k, r, "successful", "succeeded")
     /\ inventory' = [inventory EXCEPT ![p].reserved = @ - q, ![p].sold = @ + q]
     /\ reservations' = [reservations EXCEPT ![r].state = "paid"]
     /\ orders' = [orders EXCEPT ![r] = "paid"]
     /\ Event({r}, "confirmed", "paid")
     /\ UNCHANGED <<clock, products, flash_sales, idempotency_keys>>

Decline(k, r) ==
  /\ r \in DOMAIN orders
  /\ reservations[r].state \in Holding
  /\ RecordPayment(k, r, "failed", "failed")
  /\ orders' = [orders EXCEPT ![r] = "payment_failed"]
  /\ UNCHANGED <<clock, products, inventory, flash_sales, reservations, idempotency_keys,
                 domain_events>>

Delay(k, r) ==
  /\ r \in DOMAIN orders
  /\ RecordPayment(k, r, "delayed", "pending")
  /\ UNCHANGED <<clock, products, inventory, flash_sales, reservations, orders,
                 idempotency_keys, domain_events>>

-----------------------------------------------------------------------------
Next ==
  \/ Tick
  \/ \E p \in Products :
       \E active \in BOOLEAN :
         \/ CreateProduct(p, active)
         \/ UpdateProduct(p, active)
         \/ \E n \in StockLevels : UpdateInventory(p, active, n)
  \/ \E s \in Sales :
       \/ CreateSale(s)
       \/ \E state \in {"active", "ended", "cancelled"} : SetSaleState(s, state)
  \/ \E k \in Keys, req \in Request :
       \/ \E r \in ReservationIDs : Grant(k, req, r)
       \/ \E code \in ErrorCodes : Refuse(k, req, code)
       \/ RefuseShort(k, req)
  \/ \E r \in ReservationIDs : Confirm(r) \/ Cancel(r)
  \/ \E S \in SUBSET DOMAIN reservations : Expire(S)
  \/ \E k \in PaymentKeys, r \in ReservationIDs :
       Charge(k, r) \/ Decline(k, r) \/ Delay(k, r)

ledgerVars == <<clock, tables>>

Spec == TablesInit /\ [][Next]_ledgerVars
=============================================================================
