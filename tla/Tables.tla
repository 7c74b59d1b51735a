------------------------------- MODULE Tables -------------------------------
(***************************************************************************)
(* The committed contents of StockRush's PostgreSQL tables                 *)
(* (db/migrations/001_init.sql .. 005_inventory_expected_total.sql), and   *)
(* the predicates over them that make the shop correct.  A table is a      *)
(* function from the primary keys present to rows; inserting a row extends *)
(* its domain.  The columns that are written once, at insert, and that no  *)
(* statement updates afterwards (a sale's product, window, allocation and  *)
(* per-user limit) are constants indexed by the row's id.                  *)
(***************************************************************************)
EXTENDS Integers, Sequences, FiniteSets

CONSTANTS
  Products, Sales, Users,   \* product ids, sale ids, user ids
  Spellings,                \* ways to write a sale's id in a URL (see Request)
  ReservationIDs,           \* ids NewID can draw: 16 random bytes, so finitely many
  Keys, PaymentKeys,        \* Idempotency-Key values of reservations and payments
  MaxQuantity,              \* most units one request may ask for (100)
  ProductOf,                \* flash_sales.product_id
  Allocated,                \* flash_sales.allocated_stock
  MaxPerUser,               \* flash_sales.max_quantity_per_user
  StartsAt, EndsAt,         \* flash_sales.starts_at, ends_at
  Stock,                    \* inventory a product is created with
  StockLevels,              \* inventory values an administrator may set later
  SeedSales,                \* sales present, and active, when the server starts
  TTL,                      \* Store.ttl, how long a reservation stays pending
  MaxTime,                  \* bound: the clock stops here
  NULL                      \* SQL NULL, no reservation id

ASSUME SchemaAssumption ==
  /\ IsFiniteSet(ReservationIDs)
  /\ NULL \notin ReservationIDs
  /\ MaxQuantity \in Nat
  /\ ProductOf \in [Sales -> Products]
  /\ Allocated \in [Sales -> Nat]
  /\ MaxPerUser \in [Sales -> Nat]
  /\ StartsAt \in [Sales -> Nat]
  /\ EndsAt \in [Sales -> Nat]
  /\ Stock \in [Products -> Nat]
  /\ StockLevels \subseteq Nat
  /\ SeedSales \subseteq Sales
  /\ TTL \in Nat
  /\ MaxTime \in Nat

VARIABLES
  clock,            \* time, read by s.now() in Go and by now() in SQL
  products, inventory, flash_sales, reservations, orders, payments,
  idempotency_keys, domain_events

tables == <<products, inventory, flash_sales, reservations, orders, payments,
            idempotency_keys, domain_events>>

-----------------------------------------------------------------------------
SaleStates        == {"draft", "scheduled", "active", "ended", "cancelled"}
ReservationStates == {"pending", "confirmed", "paid", "cancelled", "expired"}
OrderStates       == ReservationStates \cup {"payment_failed"}
Outcomes          == {"successful", "failed", "delayed"}
PaymentStatuses   == {"succeeded", "failed", "pending"}

\* What finishReservationError may store, and "CREATED" for a stored 201.
\* "" is a key row without a response (response_status IS NULL).
ErrorCodes    == {"SALE_NOT_FOUND", "SALE_NOT_ACTIVE", "PRODUCT_INACTIVE",
                  "PURCHASE_LIMIT_EXCEEDED", "INVENTORY_SOLD_OUT"}
ResponseCodes == ErrorCodes \cup {"CREATED", ""}

(***************************************************************************)
(* A reservation request; the code's fingerprint is a hash of these        *)
(* fields.  The sale's id arrives as the text of a URL segment, which      *)
(* nothing normalises: the fingerprint and the advisory lock are taken of  *)
(* the text, while the statements read it as a uuid, and PostgreSQL reads  *)
(* lower and upper case, dashed or not, as the same uuid.                  *)
(***************************************************************************)
Request == [sale_id : Sales, spelling : Spellings, user_id : Users, quantity : 1..MaxQuantity]

ProductRow     == [active : BOOLEAN]
InventoryRow   == [available : Nat, reserved : Nat, sold : Nat, expected_total : Nat]
SaleRow        == [state : SaleStates, remaining_stock : Nat]
\* `spelling` is no column: it records how the request wrote the sale's id, for
\* the properties, and no operation looks at it.
ReservationRow == [sale_id : Sales, spelling : Spellings, user_id : Users,
                   quantity : 1..MaxQuantity, state : ReservationStates, expires_at : Nat]
PaymentRow     == [order_id : ReservationIDs, outcome : Outcomes, status : PaymentStatuses]
KeyRow         == [request : Request, code : ResponseCodes,
                   resource_id : ReservationIDs \cup {NULL}]

IsTable(t, Ids, Row) == DOMAIN t \subseteq Ids /\ t \in [DOMAIN t -> Row]

Insert(t, id, row) == [x \in DOMAIN t \cup {id} |-> IF x = id THEN row ELSE t[x]]

NoRows == [x \in {} |-> x]

(***************************************************************************)
(* event: the audit rows of a reservation, each with its previous and new  *)
(* state, in the order of their transactions' commits.  (The row a payment *)
(* adds repeats the status of its row of payments and is not kept apart.)  *)
(***************************************************************************)
Event(S, previous, next) ==
  domain_events' = [r \in ReservationIDs |->
     IF r \in S THEN Append(domain_events[r], <<previous, next>>) ELSE domain_events[r]]

-----------------------------------------------------------------------------
(***************************************************************************)
(* SELECT sum(quantity) over a set S of reservation ids: the number of     *)
(* <<reservation, unit>> pairs the rows of S stand for.                    *)
(***************************************************************************)
Units(t, S) == {u \in S \X (1..MaxQuantity) : u[2] <= t[u[1]].quantity}
Sum(t, S)   == Cardinality(Units(t, S))

Holding == {"pending", "confirmed"}           \* counted in inventory.reserved
Active  == {"pending", "confirmed", "paid"}   \* counted against sale and limit

\* The reservations of product p, of sale s, of user u in sale s, by state.
OfProduct(t, p, states) ==
  {r \in DOMAIN t : t[r].state \in states /\ ProductOf[t[r].sale_id] = p}
OfSale(t, s, states) ==
  {r \in DOMAIN t : t[r].state \in states /\ t[r].sale_id = s}
OfUser(t, s, u, states) ==
  {r \in OfSale(t, s, states) : t[r].user_id = u}

\* Those of them whose requests wrote the sale's id as x.
OfUserAs(t, s, x, u, states) ==
  {r \in OfUser(t, s, u, states) : t[r].spelling = x}

-----------------------------------------------------------------------------
\* Every table holds rows of its schema and the foreign keys resolve.
TablesTypeOK ==
  /\ clock \in Nat
  /\ IsTable(products, Products, ProductRow)
  /\ IsTable(inventory, Products, InventoryRow)
  /\ DOMAIN inventory = DOMAIN products
  /\ IsTable(flash_sales, Sales, SaleRow)
  /\ \A s \in DOMAIN flash_sales : ProductOf[s] \in DOMAIN products
  /\ IsTable(reservations, ReservationIDs, ReservationRow)
  /\ \A r \in DOMAIN reservations : reservations[r].sale_id \in DOMAIN flash_sales
  /\ IsTable(orders, ReservationIDs, OrderStates)
  /\ DOMAIN orders = DOMAIN reservations
  /\ IsTable(payments, PaymentKeys, PaymentRow)
  /\ \A k \in DOMAIN payments : payments[k].order_id \in DOMAIN orders
  /\ IsTable(idempotency_keys, Keys, KeyRow)

(***************************************************************************)
(* The tables as ResetDemo leaves them: freshly inserted products with     *)
(* their inventory, and sales that are active with their whole allocation  *)
(* remaining.  SeedSales = {} is the empty database after the migrations;  *)
(* several seed sales are what CreateProduct, CreateSale and SetSaleState  *)
(* lead to from there before the first request.                            *)
(***************************************************************************)
SeedProducts == {ProductOf[s] : s \in SeedSales}

TablesInit ==
  /\ clock = 0
  /\ products = [p \in SeedProducts |-> [active |-> TRUE]]
  /\ inventory = [p \in SeedProducts |->
       [available |-> Stock[p], reserved |-> 0, sold |-> 0, expected_total |-> Stock[p]]]
  /\ flash_sales = [s \in SeedSales |->
       [state |-> "active", remaining_stock |-> Allocated[s]]]
  /\ reservations = NoRows
  /\ orders = NoRows
  /\ payments = NoRows
  /\ idempotency_keys = NoRows
  /\ domain_events = [r \in ReservationIDs |-> <<>>]

\* Time passes, for the server and the database alike.
Tick == clock < MaxTime /\ clock' = clock + 1 /\ UNCHANGED tables

-----------------------------------------------------------------------------
\* "WHERE product_id=$1 AND reserved >= $2", when r's units leave `reserved`.
ReservedCovers(r) ==
  inventory[ProductOf[reservations[r].sale_id]].reserved >= reservations[r].quantity

(***************************************************************************)
(* store.CheckInvariants, the query behind cmd/invariant-check: the codes  *)
(* of the rows it would report.  Its NEGATIVE_* and ORDER_WITHOUT_         *)
(* RESERVATION branches are part of TablesTypeOK.                          *)
(***************************************************************************)
CheckInvariants ==
  {c \in {"INVENTORY_RECONCILIATION", "ACTIVE_RESERVATION_LIMIT",
          "ORDER_RESERVATION_STATE_MISMATCH", "PAID_EXPIRED_RESERVATION"} :
     \/ /\ c = "INVENTORY_RECONCILIATION"
        /\ \E p \in DOMAIN inventory :
             inventory[p].available + inventory[p].reserved + inventory[p].sold
               # inventory[p].expected_total
     \/ /\ c = "ACTIVE_RESERVATION_LIMIT"
        /\ \E s \in DOMAIN flash_sales, u \in Users :
             Sum(reservations, OfUser(reservations, s, u, Active)) > MaxPerUser[s]
     \/ /\ c = "ORDER_RESERVATION_STATE_MISMATCH"
        /\ \E r \in DOMAIN orders :
             /\ reservations[r].state \in {"paid", "cancelled", "expired"}
             /\ orders[r] # reservations[r].state
     \/ /\ c = "PAID_EXPIRED_RESERVATION"
        /\ \E k \in DOMAIN payments :
             /\ payments[k].status = "succeeded"
             /\ reservations[payments[k].order_id].state = "expired"}

\* Every user wrote a sale's id the same way in all requests that were granted.
WroteOneWay ==
  \A q, r \in DOMAIN reservations :
    /\ reservations[q].sale_id = reservations[r].sale_id
    /\ reservations[q].user_id = reservations[r].user_id
    => reservations[q].spelling = reservations[r].spelling

(***************************************************************************)
(* What the operator's check may report, after any interleaving of         *)
(* committed transactions: nothing, or that a user who wrote a sale's id   *)
(* in two ways has more of it than the limit (PurchaseLimitHeld).          *)
(***************************************************************************)
InvariantCheckPasses ==
  CheckInvariants \subseteq IF WroteOneWay THEN {} ELSE {"ACTIVE_RESERVATION_LIMIT"}

\* DemoStatus.InvariantPass for product p and sale s; the comparison of the
\* numbers of reservations and orders is part of TablesTypeOK.
InvariantPass(p, s) ==
  LET i == inventory[p] IN
  /\ i.available + i.reserved + i.sold = Allocated[s]
  /\ flash_sales[s].remaining_stock + i.reserved + i.sold = Allocated[s]

(***************************************************************************)
(* On the seeded demo (one product, one sale of its whole stock) the       *)
(* dashboard's check holds whenever the tables are at rest between         *)
(* transactions: sale and inventory move together.                         *)
(***************************************************************************)
DemoInvariantPass == \A s \in DOMAIN flash_sales : InvariantPass(ProductOf[s], s)

(***************************************************************************)
(* INVENTORY_RECONCILIATION of store.CheckInvariants, and what the counts  *)
(* mean: every reserved unit belongs to a pending or confirmed             *)
(* reservation and every sold unit to a paid one, so nothing is oversold   *)
(* and no stock is lost, whatever the interleaving of the transactions.    *)
(***************************************************************************)
InventoryReconciled ==
  \A p \in DOMAIN inventory :
    LET i == inventory[p] IN
    /\ i.available + i.reserved + i.sold = i.expected_total
    /\ i.reserved = Sum(reservations, OfProduct(reservations, p, Holding))
    /\ i.sold = Sum(reservations, OfProduct(reservations, p, {"paid"}))

(***************************************************************************)
(* A sale never gives out more than its allocation: what is left and what  *)
(* active reservations took never exceed allocated_stock.                  *)
(***************************************************************************)
SaleNotOversold ==
  \A s \in DOMAIN flash_sales :
    flash_sales[s].remaining_stock + Sum(reservations, OfSale(reservations, s, Active))
      <= Allocated[s]

(***************************************************************************)
(* ACTIVE_RESERVATION_LIMIT of store.CheckInvariants: the active           *)
(* reservations of a user in a sale never exceed max_quantity_per_user     *)
(* together.  Concurrent requests that write the sale's id in two ways do  *)
(* not exclude each other and can break it.                                *)
(***************************************************************************)
PurchaseLimitHeld ==
  \A s \in DOMAIN flash_sales, u \in Users :
    Sum(reservations, OfUser(reservations, s, u, Active)) <= MaxPerUser[s]

(***************************************************************************)
(* What Store.Reserve does guarantee: concurrent requests of one user that *)
(* write the sale's id alike never exceed the limit together.              *)
(***************************************************************************)
SpelledLimitHeld ==
  \A s \in DOMAIN flash_sales, x \in Spellings, u \in Users :
    Sum(reservations, OfUserAs(reservations, s, x, u, Active)) <= MaxPerUser[s]

(***************************************************************************)
(* ORDER_RESERVATION_STATE_MISMATCH of store.CheckInvariants, for every    *)
(* state: an order is in its reservation's state, or payment_failed while  *)
(* the reservation is still pending or confirmed.                          *)
(***************************************************************************)
OrdersAgree ==
  \A r \in DOMAIN orders :
    \/ orders[r] = reservations[r].state
    \/ orders[r] = "payment_failed" /\ reservations[r].state \in Holding

(***************************************************************************)
(* PAID_EXPIRED_RESERVATION of store.CheckInvariants and more: an order    *)
(* has a succeeded payment exactly when its reservation is paid, and no    *)
(* order is charged twice under two Idempotency-Keys.                      *)
(***************************************************************************)
Charges(r) == {k \in DOMAIN payments : payments[k].order_id = r /\ payments[k].status = "succeeded"}

ChargedOnce ==
  \A r \in DOMAIN orders :
    /\ (reservations[r].state = "paid") <=> (Charges(r) # {})
    /\ \A k, l \in Charges(r) : k = l

(***************************************************************************)
(* The idempotency table and the reservations agree: every committed key   *)
(* has a response (so IDEMPOTENCY_IN_PROGRESS is never answered), a stored *)
(* success names a reservation of that very request, and each reservation  *)
(* was created under exactly one key.  (Of keys that are kept: the purge   *)
(* of keys older than a day, which the demo's quota runs, is in module     *)
(* PublicDemo.)                                                            *)
(***************************************************************************)
CreatedBy(r) == {k \in DOMAIN idempotency_keys : idempotency_keys[k].resource_id = r}

Answered(k) ==
  LET row == idempotency_keys[k]
      r   == row.resource_id
  IN /\ row.code # ""
     /\ (row.code = "CREATED") <=> (r # NULL)
     /\ r # NULL =>
          /\ r \in DOMAIN reservations
          /\ row.request.sale_id  = reservations[r].sale_id
          /\ row.request.spelling = reservations[r].spelling
          /\ row.request.user_id  = reservations[r].user_id
          /\ row.request.quantity = reservations[r].quantity

KeysAccount ==
  /\ \A k \in DOMAIN idempotency_keys : Answered(k)
  /\ \A r \in DOMAIN reservations :
       /\ CreatedBy(r) # {}
       /\ \A k, l \in CreatedBy(r) : k = l

(***************************************************************************)
(* The life of a reservation, row by row and committed step by committed   *)
(* step: a row is never deleted or reassigned, paid, cancelled and expired *)
(* are final, only a confirmed reservation is paid, and only a pending one *)
(* whose time has come is expired (the worker never sweeps one that a      *)
(* customer has just confirmed).                                           *)
(***************************************************************************)
LifecycleStep ==
  \A r \in DOMAIN reservations :
    LET old == reservations[r]
        new == reservations'[r]
    IN /\ r \in DOMAIN reservations'
       /\ new = [old EXCEPT !.state = new.state]
       /\ new.state # old.state =>
            \/ old.state = "pending" /\ new.state \in {"confirmed", "cancelled"}
            \/ old.state = "confirmed" /\ new.state = "paid"
            \/ old.state = "pending" /\ new.state = "expired" /\ old.expires_at <= clock

LifecycleRespected == [][LifecycleStep]_tables

(***************************************************************************)
(* The audit log tells each reservation's story without a gap: the rows of *)
(* a reservation lead from its creation, each from the state where the     *)
(* last one ended, to the state it is in.  The previous state that payment *)
(* and expiration write is a literal, right only because of their locks.   *)
(***************************************************************************)
Traces(log, state) ==
  /\ log # <<>>
  /\ log[1][1] = NULL
  /\ \A i \in 2..Len(log) : log[i][1] = log[i - 1][2]
  /\ log[Len(log)][2] = state

EventsTrace ==
  \A r \in ReservationIDs :
    IF r \in DOMAIN reservations THEN Traces(domain_events[r], reservations[r].state)
                                 ELSE domain_events[r] = <<>>

(***************************************************************************)
(* docs/architecture.md, "Order state machine": the transitions drawn      *)
(* there are the only ones.                                                *)
(***************************************************************************)
DocumentedOrderTransitions ==
  {<<"pending", "confirmed">>, <<"pending", "cancelled">>, <<"pending", "expired">>,
   <<"confirmed", "paid">>, <<"confirmed", "payment_failed">>, <<"payment_failed", "paid">>}

OrdersAsDocumented ==
  [][\A r \in DOMAIN orders :
       orders'[r] # orders[r] => <<orders[r], orders'[r]>> \in DocumentedOrderTransitions]_tables

(***************************************************************************)
(* docs/database.md: "Reservations atomically decrement both               *)
(* inventory.available and flash_sales.remaining_stock; cancellation and   *)
(* expiration restore both counters": what a sale has left is exactly its  *)
(* allocation less the units of its active reservations.                   *)
(***************************************************************************)
SaleFullyAccounted ==
  \A s \in DOMAIN flash_sales :
    flash_sales[s].remaining_stock + Sum(reservations, OfSale(reservations, s, Active))
      = Allocated[s]

(***************************************************************************)
(* No stock is promised twice: the allocations of a product's sales do not *)
(* exceed its stock, and nobody recounts it.                               *)
(***************************************************************************)
AllocatedUnits(p) ==
  UNION {{s} \X (1..Allocated[s]) : s \in {s \in Sales : ProductOf[s] = p}}

WithinStock ==
  /\ \A p \in Products :
       IsFiniteSet(AllocatedUnits(p)) /\ Cardinality(AllocatedUnits(p)) <= Stock[p]
  /\ StockLevels = {}

(***************************************************************************)
(* When no stock is promised twice, the counters of sales and inventory do *)
(* move together as docs/database.md says: Store.Reserve never takes units *)
(* from a sale that the inventory then refuses, and no unit is lost to its *)
(* sale.                                                                   *)
(***************************************************************************)
NothingLeaks == WithinStock => SaleFullyAccounted

(***************************************************************************)
(* A committed response is final: a retry of an Idempotency-Key can only   *)
(* ever read what the first committed attempt stored (until the key is     *)
(* purged a day later, which module PublicDemo is about).                  *)
(***************************************************************************)
KeysKept ==
  \A k \in DOMAIN idempotency_keys :
    k \in DOMAIN idempotency_keys' /\ idempotency_keys'[k] = idempotency_keys[k]

ResponsesFinal == [][KeysKept]_tables
=============================================================================
