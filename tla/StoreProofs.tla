----------------------------- MODULE StoreProofs -----------------------------
(***************************************************************************)
(* What is proved of the store, statement by statement.  For any number of *)
(* sessions, requests, products, sales, users and reservations, and any    *)
(* mix of reservation, confirmation, cancellation, payment, expiration and *)
(* catalog transactions, interleaved in any way and aborted at any point,  *)
(* the store implements StockLedger, and the answers that clients were     *)
(* given stay true.                                                        *)
(***************************************************************************)
EXTENDS Store, TablesProofs

\* The ledger's theorems, about these tables.
LT == INSTANCE StockLedgerProofs

-----------------------------------------------------------------------------
(***************************************************************************)
(* The inductive invariant.  A transaction decides from rows it read some  *)
(* statements ago; what makes the decision still right at COMMIT is that   *)
(* it holds a lock on every row the decision rests on.                     *)
(***************************************************************************)
Owns(t, table, id) ==
  \E mode \in {"update", "no key update"} : <<table, id, mode>> \in held[t]

Exclusive ==
  \A t \in Sessions : \A l \in held[t] : Free(t, l[1], l[2], l[3])

ReserveTx ==
  [op : {"reserve"}, at : Statements.reserve, key : Keys, request : Request, now : Nat]

TransitionTx ==
  [op : {"transition"}, at : Statements.transition, id : ReservationIDs, target : Targets,
   current : ReservationStates \cup {""}, restored : BOOLEAN]

ExpireTx ==
  [op : {"expire"}, at : Statements.expire, limit : 1..1000, now : Nat,
   batch : SUBSET ReservationIDs, todo : SUBSET ReservationIDs,
   current : ReservationIDs \cup {NULL}]

PaymentTx ==
  [op : {"payment"}, at : Statements.payment, key : PaymentKeys, request : PaymentRequest]

\* The limit has room for req beside the reservations the lock of LockUser
\* speaks for: the user's, by requests that wrote the sale's id as req does.
SpelledFits(req) ==
  Sum(reservations, OfUserAs(reservations, req.sale_id, req.spelling, req.user_id, Active))
    + req.quantity <= MaxPerUser[req.sale_id]

\* A reservation request: the key is fresh and claimed, the limit was checked
\* under the advisory lock, and what it takes is there, locked.
ReserveInv(t, x) ==
  LET s == x.request.sale_id
      q == x.request.quantity
  IN /\ x.at = "replay" => x.key \in DOMAIN idempotency_keys
     /\ x.at \notin {"claim", "replay"} =>
          /\ Owns(t, "idempotency_keys", x.key)
          /\ x.key \notin DOMAIN idempotency_keys
     /\ x.at \notin {"claim", "replay", "advisory"} =>
          Owns(t, "advisory", <<s, x.request.spelling, x.request.user_id>>)
     /\ x.at \in {"limit", "sale", "inventory", "commit"} =>
          /\ s \in DOMAIN flash_sales
          /\ StartsAt[s] <= x.now
          /\ x.now < EndsAt[s]
          /\ x.now <= clock
     /\ x.at \in {"sale", "inventory", "commit"} => SpelledFits(x.request)
     /\ x.at \in {"inventory", "commit"} =>
          Owns(t, "flash_sales", s) /\ SaleMatches(s, q)
     /\ x.at = "commit" =>
          Owns(t, "inventory", ProductOf[s]) /\ InventoryMatches(ProductOf[s], q)

\* A confirmation or cancellation: the reservation is pending, and locked; a
\* cancellation has found the reserved units it gives back.
TransitionInv(t, x) ==
  LET s == reservations[x.id].sale_id IN
  /\ x.at # "lock" =>
       /\ x.id \in DOMAIN reservations
       /\ Owns(t, "reservations", x.id)
       /\ reservations[x.id].state = "pending"
       /\ x.current = "pending"
  /\ x.at \in {"inventory", "sale"} => x.target = "cancelled"
  /\ x.at \in {"lock", "order", "inventory"} => ~ x.restored
  /\ x.at \in {"sale", "commit"} => (x.restored <=> x.target = "cancelled")
  /\ x.restored => Owns(t, "inventory", ProductOf[s])
  /\ x.at = "commit" /\ x.restored => Owns(t, "flash_sales", s)

\* A batch: every row of it is due, and locked; the counters of the rows done
\* so far are locked too.
ExpireInv(t, x) ==
  LET s(r) == reservations[r].sale_id
      p(r) == ProductOf[s(r)]
  IN /\ x.now <= clock
     /\ x.at # "select" =>
          /\ x.batch \subseteq DOMAIN reservations
          /\ x.todo \subseteq x.batch
          /\ \A r \in x.batch : Owns(t, "reservations", r) /\ IsDue(r, x.now)
          /\ \A r \in x.batch \ x.todo :
               Owns(t, "inventory", p(r)) /\ Owns(t, "flash_sales", s(r))
     /\ x.at \in {"inventory", "sale", "order"} => x.current \in x.todo
     /\ x.at \in {"sale", "order"} => Owns(t, "inventory", p(x.current))
     /\ x.at = "order" => Owns(t, "flash_sales", s(x.current))
     /\ x.at = "commit" => x.todo = {}

\* A payment: the key is fresh and claimed, and the reservation is locked in a
\* state the outcome can be settled from.
PaymentInv(t, x) ==
  LET o == x.request.order_id
      outcome == x.request.outcome
  IN /\ x.at = "replay" => x.key \in DOMAIN payments
     /\ x.at \notin {"insert", "replay"} =>
          Owns(t, "payments", x.key) /\ x.key \notin DOMAIN payments
     /\ x.at \in {"lock order", "lock reservation", "inventory", "commit"} =>
          o \in DOMAIN orders
     /\ x.at \in {"inventory", "commit"} =>
          Owns(t, "reservations", o) /\ reservations[o].state \in SettledFrom(outcome)
     /\ x.at = "inventory" => outcome = "successful"
     /\ x.at = "commit" /\ outcome = "successful" =>
          Owns(t, "inventory", ProductOf[reservations[o].sale_id])

\* The transaction of t, by operation.
TxInv(t, x) ==
  \/ x = Idle /\ held[t] = {}
  \/ x \in ReserveTx /\ ReserveInv(t, x)
  \/ x \in TransitionTx /\ TransitionInv(t, x)
  \/ x \in ExpireTx /\ ExpireInv(t, x)
  \/ x \in PaymentTx /\ PaymentInv(t, x)

SessionsInv ==
  /\ DOMAIN tx = Sessions
  /\ DOMAIN held = Sessions
  /\ DOMAIN reply = Sessions
  /\ \A t \in Sessions : TxInv(t, tx[t])
  /\ Exclusive

\* The ledger's invariant; the audit log has an entry for every id.
TablesInv ==
  /\ TablesTypeOK
  /\ InventoryReconciled
  /\ SaleNotOversold
  /\ SpelledLimitHeld
  /\ OrdersAgree
  /\ ChargedOnce
  /\ KeysAccount
  /\ domain_events = [r \in ReservationIDs |-> domain_events[r]]

StoreInv == TablesInv /\ SessionsInv /\ AnswersDurable /\ PaymentAnswersDurable

-----------------------------------------------------------------------------
(***************************************************************************)
(* The operators of Tables and StockLedger under their three names: here,  *)
(* in the specification the store implements (Ledger) and in the module of *)
(* the ledger's theorems (LT).                                             *)
(***************************************************************************)
\* Sums, inserts, audit rows and a user's active reservations.
LEMMA SameSum ==
  /\ \A t, S : Ledger!Sum(t, S) = Sum(t, S)
  /\ \A t, S : LT!Sum(t, S) = Sum(t, S)
  BY DEF LT!Sum, Sum, LT!Units, Units, LT!Cardinality, Cardinality, Ledger!Sum,
         Ledger!Units, Ledger!Cardinality

LEMMA SameEvent ==
  /\ \A S, a, b : Ledger!Event(S, a, b) <=> Event(S, a, b)
  /\ \A S, a, b : LT!Event(S, a, b) <=> Event(S, a, b)
  BY DEF Ledger!Event, LT!Event, Event

LEMMA SameUser ==
  /\ \A t, s, u : Ledger!OfUser(t, s, u, Ledger!Active) = OfUser(t, s, u, Active)
  /\ \A t, s, u : LT!OfUser(t, s, u, LT!Active) = OfUser(t, s, u, Active)
  /\ \A t, s, y, u : Ledger!OfUserAs(t, s, y, u, Ledger!Active) = OfUserAs(t, s, y, u, Active)
  /\ \A t, s, y, u : LT!OfUserAs(t, s, y, u, LT!Active) = OfUserAs(t, s, y, u, Active)
  BY DEF Ledger!OfUser, LT!OfUser, Ledger!OfSale, LT!OfSale, Ledger!Active, LT!Active,
         Ledger!OfUserAs, LT!OfUserAs, OfUserAs, OfUser, OfSale, Active

LEMMA SameInsert ==
  /\ \A t, id, row : Ledger!Insert(t, id, row) = Insert(t, id, row)
  /\ \A t, id, row : LT!Insert(t, id, row) = Insert(t, id, row)
  BY DEF Ledger!Insert, LT!Insert, Insert

LEMMA SameFinite == \A S : LT!IsFiniteSet(S) <=> IsFiniteSet(S)
  BY DEF LT!IsFiniteSet, IsFiniteSet

\* The two next-state relations of the ledger are one.
LEMMA SameNext == Ledger!Next <=> LT!Next
<1>1. \A p, active : Ledger!CreateProduct(p, active) <=> LT!CreateProduct(p, active)
  BY DEF Ledger!CreateProduct, LT!CreateProduct, Ledger!Insert, LT!Insert
<1>2. \A p, active : Ledger!UpdateProduct(p, active) <=> LT!UpdateProduct(p, active)
  BY DEF Ledger!UpdateProduct, LT!UpdateProduct
<1>3. \A p, active, n : Ledger!UpdateInventory(p, active, n) <=> LT!UpdateInventory(p, active, n)
  BY DEF Ledger!UpdateInventory, LT!UpdateInventory
<1>4. \A s : Ledger!CreateSale(s) <=> LT!CreateSale(s)
  BY DEF Ledger!CreateSale, LT!CreateSale, Ledger!Insert, LT!Insert
<1>5. \A s, state : Ledger!SetSaleState(s, state) <=> LT!SetSaleState(s, state)
  BY DEF Ledger!SetSaleState, LT!SetSaleState
<1>6. \A k, req, code : Ledger!Refuse(k, req, code) <=> LT!Refuse(k, req, code)
  BY DEF Ledger!Refuse, LT!Refuse, Ledger!Insert, LT!Insert
<1>7. \A k, req : Ledger!RefuseShort(k, req) <=> LT!RefuseShort(k, req)
  BY DEF Ledger!RefuseShort, LT!RefuseShort, Ledger!Insert, LT!Insert
<1>8. \A r : Ledger!Confirm(r) <=> LT!Confirm(r)
  BY SameEvent DEF Ledger!Confirm, LT!Confirm
<1>9. \A S, st : Ledger!Release(S, st) <=> LT!Release(S, st)
  BY SameSum, SameEvent DEF Ledger!Release, LT!Release
<1>10. \A r : Ledger!Cancel(r) <=> LT!Cancel(r)
  BY <1>9 DEF Ledger!Cancel, LT!Cancel
<1>11. \A S : Ledger!Expire(S) <=> LT!Expire(S)
  BY <1>9 DEF Ledger!Expire, LT!Expire
<1>12. \A k, r : Ledger!Charge(k, r) <=> LT!Charge(k, r)
  BY SameEvent DEF Ledger!Charge, LT!Charge, Ledger!RecordPayment, LT!RecordPayment, Ledger!Insert, LT!Insert
<1>13. \A k, r : Ledger!Decline(k, r) <=> LT!Decline(k, r)
  BY DEF Ledger!Decline, LT!Decline, Ledger!RecordPayment, LT!RecordPayment, Ledger!Insert, LT!Insert, Ledger!Holding, LT!Holding
<1>14. \A k, r : Ledger!Delay(k, r) <=> LT!Delay(k, r)
  BY DEF Ledger!Delay, LT!Delay, Ledger!RecordPayment, LT!RecordPayment, Ledger!Insert, LT!Insert
<1>15. Ledger!Tick <=> LT!Tick
  BY DEF Ledger!Tick, LT!Tick, Ledger!tables, LT!tables
<1>16. Ledger!Request = LT!Request /\ Ledger!ErrorCodes = LT!ErrorCodes
  BY DEF Ledger!Request, LT!Request, Ledger!ErrorCodes, LT!ErrorCodes
<1>17. \A k, req, r : Ledger!Grant(k, req, r) <=> LT!Grant(k, req, r)
  BY SameSum, SameEvent, SameUser, SameInsert DEF Ledger!Grant, LT!Grant
<1>. QED
  BY ONLY <1>1, <1>2, <1>3, <1>4, <1>5, <1>6, <1>7, <1>8, <1>10, <1>11, <1>12, <1>13, <1>14, <1>15, <1>16, <1>17
  DEF Ledger!Next, LT!Next

LEMMA SameType == LT!TablesTypeOK <=> TablesTypeOK
  BY DEF LT!TablesTypeOK, TablesTypeOK, LT!IsTable, IsTable, LT!ProductRow, ProductRow,
         LT!InventoryRow, InventoryRow, LT!SaleRow, SaleRow, LT!SaleStates, SaleStates,
         LT!ReservationRow, ReservationRow, LT!ReservationStates, ReservationStates,
         LT!OrderStates, OrderStates, LT!PaymentRow, PaymentRow, LT!KeyRow, KeyRow,
         LT!Outcomes, Outcomes, LT!PaymentStatuses, PaymentStatuses, LT!Request, Request,
         LT!ResponseCodes, ResponseCodes, LT!ErrorCodes, ErrorCodes

LEMMA SameReconciled == LT!InventoryReconciled <=> InventoryReconciled
<1>1. \A t, p : /\ LT!OfProduct(t, p, LT!Holding) = OfProduct(t, p, Holding)
                /\ LT!OfProduct(t, p, {"paid"}) = OfProduct(t, p, {"paid"})
  BY DEF LT!OfProduct, OfProduct, LT!Holding, Holding
<1>. QED
  BY <1>1, SameSum DEF LT!InventoryReconciled, InventoryReconciled

LEMMA SameNotOversold == LT!SaleNotOversold <=> SaleNotOversold
<1>1. \A t, s : LT!OfSale(t, s, LT!Active) = OfSale(t, s, Active)
  BY DEF LT!OfSale, OfSale, LT!Active, Active
<1>. QED
  BY <1>1, SameSum DEF LT!SaleNotOversold, SaleNotOversold

LEMMA SameLimit == LT!SpelledLimitHeld <=> SpelledLimitHeld
  BY SameUser, SameSum DEF LT!SpelledLimitHeld, SpelledLimitHeld

LEMMA SameOrders == LT!OrdersAgree <=> OrdersAgree
  BY DEF LT!OrdersAgree, OrdersAgree, LT!Holding, Holding

LEMMA SameCharged == LT!ChargedOnce <=> ChargedOnce
  BY DEF LT!ChargedOnce, ChargedOnce, LT!Charges, Charges

LEMMA SameKeys == LT!KeysAccount <=> KeysAccount
  BY DEF LT!KeysAccount, KeysAccount, LT!Answered, Answered, LT!CreatedBy, CreatedBy

LEMMA SameInv ==
  LT!LedgerInv <=> /\ TablesTypeOK /\ InventoryReconciled /\ SaleNotOversold
                   /\ SpelledLimitHeld /\ OrdersAgree /\ ChargedOnce /\ KeysAccount
  BY SameType, SameReconciled, SameNotOversold, SameLimit, SameOrders, SameCharged, SameKeys
  DEF LT!LedgerInv


-----------------------------------------------------------------------------
(***************************************************************************)
(* Locks.  Two sessions never own the same row, taking locks that are free *)
(* keeps it so, and a session keeps what it owns until it finishes.        *)
(***************************************************************************)
LEMMA OwnerUnique ==
  ASSUME Exclusive, NEW t \in Sessions, NEW u \in Sessions, t # u,
         NEW table, NEW id, Owns(t, table, id)
  PROVE  ~ Owns(u, table, id)
<1>. SUFFICES ASSUME Owns(u, table, id) PROVE FALSE
  OBVIOUS
<1>1. PICK m \in {"update", "no key update"} : <<table, id, m>> \in held[t]
  BY DEF Owns
<1>2. PICK n \in {"update", "no key update"} : <<table, id, n>> \in held[u]
  BY DEF Owns
<1>3. Free(t, table, id, m)
  BY <1>1 DEF Exclusive
<1>4. \A l \in held[u] : l[1] = table /\ l[2] = id => Compatible(l[3], m)
  BY <1>3 DEF Free
<1>5. <<table, id, n>>[1] = table /\ <<table, id, n>>[2] = id /\ <<table, id, n>>[3] = n
  OBVIOUS
<1>6. Compatible(n, m)
  BY <1>2, <1>4, <1>5
<1>. QED
  BY <1>6 DEF Compatible

LEMMA KeepsExclusive ==
  ASSUME Exclusive, NEW self \in Sessions,
         \A t \in Sessions \ {self} : held'[t] = held[t],
         \A l \in held'[self] : Free(self, l[1], l[2], l[3])
  PROVE  Exclusive'
<1>. SUFFICES ASSUME NEW t \in Sessions, NEW l \in held'[t],
                     NEW u \in Sessions \ {t}, NEW m \in held'[u],
                     m[1] = l[1], m[2] = l[2]
              PROVE  Compatible(m[3], l[3])
  BY DEF Exclusive, Free
<1>1. CASE t = self
  BY <1>1 DEF Free
<1>2. CASE u = self
  <2>1. l \in held[t] /\ t \in Sessions \ {self}
    BY <1>2
  <2>2. Compatible(l[3], m[3])
    BY <1>2, <2>1 DEF Free
  <2>. QED
    BY <2>2 DEF Compatible
<1>3. CASE t # self /\ u # self
  BY <1>3 DEF Exclusive, Free
<1>. QED
  BY <1>1, <1>2, <1>3

LEMMA Acquired ==
  ASSUME Exclusive, DOMAIN held = Sessions, NEW self \in Sessions,
         NEW table, NEW id, NEW mode, Acquire(self, table, id, mode)
  PROVE  /\ DOMAIN held' = Sessions
         /\ \A t \in Sessions \ {self} : held'[t] = held[t]
         /\ \A tab, i : Owns(self, tab, i) => Owns(self, tab, i)'
         /\ mode \in {"update", "no key update"} => Owns(self, table, id)'
         /\ Exclusive'
<1>1. /\ DOMAIN held' = Sessions
      /\ \A t \in Sessions \ {self} : held'[t] = held[t]
      /\ held'[self] = held[self] \cup {<<table, id, mode>>}
  BY DEF Acquire
<1>2. \A l \in held'[self] : Free(self, l[1], l[2], l[3])
  BY <1>1 DEF Acquire, Exclusive
<1>3. Exclusive'
  BY <1>1, <1>2, KeepsExclusive
<1>. QED
  BY <1>1, <1>3 DEF Owns

-----------------------------------------------------------------------------
(***************************************************************************)
(* What session t may rely on while the others commit: rows it owns do not *)
(* change, keys it owns are not taken, the units of a user and a spelling  *)
(* it has locked in a sale do not grow, and no row ever goes away.         *)
(***************************************************************************)
Grows(old, new) == DOMAIN old \subseteq DOMAIN new

Rely(t) ==
  /\ clock <= clock'
  /\ Grows(idempotency_keys, idempotency_keys')
  /\ \A k \in DOMAIN idempotency_keys' :
       Owns(t, "idempotency_keys", k) => k \in DOMAIN idempotency_keys
  /\ Grows(payments, payments')
  /\ \A k \in DOMAIN payments' : Owns(t, "payments", k) => k \in DOMAIN payments
  /\ Grows(flash_sales, flash_sales')
  /\ \A s \in DOMAIN flash_sales :
       Owns(t, "flash_sales", s) => flash_sales'[s] = flash_sales[s]
  /\ \A p \in DOMAIN inventory : Owns(t, "inventory", p) => inventory'[p] = inventory[p]
  /\ Grows(orders, orders')
  /\ Grows(reservations, reservations')
  /\ \A r \in DOMAIN reservations :
       Owns(t, "reservations", r) => reservations'[r] = reservations[r]
  /\ \A s, y, u : Owns(t, "advisory", <<s, y, u>>) =>
       Sum(reservations', OfUserAs(reservations', s, y, u, Active))
         <= Sum(reservations, OfUserAs(reservations, s, y, u, Active))

\* A user's units are a natural number, those of one spelling among them.
LEMMA UserUnits ==
  ASSUME NEW t, DOMAIN t \subseteq ReservationIDs, NEW s, NEW y, NEW u
  PROVE  /\ Sum(t, OfUser(t, s, u, Active)) \in Nat
         /\ Sum(t, OfUserAs(t, s, y, u, Active)) \in Nat
         /\ Sum(t, OfUserAs(t, s, y, u, Active)) <= Sum(t, OfUser(t, s, u, Active))
<1>1. /\ OfUser(t, s, u, Active) \subseteq ReservationIDs
      /\ OfUserAs(t, s, y, u, Active) \subseteq OfUser(t, s, u, Active)
  BY DEF OfUserAs, OfUser, OfSale
<1>2. IsFiniteSet(OfUser(t, s, u, Active)) /\ IsFiniteSet(OfUserAs(t, s, y, u, Active))
  BY <1>1, FS_Subset, SchemaAssumption
<1>. QED
  BY <1>1, <1>2, SumType, SumMinus

LEMMA RelyQuiet ==
  ASSUME TablesTypeOK, UNCHANGED <<clock, tables>>, NEW t
  PROVE  Rely(t)
<1>1. UNCHANGED <<clock, products, inventory, flash_sales, reservations, orders, payments,
                  idempotency_keys>>
  BY DEF tables
<1>2. clock \in Nat
  BY DEF TablesTypeOK
<1>3. \A s, y, u : Sum(reservations', OfUserAs(reservations', s, y, u, Active))
                  <= Sum(reservations, OfUserAs(reservations, s, y, u, Active))
  BY <1>1, UserUnits DEF TablesTypeOK, IsTable
<1>. QED
  BY <1>1, <1>2, <1>3 DEF Rely, Grows

\* States that only leave Active do not add to a user's units.
LEMMA UnitsShrink ==
  ASSUME TablesTypeOK, DOMAIN reservations' = DOMAIN reservations,
         \A r \in DOMAIN reservations :
           /\ reservations'[r].sale_id = reservations[r].sale_id
           /\ reservations'[r].spelling = reservations[r].spelling
           /\ reservations'[r].user_id = reservations[r].user_id
           /\ reservations'[r].quantity = reservations[r].quantity
           /\ reservations'[r].state \in Active => reservations[r].state \in Active,
         NEW s, NEW y, NEW u
  PROVE  Sum(reservations', OfUserAs(reservations', s, y, u, Active))
           <= Sum(reservations, OfUserAs(reservations, s, y, u, Active))
<1> DEFINE S == OfUserAs(reservations, s, y, u, Active)
           T == OfUserAs(reservations', s, y, u, Active)
<1>1. T \subseteq S /\ S \subseteq DOMAIN reservations
  BY DEF OfUserAs, OfUser, OfSale
<1>2. IsFiniteSet(S)
  BY <1>1, RowsFinite
<1>3. Sum(reservations, T) <= Sum(reservations, S)
  BY <1>1, <1>2, SumMinus
<1>4. \A r \in T : reservations'[r].quantity = reservations[r].quantity
  BY <1>1
<1>5. Sum(reservations', T) = Sum(reservations, T)
  BY <1>4, SumAgree
<1>. QED
  BY <1>3, <1>5

\* What was true of a transaction stays true while it does nothing.
LEMMA StableTx ==
  ASSUME TablesTypeOK, TablesTypeOK', NEW t \in Sessions, tx'[t] = tx[t], held'[t] = held[t],
         Rely(t), TxInv(t, tx[t])
  PROVE  TxInv(t, tx[t])'
<1> DEFINE x == tx[t]
<1>0. \A table, id : Owns(t, table, id)' <=> Owns(t, table, id)
  BY DEF Owns
<1>1. CASE x = Idle /\ held[t] = {}
  BY <1>1 DEF TxInv, Idle
<1>2. CASE x \in ReserveTx /\ ReserveInv(t, x)
  <2> DEFINE s == x.request.sale_id
             y == x.request.spelling
             u == x.request.user_id
             q == x.request.quantity
  <2>0. s \in Sales /\ q \in Nat /\ MaxPerUser[s] \in Nat /\ x.now \in Nat /\ ProductOf[s] \in Products
    BY <1>2, SchemaAssumption DEF ReserveTx, Request
  <2>1. clock \in Nat /\ clock' \in Nat /\ clock <= clock'
    BY DEF Rely, TablesTypeOK
  <2>2. x.at \in {"limit", "sale", "inventory", "commit"} =>
          /\ s \in DOMAIN flash_sales'
          /\ StartsAt[s] <= x.now /\ x.now < EndsAt[s] /\ x.now <= clock'
    BY <1>2, <2>0, <2>1 DEF ReserveInv, Rely, Grows
  <2>3. x.at \in {"sale", "inventory", "commit"} => SpelledFits(x.request)'
    <3> DEFINE A == Sum(reservations, OfUserAs(reservations, s, y, u, Active))
               B == Sum(reservations', OfUserAs(reservations', s, y, u, Active))
    <3>. HAVE x.at \in {"sale", "inventory", "commit"}
    <3>1. Owns(t, "advisory", <<s, y, u>>) /\ A + q <= MaxPerUser[s]
      BY <1>2 DEF ReserveInv, SpelledFits
    <3>2. B <= A
      BY <3>1 DEF Rely
    <3>3. A \in Nat /\ B \in Nat
      BY UserUnits DEF TablesTypeOK, IsTable
    <3>4. B + q <= MaxPerUser[s]
      BY <2>0, <3>1, <3>2, <3>3
    <3>. QED
      BY <3>4 DEF SpelledFits
  <2>4. x.at \in {"inventory", "commit"} =>
          Owns(t, "flash_sales", s) /\ SaleMatches(s, q)'
    BY <1>2 DEF ReserveInv, Rely, SaleMatches
  <2>5. x.at = "commit" =>
          Owns(t, "inventory", ProductOf[s]) /\ InventoryMatches(ProductOf[s], q)'
    <3>. HAVE x.at = "commit"
    <3>1. /\ Owns(t, "inventory", ProductOf[s]) /\ InventoryMatches(ProductOf[s], q)
          /\ s \in DOMAIN flash_sales
      BY <1>2 DEF ReserveInv
    <3>2. ProductOf[s] \in DOMAIN inventory
      BY <3>1 DEF TablesTypeOK
    <3>. QED
      BY <3>1, <3>2 DEF Rely, InventoryMatches
  <2>6. /\ x.at = "replay" => x.key \in DOMAIN idempotency_keys'
        /\ x.at \notin {"claim", "replay"} =>
             /\ Owns(t, "idempotency_keys", x.key)
             /\ x.key \notin DOMAIN idempotency_keys'
        /\ x.at \notin {"claim", "replay", "advisory"} => Owns(t, "advisory", <<s, y, u>>)
    BY <1>2 DEF ReserveInv, Rely, Grows
  <2>7. ReserveInv(t, tx[t])'
    BY <1>0, <2>2, <2>3, <2>4, <2>5, <2>6 DEF ReserveInv
  <2>. QED
    BY <1>2, <2>7 DEF TxInv
<1>3. CASE x \in TransitionTx /\ TransitionInv(t, x)
  <2>1. x.at # "lock" =>
          /\ x.id \in DOMAIN reservations /\ x.id \in DOMAIN reservations'
          /\ Owns(t, "reservations", x.id)
          /\ reservations'[x.id] = reservations[x.id]
    BY <1>3 DEF TransitionInv, Rely, Grows
  <2>2. x.restored => x.at # "lock"
    BY <1>3 DEF TransitionInv
  <2>3. TransitionInv(t, tx[t])'
    BY <1>0, <1>3, <2>1, <2>2 DEF TransitionInv
  <2>. QED
    BY <1>3, <2>3 DEF TxInv
<1>4. CASE x \in ExpireTx /\ ExpireInv(t, x)
  <2>0. x.now <= clock'
    BY <1>4 DEF ExpireTx, ExpireInv, Rely, TablesTypeOK
  <2>1. x.at # "select" =>
          /\ x.batch \subseteq DOMAIN reservations'
          /\ x.todo \subseteq x.batch
          /\ \A r \in x.batch : reservations'[r] = reservations[r]
    BY <1>4 DEF ExpireInv, Rely, Grows
  <2>2. ExpireInv(t, tx[t])'
    BY <1>0, <1>4, <2>0, <2>1 DEF ExpireInv, IsDue
  <2>. QED
    BY <1>4, <2>2 DEF TxInv
<1>5. CASE x \in PaymentTx /\ PaymentInv(t, x)
  <2>1. x.at \in {"inventory", "commit"} =>
          reservations'[x.request.order_id] = reservations[x.request.order_id]
    BY <1>5 DEF PaymentInv, Rely, TablesTypeOK
  <2>2. PaymentInv(t, tx[t])'
    BY <1>0, <1>5, <2>1 DEF PaymentInv, Rely, Grows
  <2>. QED
    BY <1>5, <2>2 DEF TxInv
<1>. QED
  BY <1>1, <1>2, <1>3, <1>4, <1>5 DEF TxInv

-----------------------------------------------------------------------------
(***************************************************************************)
(* One session moves.  The others keep their part of the invariant by what *)
(* they rely on, so a step owes the mover's own part, and Rely.            *)
(***************************************************************************)
LEMMA SessionStep ==
  ASSUME SessionsInv, TablesTypeOK, TablesTypeOK', NEW self \in Sessions,
         DOMAIN tx' = Sessions, DOMAIN held' = Sessions, DOMAIN reply' = Sessions,
         \A t \in Sessions \ {self} : tx'[t] = tx[t] /\ held'[t] = held[t] /\ Rely(t),
         Exclusive', TxInv(self, tx[self])'
  PROVE  SessionsInv'
<1>1. ASSUME NEW t \in Sessions \ {self} PROVE TxInv(t, tx[t])'
  <2>1. TxInv(t, tx[t])
    BY DEF SessionsInv
  <2>. QED
    BY <2>1, StableTx
<1>2. (\A t \in Sessions : TxInv(t, tx[t]))'
  BY <1>1
<1>. QED
  BY <1>2 DEF SessionsInv

LEMMA FinishStep ==
  ASSUME SessionsInv, TablesTypeOK, TablesTypeOK', NEW self \in Sessions, NEW answer,
         Finish(self, answer), \A t \in Sessions \ {self} : Rely(t)
  PROVE  SessionsInv'
<1>0. DOMAIN tx = Sessions /\ DOMAIN held = Sessions /\ DOMAIN reply = Sessions /\ Exclusive
  BY DEF SessionsInv
<1>1. /\ DOMAIN tx' = Sessions /\ DOMAIN held' = Sessions /\ DOMAIN reply' = Sessions
      /\ \A t \in Sessions \ {self} : tx'[t] = tx[t] /\ held'[t] = held[t]
      /\ tx'[self] = Idle /\ held'[self] = {}
  BY <1>0 DEF Finish
<1>2. Exclusive'
  BY <1>0, <1>1, KeepsExclusive
<1>3. TxInv(self, tx[self])'
  BY <1>1 DEF TxInv, Idle
<1>. QED
  BY <1>1, <1>2, <1>3, SessionStep

\* The mover takes a lock, or none, and writes nothing.
LEMMA QuietStep ==
  ASSUME SessionsInv, TablesTypeOK, NEW self \in Sessions,
         UNCHANGED <<clock, tables>>, DOMAIN reply' = Sessions,
         DOMAIN tx' = Sessions, \A t \in Sessions \ {self} : tx'[t] = tx[t],
         DOMAIN held' = Sessions, \A t \in Sessions \ {self} : held'[t] = held[t],
         Exclusive', TxInv(self, tx[self])'
  PROVE  SessionsInv'
<1>1. TablesTypeOK'
  BY DEF tables, TablesTypeOK
<1>2. \A t \in Sessions : Rely(t)
  BY RelyQuiet
<1>. QED
  BY <1>1, <1>2, SessionStep

\* The transaction of a session, by its operation.
LEMMA TxOf ==
  ASSUME SessionsInv, NEW self \in Sessions
  PROVE  /\ tx[self].op = "reserve" => tx[self] \in ReserveTx /\ ReserveInv(self, tx[self])
         /\ tx[self].op = "transition" =>
              tx[self] \in TransitionTx /\ TransitionInv(self, tx[self])
         /\ tx[self].op = "expire" => tx[self] \in ExpireTx /\ ExpireInv(self, tx[self])
         /\ tx[self].op = "payment" => tx[self] \in PaymentTx /\ PaymentInv(self, tx[self])
<1>1. TxInv(self, tx[self])
  BY DEF SessionsInv
<1>2. /\ \A x \in ReserveTx : x.op = "reserve"
      /\ \A x \in TransitionTx : x.op = "transition"
      /\ \A x \in ExpireTx : x.op = "expire"
      /\ \A x \in PaymentTx : x.op = "payment"
      /\ Idle.op = "none"
  BY ZenonT(30) DEF Idle, ReserveTx, TransitionTx, ExpireTx, PaymentTx
<1>. QED
  BY <1>1, <1>2 DEF TxInv

\* Moving on to the next statement changes nothing else in the transaction.
LEMMA GotoReserve ==
  ASSUME DOMAIN tx = Sessions, NEW self \in Sessions, tx[self] \in ReserveTx,
         NEW a \in Statements.reserve, Goto(self, a)
  PROVE  /\ DOMAIN tx' = Sessions /\ \A t \in Sessions \ {self} : tx'[t] = tx[t]
         /\ tx'[self] \in ReserveTx /\ tx'[self].at = a /\ tx'[self].key = tx[self].key
         /\ tx'[self].request = tx[self].request /\ tx'[self].now = tx[self].now
  BY DEF Goto, ReserveTx

LEMMA GotoPayment ==
  ASSUME DOMAIN tx = Sessions, NEW self \in Sessions, tx[self] \in PaymentTx,
         NEW a \in Statements.payment, Goto(self, a)
  PROVE  /\ DOMAIN tx' = Sessions /\ \A t \in Sessions \ {self} : tx'[t] = tx[t]
         /\ tx'[self] \in PaymentTx /\ tx'[self].at = a /\ tx'[self].key = tx[self].key
         /\ tx'[self].request = tx[self].request
  BY DEF Goto, PaymentTx

LEMMA GotoTransition ==
  ASSUME DOMAIN tx = Sessions, NEW self \in Sessions, tx[self] \in TransitionTx,
         NEW a \in Statements.transition, Goto(self, a)
  PROVE  /\ DOMAIN tx' = Sessions /\ \A t \in Sessions \ {self} : tx'[t] = tx[t]
         /\ tx'[self] \in TransitionTx /\ tx'[self].at = a /\ tx'[self].id = tx[self].id
         /\ tx'[self].target = tx[self].target /\ tx'[self].current = tx[self].current
         /\ tx'[self].restored = tx[self].restored
  BY DEF Goto, TransitionTx

LEMMA GotoExpire ==
  ASSUME DOMAIN tx = Sessions, NEW self \in Sessions, tx[self] \in ExpireTx,
         NEW a \in Statements.expire, Goto(self, a)
  PROVE  /\ DOMAIN tx' = Sessions /\ \A t \in Sessions \ {self} : tx'[t] = tx[t]
         /\ tx'[self] \in ExpireTx /\ tx'[self].at = a /\ tx'[self].now = tx[self].now
         /\ tx'[self].batch = tx[self].batch /\ tx'[self].todo = tx[self].todo
         /\ tx'[self].current = tx[self].current
  BY DEF Goto, ExpireTx

-----------------------------------------------------------------------------
(***************************************************************************)
(* Reserve.                                                                *)
(***************************************************************************)
\* A refusal writes its own key and, short of inventory, its own sale.
LEMMA RefusalRely ==
  ASSUME SessionsInv, TablesTypeOK, NEW self \in Sessions,
         Owns(self, "idempotency_keys", tx[self].key),
         NEW code, FinishReservationError(self, code),
         NEW s, flash_sales' = flash_sales \/ (\E q : /\ Owns(self, "flash_sales", s)
                                                      /\ flash_sales' = SaleAfter(s, q)),
         NEW t \in Sessions \ {self}
  PROVE  Rely(t)
<1>0. Exclusive
  BY DEF SessionsInv
<1>1. /\ DOMAIN idempotency_keys' = DOMAIN idempotency_keys \cup {tx[self].key}
      /\ UNCHANGED <<clock, inventory, reservations, orders, payments>>
  BY DEF FinishReservationError, Insert
<1>2. ~ Owns(t, "idempotency_keys", tx[self].key)
  BY <1>0, OwnerUnique
<1>3. /\ DOMAIN flash_sales' = DOMAIN flash_sales
      /\ \A i \in DOMAIN flash_sales :
           Owns(t, "flash_sales", i) => flash_sales'[i] = flash_sales[i]
  <2>1. CASE flash_sales' = flash_sales
    BY <2>1
  <2>2. ASSUME NEW q, Owns(self, "flash_sales", s), flash_sales' = SaleAfter(s, q)
        PROVE  /\ DOMAIN flash_sales' = DOMAIN flash_sales
               /\ \A i \in DOMAIN flash_sales :
                    Owns(t, "flash_sales", i) => flash_sales'[i] = flash_sales[i]
    <3>1. ~ Owns(t, "flash_sales", s)
      BY <1>0, <2>2, OwnerUnique
    <3>. QED
      BY <2>2, <3>1 DEF SaleAfter
  <2>. QED
    BY <2>1, <2>2
<1>4. clock \in Nat
  BY DEF TablesTypeOK
<1>5. \A i, y, u : Sum(reservations', OfUserAs(reservations', i, y, u, Active))
                  <= Sum(reservations, OfUserAs(reservations, i, y, u, Active))
  BY <1>1, UserUnits DEF TablesTypeOK, IsTable
<1>. QED
  BY <1>1, <1>2, <1>3, <1>4, <1>5 DEF Rely, Grows

\* A reservation writes rows it owns, and a new one.
LEMMA CommitReservationRely ==
  ASSUME SessionsInv, TablesTypeOK, NEW self \in Sessions, CommitReservation(self),
         NEW t \in Sessions \ {self}
  PROVE  Rely(t)
<1> DEFINE x == tx[self]
           s == x.request.sale_id
           y == x.request.spelling
           u == x.request.user_id
           q == x.request.quantity
           r == NewID
<1>0. Exclusive /\ x \in ReserveTx /\ ReserveInv(self, x) /\ x.at = "commit"
  BY TxOf DEF SessionsInv, CommitReservation, At
<1>1. /\ ~ Owns(t, "idempotency_keys", x.key)
      /\ ~ Owns(t, "advisory", <<s, y, u>>)
      /\ ~ Owns(t, "flash_sales", s)
      /\ ~ Owns(t, "inventory", ProductOf[s])
  BY <1>0, OwnerUnique DEF ReserveInv
<1>2. r \in ReservationIDs /\ r \notin DOMAIN reservations
  BY DEF CommitReservation, NewID
<1>3. /\ reservations' = Insert(reservations, r,
           [sale_id |-> s, spelling |-> y, user_id |-> u, quantity |-> q,
            state |-> "pending", expires_at |-> x.now + TTL])
      /\ DOMAIN idempotency_keys' = DOMAIN idempotency_keys \cup {x.key}
      /\ DOMAIN orders' = DOMAIN orders \cup {r}
      /\ UNCHANGED <<clock, payments>>
  BY DEF CommitReservation, Insert
<1>4. /\ DOMAIN reservations' = DOMAIN reservations \cup {r}
      /\ \A i \in DOMAIN reservations : reservations'[i] = reservations[i]
      /\ reservations'[r].sale_id = s /\ reservations'[r].spelling = y
      /\ reservations'[r].user_id = u
  BY <1>2, <1>3 DEF Insert
<1>5. /\ DOMAIN flash_sales' = DOMAIN flash_sales
      /\ \A i \in DOMAIN flash_sales :
           Owns(t, "flash_sales", i) => flash_sales'[i] = flash_sales[i]
  BY <1>1 DEF CommitReservation, SaleAfter
<1>6. \A i \in DOMAIN inventory : Owns(t, "inventory", i) => inventory'[i] = inventory[i]
  BY <1>1 DEF CommitReservation
<1>7. ASSUME NEW s2, NEW y2, NEW u2, Owns(t, "advisory", <<s2, y2, u2>>)
      PROVE  Sum(reservations', OfUserAs(reservations', s2, y2, u2, Active))
               <= Sum(reservations, OfUserAs(reservations, s2, y2, u2, Active))
  <2>1. ~ (s2 = s /\ y2 = y /\ u2 = u)
    BY <1>1, <1>7
  <2>2. OfUserAs(reservations', s2, y2, u2, Active) = OfUserAs(reservations, s2, y2, u2, Active)
    BY <1>2, <1>4, <2>1 DEF OfUserAs, OfUser, OfSale
  <2>3. \A i \in OfUserAs(reservations, s2, y2, u2, Active) :
          reservations'[i].quantity = reservations[i].quantity
    BY <1>4 DEF OfUserAs, OfUser, OfSale
  <2>4. Sum(reservations', OfUserAs(reservations, s2, y2, u2, Active))
          = Sum(reservations, OfUserAs(reservations, s2, y2, u2, Active))
    BY <2>3, SumAgree
  <2>5. Sum(reservations, OfUserAs(reservations, s2, y2, u2, Active)) \in Nat
    BY UserUnits DEF TablesTypeOK, IsTable
  <2>. QED
    BY <2>2, <2>4, <2>5
<1>8. clock \in Nat
  BY DEF TablesTypeOK
<1>9. clock <= clock' /\ Grows(payments, payments') /\ DOMAIN payments' = DOMAIN payments
  BY <1>3, <1>8 DEF Grows
<1>10. /\ Grows(idempotency_keys, idempotency_keys')
       /\ \A k \in DOMAIN idempotency_keys' :
            Owns(t, "idempotency_keys", k) => k \in DOMAIN idempotency_keys
  BY <1>1, <1>3 DEF Grows
<1>11. /\ Grows(flash_sales, flash_sales') /\ Grows(orders, orders')
       /\ Grows(reservations, reservations')
  BY <1>3, <1>4, <1>5 DEF Grows
<1>. QED
  BY <1>4, <1>5, <1>6, <1>7, <1>9, <1>10, <1>11, Zenon DEF Rely

\* The sale's rows refuse with one of the stored codes.
LEMMA RefusalCode ==
  ASSUME NEW s, NEW now, SaleRefusal(s, now) # ""
  PROVE  SaleRefusal(s, now) \in ErrorCodes
  BY DEF SaleRefusal, ErrorCodes

\* Every statement of Reserve keeps the sessions' invariant.
LEMMA ReserveSessions ==
  ASSUME SessionsInv, TablesTypeOK, TablesTypeOK', NEW self \in Sessions, ReserveStep(self)
  PROVE  SessionsInv'
<1> DEFINE x == tx[self]
           s == x.request.sale_id
           y == x.request.spelling
           u == x.request.user_id
           q == x.request.quantity
<1>0. /\ DOMAIN tx = Sessions /\ DOMAIN held = Sessions /\ DOMAIN reply = Sessions
      /\ Exclusive
  BY DEF SessionsInv
<1>1. x \in ReserveTx /\ ReserveInv(self, x)
  BY TxOf DEF ReserveStep, ClaimKey, ReplayReservation, LockUser, ReadSale, CheckLimit,
              DecrementSale, DecrementInventory, CommitReservation, At
<1>2. /\ x.key \in Keys /\ x.request \in Request /\ s \in Sales /\ q \in 1..MaxQuantity
      /\ x.now \in Nat /\ clock \in Nat /\ StartsAt[s] \in Nat /\ EndsAt[s] \in Nat
  BY <1>1, SchemaAssumption DEF ReserveTx, Request, TablesTypeOK
<1>3. CASE ClaimKey(self)
  <2>0. x.at = "claim" /\ UNCHANGED <<clock, tables, reply>>
    BY <1>3 DEF ClaimKey, At
  <2>1. CASE x.key \in DOMAIN idempotency_keys /\ Goto(self, "replay") /\ UNCHANGED held
    <3>1. /\ DOMAIN tx' = Sessions /\ \A t \in Sessions \ {self} : tx'[t] = tx[t]
          /\ tx'[self] \in ReserveTx /\ tx'[self].at = "replay" /\ tx'[self].key = x.key
      BY <1>0, <1>1, <2>1, GotoReserve DEF Statements
    <3>2. ReserveInv(self, tx[self])'
      BY <2>0, <2>1, <3>1 DEF ReserveInv, tables
    <3>3. TxInv(self, tx[self])'
      BY <3>1, <3>2 DEF TxInv
    <3>4. Exclusive'
      BY <1>0, <2>1 DEF Exclusive, Free
    <3>. QED
      BY <1>0, <2>0, <2>1, <3>1, <3>3, <3>4, QuietStep
  <2>2. CASE /\ x.key \notin DOMAIN idempotency_keys
             /\ Acquire(self, "idempotency_keys", x.key, "update") /\ Goto(self, "advisory")
    <3>1. /\ DOMAIN tx' = Sessions /\ \A t \in Sessions \ {self} : tx'[t] = tx[t]
          /\ tx'[self] \in ReserveTx /\ tx'[self].at = "advisory" /\ tx'[self].key = x.key
      BY <1>0, <1>1, <2>2, GotoReserve DEF Statements
    <3>2. /\ DOMAIN held' = Sessions /\ \A t \in Sessions \ {self} : held'[t] = held[t]
          /\ Owns(self, "idempotency_keys", x.key)' /\ Exclusive'
      BY <1>0, <2>2, <3>1, Acquired
    <3>3. ReserveInv(self, tx[self])'
      BY <2>0, <2>2, <3>1, <3>2 DEF ReserveInv, tables
    <3>4. TxInv(self, tx[self])'
      BY <3>1, <3>3 DEF TxInv
    <3>. QED
      BY <1>0, <2>0, <3>1, <3>2, <3>4, QuietStep
  <2>. QED
    BY <1>3, <2>1, <2>2 DEF ClaimKey
<1>4. CASE ReplayReservation(self)
  <2>1. \A t \in Sessions : Rely(t)
    BY <1>4, RelyQuiet DEF ReplayReservation
  <2>. QED
    BY <1>4, <2>1, FinishStep DEF ReplayReservation
<1>5. CASE LockUser(self)
  <2>0. x.at = "advisory" /\ UNCHANGED <<clock, tables, reply>>
    BY <1>5 DEF LockUser, At
  <2>1. /\ DOMAIN tx' = Sessions /\ \A t \in Sessions \ {self} : tx'[t] = tx[t]
        /\ tx'[self] \in ReserveTx /\ tx'[self].at = "read" /\ tx'[self].key = x.key
        /\ tx'[self].request = x.request
    BY <1>0, <1>1, <1>5, GotoReserve DEF LockUser, Statements
  <2>2. /\ DOMAIN held' = Sessions /\ \A t \in Sessions \ {self} : held'[t] = held[t]
        /\ \A table, i : Owns(self, table, i) => Owns(self, table, i)'
        /\ Owns(self, "advisory", <<s, y, u>>)' /\ Exclusive'
    BY <1>0, <1>5, <2>1, Acquired DEF LockUser
  <2>3. ReserveInv(self, tx[self])'
    BY <1>1, <2>0, <2>1, <2>2 DEF ReserveInv, tables
  <2>4. TxInv(self, tx[self])'
    BY <2>1, <2>3 DEF TxInv
  <2>. QED
    BY <1>0, <2>0, <2>1, <2>2, <2>4, QuietStep
<1>6. ASSUME NEW code, FinishReservationError(self, code), x.at \notin {"claim", "replay"},
             \/ flash_sales' = flash_sales
             \/ Owns(self, "flash_sales", s) /\ flash_sales' = SaleAfter(s, q)
      PROVE  SessionsInv'
  <2>1. Owns(self, "idempotency_keys", x.key)
    BY <1>1, <1>6 DEF ReserveInv
  <2>2. \A t \in Sessions \ {self} : Rely(t)
    BY <1>6, <2>1, RefusalRely
  <2>. QED
    BY <1>6, <2>2, FinishStep DEF FinishReservationError
<1>7. CASE ReadSale(self)
  <2>0. x.at = "read"
    BY <1>7 DEF ReadSale, At
  <2>1. CASE /\ SaleRefusal(s, clock) = ""
             /\ tx' = [tx EXCEPT ![self].at = "limit", ![self].now = clock]
             /\ UNCHANGED <<clock, tables, held, reply>>
    <3>1. /\ DOMAIN tx' = Sessions /\ \A t \in Sessions \ {self} : tx'[t] = tx[t]
          /\ tx'[self].at = "limit" /\ tx'[self].key = x.key
          /\ tx'[self].request = x.request /\ tx'[self].now = clock
      BY <1>0, <1>1, <2>1 DEF ReserveTx
    <3>2. tx'[self] \in ReserveTx
      BY <1>0, <1>1, <1>2, <2>1 DEF ReserveTx, Statements
    <3>3. s \in DOMAIN flash_sales /\ StartsAt[s] <= clock /\ clock < EndsAt[s]
      BY <2>1 DEF SaleRefusal
    <3>4. \A table, i : Owns(self, table, i) => Owns(self, table, i)'
      BY <2>1 DEF Owns
    <3>5. /\ x.key \notin DOMAIN idempotency_keys
          /\ Owns(self, "idempotency_keys", x.key) /\ Owns(self, "advisory", <<s, y, u>>)
      BY <1>1, <2>0 DEF ReserveInv
    <3>6. UNCHANGED <<clock, flash_sales, idempotency_keys>>
      BY <2>1 DEF tables
    <3>7. clock <= clock
      BY <1>2
    <3>8. /\ Owns(self, "idempotency_keys", tx[self].key)'
          /\ Owns(self, "advisory", <<tx[self].request.sale_id, tx[self].request.spelling,
                                      tx[self].request.user_id>>)'
      BY <3>1, <3>4, <3>5
    <3>9. ReserveInv(self, tx[self])'
      BY <3>1, <3>3, <3>5, <3>8, <3>6, <3>7 DEF ReserveInv
    <3>10. TxInv(self, tx[self])'
      BY <3>2, <3>9 DEF TxInv
    <3>11. Exclusive'
      BY <1>0, <2>1 DEF Exclusive, Free
    <3>. QED
      BY <1>0, <2>1, <3>1, <3>10, <3>11, QuietStep
  <2>. QED
    BY <1>6, <1>7, <2>0, <2>1 DEF ReadSale
<1>8. CASE CheckLimit(self)
  <2>0. x.at = "limit"
    BY <1>8 DEF CheckLimit, At
  <2>1. CASE ~ LimitExceeded(x.request) /\ Goto(self, "sale")
             /\ UNCHANGED <<clock, tables, held, reply>>
    <3>1. /\ DOMAIN tx' = Sessions /\ \A t \in Sessions \ {self} : tx'[t] = tx[t]
          /\ tx'[self] \in ReserveTx /\ tx'[self].at = "sale" /\ tx'[self].key = x.key
          /\ tx'[self].request = x.request /\ tx'[self].now = x.now
      BY <1>0, <1>1, <2>1, GotoReserve DEF Statements
    <3>2. \A table, i : Owns(self, table, i) => Owns(self, table, i)'
      BY <2>1 DEF Owns
    <3>3. SpelledFits(x.request)'
      <4>1. SpelledFits(x.request)
        <5>1. MaxPerUser[s] \in Nat /\ q \in Nat
          BY <1>2, SchemaAssumption
        <5>2. /\ Sum(reservations, OfUser(reservations, s, u, Active)) \in Nat
              /\ Sum(reservations, OfUserAs(reservations, s, y, u, Active)) \in Nat
              /\ Sum(reservations, OfUserAs(reservations, s, y, u, Active))
                   <= Sum(reservations, OfUser(reservations, s, u, Active))
          BY UserUnits DEF TablesTypeOK, IsTable
        <5>. QED
          BY <2>1, <5>1, <5>2 DEF LimitExceeded, SpelledFits
      <4>2. UNCHANGED reservations
        BY <2>1 DEF tables
      <4>. QED
        BY <3>1, <4>1, <4>2 DEF SpelledFits
    <3>4. ReserveInv(self, tx[self])'
      BY <1>1, <2>0, <2>1, <3>1, <3>2, <3>3 DEF ReserveInv, tables
    <3>5. TxInv(self, tx[self])'
      BY <3>1, <3>4 DEF TxInv
    <3>6. Exclusive'
      BY <1>0, <2>1 DEF Exclusive, Free
    <3>. QED
      BY <1>0, <2>1, <3>1, <3>5, <3>6, QuietStep
  <2>. QED
    BY <1>6, <1>8, <2>0, <2>1 DEF CheckLimit
<1>9. CASE DecrementSale(self)
  <2>0. x.at = "sale"
    BY <1>9 DEF DecrementSale, At
  <2>1. CASE /\ SaleMatches(s, q) /\ Acquire(self, "flash_sales", s, "no key update")
             /\ Goto(self, "inventory") /\ UNCHANGED <<clock, tables, reply>>
    <3>1. /\ DOMAIN tx' = Sessions /\ \A t \in Sessions \ {self} : tx'[t] = tx[t]
          /\ tx'[self] \in ReserveTx /\ tx'[self].at = "inventory" /\ tx'[self].key = x.key
          /\ tx'[self].request = x.request /\ tx'[self].now = x.now
      BY <1>0, <1>1, <2>1, GotoReserve DEF Statements
    <3>2. /\ DOMAIN held' = Sessions /\ \A t \in Sessions \ {self} : held'[t] = held[t]
          /\ \A table, i : Owns(self, table, i) => Owns(self, table, i)'
          /\ Owns(self, "flash_sales", s)' /\ Exclusive'
      BY <1>0, <2>1, <3>1, Acquired
    <3>3. SpelledFits(x.request) /\ UNCHANGED <<reservations, flash_sales, idempotency_keys>>
      BY <1>1, <2>0, <2>1 DEF ReserveInv, tables
    <3>4. ReserveInv(self, tx[self])'
      BY <1>1, <2>0, <2>1, <3>1, <3>2, <3>3 DEF ReserveInv, SpelledFits, SaleMatches
    <3>5. TxInv(self, tx[self])'
      BY <3>1, <3>4 DEF TxInv
    <3>. QED
      BY <1>0, <2>1, <3>1, <3>2, <3>5, QuietStep
  <2>. QED
    BY <1>6, <1>9, <2>0, <2>1 DEF DecrementSale
<1>10. CASE DecrementInventory(self)
  <2>0. x.at = "inventory" /\ Owns(self, "flash_sales", s)
    BY <1>1, <1>10 DEF DecrementInventory, At, ReserveInv
  <2>1. CASE /\ InventoryMatches(ProductOf[s], q)
             /\ Acquire(self, "inventory", ProductOf[s], "no key update")
             /\ Goto(self, "commit") /\ UNCHANGED <<clock, tables, reply>>
    <3>1. /\ DOMAIN tx' = Sessions /\ \A t \in Sessions \ {self} : tx'[t] = tx[t]
          /\ tx'[self] \in ReserveTx /\ tx'[self].at = "commit" /\ tx'[self].key = x.key
          /\ tx'[self].request = x.request /\ tx'[self].now = x.now
      BY <1>0, <1>1, <2>1, GotoReserve DEF Statements
    <3>2. /\ DOMAIN held' = Sessions /\ \A t \in Sessions \ {self} : held'[t] = held[t]
          /\ \A table, i : Owns(self, table, i) => Owns(self, table, i)'
          /\ Owns(self, "inventory", ProductOf[s])' /\ Exclusive'
      BY <1>0, <2>1, <3>1, Acquired
    <3>3. /\ SpelledFits(x.request) /\ SaleMatches(s, q)
          /\ UNCHANGED <<reservations, flash_sales, inventory, idempotency_keys>>
      BY <1>1, <2>0, <2>1 DEF ReserveInv, tables
    <3>4. ReserveInv(self, tx[self])'
      BY <1>1, <2>0, <2>1, <3>1, <3>2, <3>3
      DEF ReserveInv, SpelledFits, SaleMatches, InventoryMatches
    <3>5. TxInv(self, tx[self])'
      BY <3>1, <3>4 DEF TxInv
    <3>. QED
      BY <1>0, <2>1, <3>1, <3>2, <3>5, QuietStep
  <2>. QED
    BY <1>6, <1>10, <2>0, <2>1 DEF DecrementInventory
<1>11. CASE CommitReservation(self)
  <2>1. \A t \in Sessions \ {self} : Rely(t)
    BY <1>11, CommitReservationRely
  <2>. QED
    BY <1>11, <2>1, FinishStep DEF CommitReservation
<1>. QED
  BY <1>3, <1>4, <1>5, <1>7, <1>8, <1>9, <1>10, <1>11 DEF ReserveStep

(***************************************************************************)
(* A committed reservation is Grant, a committed refusal Refuse, or        *)
(* RefuseShort when the sale's counter was decremented first; no other     *)
(* statement of Reserve changes the tables.                                *)
(***************************************************************************)
LEMMA ReserveSimulates ==
  ASSUME SessionsInv, TablesTypeOK, NEW self \in Sessions, ReserveStep(self)
  PROVE  Ledger!Next \/ UNCHANGED <<clock, tables>>
<1> DEFINE x == tx[self]
           k == x.key
           req == x.request
           s == req.sale_id
           q == req.quantity
<1>1. x \in ReserveTx /\ ReserveInv(self, x)
  BY TxOf DEF ReserveStep, ClaimKey, ReplayReservation, LockUser, ReadSale, CheckLimit,
              DecrementSale, DecrementInventory, CommitReservation, At
<1>2. /\ k \in Keys /\ req \in Request /\ s \in Sales /\ q \in Nat
      /\ x.now \in Nat /\ clock \in Nat /\ StartsAt[s] \in Nat /\ MaxPerUser[s] \in Nat
  BY <1>1, SchemaAssumption DEF ReserveTx, Request, TablesTypeOK
<1>3. Ledger!Request = Request /\ Ledger!ErrorCodes = ErrorCodes
  BY DEF Ledger!Request, Request, Ledger!ErrorCodes, ErrorCodes
<1>4. ASSUME NEW code \in ErrorCodes, FinishReservationError(self, code),
             UNCHANGED flash_sales, x.at \notin {"claim", "replay"}
      PROVE  Ledger!Next
  <2>1. k \in Keys \ DOMAIN idempotency_keys
    BY <1>1, <1>2, <1>4 DEF ReserveInv
  <2>2. Ledger!Refuse(k, req, code)
    BY <1>4, <2>1, SameInsert DEF FinishReservationError, Ledger!Refuse
  <2>. QED
    BY <1>2, <1>3, <2>2 DEF Ledger!Next
<1>5. CASE ReadSale(self)
  BY <1>4, <1>5, RefusalCode DEF ReadSale, At
<1>6. CASE CheckLimit(self)
  BY <1>4, <1>6 DEF CheckLimit, At, ErrorCodes
<1>7. CASE DecrementSale(self)
  BY <1>4, <1>7 DEF DecrementSale, At, ErrorCodes
<1>8. CASE DecrementInventory(self)
  <2>1. CASE UNCHANGED <<clock, tables>>
    BY <2>1
  <2>2. CASE /\ ~ InventoryMatches(ProductOf[s], q)
             /\ FinishReservationError(self, "INVENTORY_SOLD_OUT")
             /\ flash_sales' = SaleAfter(s, q)
    <3>1. /\ k \in Keys \ DOMAIN idempotency_keys
          /\ s \in DOMAIN flash_sales
          /\ flash_sales[s].remaining_stock >= q
      BY <1>1, <1>2, <1>8 DEF ReserveInv, DecrementInventory, At, SaleMatches
    <3>2. inventory[ProductOf[s]].available \in Nat
      BY <3>1 DEF TablesTypeOK, IsTable, InventoryRow
    <3>3. inventory[ProductOf[s]].available < q
      BY <1>2, <2>2, <3>2 DEF InventoryMatches
    <3>4. flash_sales' = [flash_sales EXCEPT ![s].remaining_stock = @ - q]
      BY <2>2 DEF SaleAfter
    <3>5. Ledger!RefuseShort(k, req)
      BY <2>2, <3>1, <3>3, <3>4, SameInsert DEF FinishReservationError, Ledger!RefuseShort
    <3>. QED
      BY <1>2, <1>3, <3>5 DEF Ledger!Next
  <2>. QED
    BY <1>8, <2>1, <2>2 DEF DecrementInventory
<1>9. CASE CommitReservation(self)
  <2> DEFINE r == NewID
  <2>1. r \in ReservationIDs \ DOMAIN reservations
    BY <1>9 DEF CommitReservation, NewID
  <2>2. /\ k \in Keys \ DOMAIN idempotency_keys
        /\ s \in DOMAIN flash_sales
        /\ flash_sales[s].state = "active"
        /\ flash_sales[s].remaining_stock >= q
        /\ inventory[ProductOf[s]].available >= q
        /\ StartsAt[s] <= x.now /\ x.now < EndsAt[s] /\ x.now <= clock
        /\ SpelledFits(req)
    BY <1>1, <1>2, <1>9
    DEF ReserveInv, CommitReservation, At, SaleMatches, InventoryMatches
  <2>3. Sum(reservations, OfUserAs(reservations, s, req.spelling, req.user_id, Active)) + q
          <= MaxPerUser[s]
    BY <2>2 DEF SpelledFits
  <2>4. x.now \in StartsAt[s]..clock
    BY <1>2, <2>2
  <2>5. /\ flash_sales' = [flash_sales EXCEPT ![s].remaining_stock = @ - q]
        /\ inventory' = [inventory EXCEPT ![ProductOf[s]].available = @ - q,
                                          ![ProductOf[s]].reserved = @ + q]
        /\ reservations' = Insert(reservations, r,
             [sale_id |-> s, spelling |-> req.spelling, user_id |-> req.user_id, quantity |-> q,
              state |-> "pending", expires_at |-> x.now + TTL])
        /\ orders' = Insert(orders, r, "pending")
        /\ idempotency_keys' = Insert(idempotency_keys, k,
             [request |-> req, code |-> "CREATED", resource_id |-> r])
        /\ Event({r}, NULL, "pending")
        /\ UNCHANGED <<clock, products, payments>>
    BY <1>9 DEF CommitReservation, SaleAfter
  <2>. HIDE DEF r
  <2>6. Ledger!Grant(k, req, r)
    BY <2>1, <2>2, <2>3, <2>4, <2>5, SameInsert, SameSum, SameUser, SameEvent
    DEF Ledger!Grant
  <2>. QED
    BY <1>2, <1>3, <2>1, <2>6 DEF Ledger!Next
<1>. QED
  BY <1>5, <1>6, <1>7, <1>8, <1>9
  DEF ReserveStep, ClaimKey, ReplayReservation, LockUser

-----------------------------------------------------------------------------
(***************************************************************************)
(* TransitionReservation.                                                  *)
(***************************************************************************)
\* The inventory has reserved what a pending or confirmed reservation holds.
LEMMA RowIsReserved ==
  ASSUME TablesTypeOK, InventoryReconciled, NEW r \in DOMAIN reservations,
         reservations[r].state \in Holding
  PROVE  /\ reservations[r].quantity \in 1..MaxQuantity
         /\ reservations[r].sale_id \in DOMAIN flash_sales
         /\ ProductOf[reservations[r].sale_id] \in DOMAIN inventory
         /\ inventory[ProductOf[reservations[r].sale_id]].reserved >= reservations[r].quantity
<1> DEFINE p == ProductOf[reservations[r].sale_id]
<1>1. /\ reservations[r].quantity \in 1..MaxQuantity
      /\ reservations[r].sale_id \in DOMAIN flash_sales
      /\ p \in DOMAIN inventory
      /\ inventory[p].reserved \in Nat
  BY DEF TablesTypeOK, IsTable, ReservationRow, InventoryRow
<1>2. {r} \subseteq OfProduct(reservations, p, Holding)
  BY DEF OfProduct
<1>3. Sum(reservations, {r}) <= inventory[p].reserved
  BY <1>1, <1>2, HeldIsReserved
<1>4. Sum(reservations, {r}) = reservations[r].quantity
  BY <1>1, SumOne
<1>. QED
  BY <1>1, <1>3, <1>4, SchemaAssumption

\* A confirmation writes the row it owns, a cancellation both counters too.
LEMMA CommitTransitionRely ==
  ASSUME SessionsInv, TablesTypeOK, NEW self \in Sessions, CommitTransition(self),
         NEW t \in Sessions \ {self}
  PROVE  Rely(t)
<1> DEFINE x == tx[self]
           s == reservations[x.id].sale_id
<1>0. Exclusive /\ x \in TransitionTx /\ TransitionInv(self, x) /\ x.at = "commit"
  BY TxOf DEF SessionsInv, CommitTransition, At
<1>1. /\ x.id \in DOMAIN reservations
      /\ reservations[x.id].state = "pending"
      /\ ~ Owns(t, "reservations", x.id)
      /\ x.restored => ~ Owns(t, "inventory", ProductOf[s])
      /\ x.target = "cancelled" => ~ Owns(t, "flash_sales", s)
  BY <1>0, OwnerUnique DEF TransitionInv
<1>2. reservations' = [reservations EXCEPT ![x.id].state = x.target]
  BY DEF CommitTransition
<1>3. DOMAIN orders' = DOMAIN orders /\ UNCHANGED <<clock, payments, idempotency_keys>>
  BY DEF CommitTransition
<1>4. /\ DOMAIN flash_sales' = DOMAIN flash_sales
      /\ \A i \in DOMAIN flash_sales :
           Owns(t, "flash_sales", i) => flash_sales'[i] = flash_sales[i]
  BY <1>1 DEF CommitTransition, RestoredSale
<1>5. \A i \in DOMAIN inventory : Owns(t, "inventory", i) => inventory'[i] = inventory[i]
  BY <1>1 DEF CommitTransition, RestoredInventory
<1>6. /\ DOMAIN reservations' = DOMAIN reservations
      /\ \A i \in DOMAIN reservations :
           Owns(t, "reservations", i) => reservations'[i] = reservations[i]
  BY <1>1, <1>2
<1>7. \A r \in DOMAIN reservations :
        /\ reservations'[r].sale_id = reservations[r].sale_id
        /\ reservations'[r].spelling = reservations[r].spelling
        /\ reservations'[r].user_id = reservations[r].user_id
        /\ reservations'[r].quantity = reservations[r].quantity
        /\ reservations'[r].state \in Active => reservations[r].state \in Active
  BY <1>1, <1>2 DEF TablesTypeOK, IsTable, ReservationRow, Active
<1>8. \A i, y, u : Sum(reservations', OfUserAs(reservations', i, y, u, Active))
                  <= Sum(reservations, OfUserAs(reservations, i, y, u, Active))
  BY <1>6, <1>7, UnitsShrink
<1>9. clock \in Nat
  BY DEF TablesTypeOK
<1>. QED
  BY <1>3, <1>4, <1>5, <1>6, <1>8, <1>9 DEF Rely, Grows

\* Every statement of TransitionReservation keeps the sessions' invariant.
LEMMA TransitionSessions ==
  ASSUME SessionsInv, TablesTypeOK, InventoryReconciled, TablesTypeOK',
         NEW self \in Sessions, TransitionStep(self)
  PROVE  SessionsInv'
<1> DEFINE x == tx[self]
           s == reservations[x.id].sale_id
<1>0. /\ DOMAIN tx = Sessions /\ DOMAIN held = Sessions /\ DOMAIN reply = Sessions
      /\ Exclusive
  BY DEF SessionsInv
<1>1. x \in TransitionTx /\ TransitionInv(self, x)
  BY TxOf DEF TransitionStep, LockForTransition, UpdateOrder, UpdateInventory, UpdateSale,
              CommitTransition, At
<1>2. ASSUME NEW answer, Finish(self, answer), UNCHANGED <<clock, tables>>
      PROVE  SessionsInv'
  <2>1. \A t \in Sessions : Rely(t)
    BY <1>2, RelyQuiet
  <2>. QED
    BY <1>2, <2>1, FinishStep
<1>3. CASE LockForTransition(self)
  <2>1. CASE /\ x.id \in DOMAIN reservations
             /\ ValidTransition(reservations[x.id].state, x.target)
             /\ Acquire(self, "reservations", x.id, "update")
             /\ tx' = [tx EXCEPT ![self].at = "order",
                                 ![self].current = reservations[x.id].state]
             /\ UNCHANGED reply
    <3>1. x.at = "lock" /\ ~ x.restored /\ x.target \in Targets /\ UNCHANGED <<clock, tables>>
      BY <1>1, <1>3 DEF LockForTransition, At, TransitionInv, TransitionTx
    <3>2. reservations[x.id].state = "pending"
      BY <2>1, <3>1 DEF ValidTransition, Targets
    <3>3. /\ DOMAIN tx' = Sessions /\ \A t \in Sessions \ {self} : tx'[t] = tx[t]
          /\ tx'[self].at = "order" /\ tx'[self].id = x.id /\ tx'[self].target = x.target
          /\ tx'[self].current = "pending" /\ tx'[self].restored = x.restored
      BY <1>0, <1>1, <2>1, <3>2 DEF TransitionTx
    <3>4. tx'[self] \in TransitionTx
      BY <1>0, <1>1, <2>1, <3>2 DEF TransitionTx, ReservationStates, Statements
    <3>5. /\ DOMAIN held' = Sessions /\ \A t \in Sessions \ {self} : held'[t] = held[t]
          /\ Owns(self, "reservations", x.id)' /\ Exclusive'
      BY <1>0, <2>1, <3>3, Acquired
    <3>6. UNCHANGED reservations
      BY <3>1 DEF tables
    <3>7. TransitionInv(self, tx[self])'
      BY <2>1, <3>1, <3>2, <3>3, <3>5, <3>6 DEF TransitionInv
    <3>8. TxInv(self, tx[self])'
      BY <3>4, <3>7 DEF TxInv
    <3>. QED
      BY <1>0, <2>1, <3>1, <3>3, <3>5, <3>8, QuietStep
  <2>. QED
    BY <1>2, <1>3, <2>1 DEF LockForTransition
<1>4. CASE UpdateOrder(self)
  <2> DEFINE next == IF x.target = "cancelled" THEN "inventory" ELSE "commit"
  <2>1. x.at = "order" /\ ~ x.restored /\ UNCHANGED <<clock, tables, reply>>
    BY <1>1, <1>4 DEF UpdateOrder, At, TransitionInv
  <2>2. next \in Statements.transition /\ Goto(self, next)
    BY <1>4 DEF UpdateOrder, Statements
  <2>3. /\ DOMAIN tx' = Sessions /\ \A t \in Sessions \ {self} : tx'[t] = tx[t]
        /\ tx'[self] \in TransitionTx /\ tx'[self].at = next /\ tx'[self].id = x.id
        /\ tx'[self].target = x.target /\ tx'[self].current = x.current
        /\ tx'[self].restored = x.restored
    BY <1>0, <1>1, <2>2, GotoTransition
  <2>4. /\ DOMAIN held' = Sessions /\ \A t \in Sessions \ {self} : held'[t] = held[t]
        /\ \A table, i : Owns(self, table, i) => Owns(self, table, i)'
        /\ Exclusive'
    BY <1>0, <1>4, Acquired DEF UpdateOrder
  <2>5. UNCHANGED reservations
    BY <2>1 DEF tables
  <2>6. TransitionInv(self, tx[self])'
    BY <1>1, <2>1, <2>3, <2>4, <2>5 DEF TransitionInv
  <2>7. TxInv(self, tx[self])'
    BY <2>3, <2>6 DEF TxInv
  <2>. QED
    BY <1>0, <2>1, <2>3, <2>4, <2>7, QuietStep
<1>5. CASE UpdateInventory(self)
  <2>1. /\ x.at = "inventory" /\ x.target = "cancelled" /\ x.id \in DOMAIN reservations
        /\ reservations[x.id].state = "pending" /\ UNCHANGED <<clock, tables, reply>>
    BY <1>1, <1>5 DEF UpdateInventory, At, TransitionInv
  <2>2. inventory[ProductOf[s]].reserved >= reservations[x.id].quantity
    BY <2>1, RowIsReserved DEF Holding
  <2>3. /\ Acquire(self, "inventory", ProductOf[s], "no key update")
        /\ tx' = [tx EXCEPT ![self].at = "sale", ![self].restored = TRUE]
    BY <1>5, <2>2 DEF UpdateInventory, ReservedCovers, Acquire
  <2>4. /\ DOMAIN tx' = Sessions /\ \A t \in Sessions \ {self} : tx'[t] = tx[t]
        /\ tx'[self].at = "sale" /\ tx'[self].id = x.id /\ tx'[self].target = x.target
        /\ tx'[self].current = x.current /\ tx'[self].restored = TRUE
    BY <1>0, <1>1, <2>3 DEF TransitionTx
  <2>5. tx'[self] \in TransitionTx
    BY <1>0, <1>1, <2>3 DEF TransitionTx, Statements
  <2>6. UNCHANGED reservations
    BY <2>1 DEF tables
  <2>7. /\ DOMAIN held' = Sessions /\ \A t \in Sessions \ {self} : held'[t] = held[t]
        /\ \A table, i : Owns(self, table, i) => Owns(self, table, i)'
        /\ Owns(self, "inventory", ProductOf[s])' /\ Exclusive'
    BY <1>0, <2>3, <2>4, <2>6, Acquired
  <2>8. TransitionInv(self, tx[self])'
    BY <1>1, <2>1, <2>4, <2>6, <2>7 DEF TransitionInv
  <2>9. TxInv(self, tx[self])'
    BY <2>5, <2>8 DEF TxInv
  <2>. QED
    BY <1>0, <2>1, <2>4, <2>7, <2>9, QuietStep
<1>6. CASE UpdateSale(self)
  <2>1. /\ x.at = "sale" /\ Acquire(self, "flash_sales", s, "no key update")
        /\ UNCHANGED <<clock, tables, reply>>
    BY <1>6 DEF UpdateSale, At
  <2>2. /\ DOMAIN tx' = Sessions /\ \A t \in Sessions \ {self} : tx'[t] = tx[t]
        /\ tx'[self] \in TransitionTx /\ tx'[self].at = "commit" /\ tx'[self].id = x.id
        /\ tx'[self].target = x.target /\ tx'[self].current = x.current
        /\ tx'[self].restored = x.restored
    BY <1>0, <1>1, <1>6, GotoTransition DEF UpdateSale, Statements
  <2>3. UNCHANGED reservations
    BY <2>1 DEF tables
  <2>4. /\ DOMAIN held' = Sessions /\ \A t \in Sessions \ {self} : held'[t] = held[t]
        /\ \A table, i : Owns(self, table, i) => Owns(self, table, i)'
        /\ Owns(self, "flash_sales", s)' /\ Exclusive'
    BY <1>0, <2>1, <2>2, <2>3, Acquired
  <2>5. TransitionInv(self, tx[self])'
    BY <1>1, <2>1, <2>2, <2>3, <2>4 DEF TransitionInv
  <2>6. TxInv(self, tx[self])'
    BY <2>2, <2>5 DEF TxInv
  <2>. QED
    BY <1>0, <2>1, <2>2, <2>4, <2>6, QuietStep
<1>7. CASE CommitTransition(self)
  <2>1. \A t \in Sessions \ {self} : Rely(t)
    BY <1>7, CommitTransitionRely
  <2>. QED
    BY <1>7, <2>1, FinishStep DEF CommitTransition
<1>. QED
  BY <1>3, <1>4, <1>5, <1>6, <1>7 DEF TransitionStep

\* Giving no units back to a row leaves it as it is.
LEMMA NothingBack ==
  ASSUME NEW row \in InventoryRow
  PROVE  [row EXCEPT !.available = @ + 0, !.reserved = @ - 0] = row
<1>1. row.available + 0 = row.available /\ row.reserved - 0 = row.reserved
  BY DEF InventoryRow
<1>2. [row EXCEPT !.available = row.available, !.reserved = row.reserved] = row
  BY DEF InventoryRow
<1>. QED
  BY <1>1, <1>2

(***************************************************************************)
(* A committed confirmation is Confirm and a committed cancellation Cancel *)
(* of a reservation that is still pending.                                 *)
(***************************************************************************)
LEMMA TransitionSimulates ==
  ASSUME SessionsInv, TablesTypeOK, NEW self \in Sessions, TransitionStep(self)
  PROVE  Ledger!Next \/ UNCHANGED <<clock, tables>>
<1> DEFINE x == tx[self]
           id == x.id
           s == reservations[id].sale_id
           q == reservations[id].quantity
           prod == ProductOf[s]
<1>1. CASE CommitTransition(self)
  <2>1. x \in TransitionTx /\ TransitionInv(self, x) /\ x.at = "commit"
    BY <1>1, TxOf DEF CommitTransition, At
  <2>2. /\ id \in DOMAIN reservations /\ id \in ReservationIDs
        /\ reservations[id].state = "pending" /\ x.current = "pending"
        /\ x.target \in Targets /\ (x.restored <=> x.target = "cancelled")
    BY <2>1 DEF TransitionInv, TransitionTx
  <2>3. /\ reservations' = [reservations EXCEPT ![id].state = x.target]
        /\ orders' = [orders EXCEPT ![id] = x.target]
        /\ inventory' = IF x.restored THEN RestoredInventory(prod, q) ELSE inventory
        /\ flash_sales' = IF x.target = "cancelled" THEN RestoredSale(s, q) ELSE flash_sales
        /\ Event({id}, "pending", x.target)
        /\ UNCHANGED <<clock, products, payments, idempotency_keys>>
    BY <1>1, <2>2 DEF CommitTransition
  <2>4. CASE x.target = "confirmed"
    <3>1. Ledger!Confirm(id)
      BY <2>2, <2>3, <2>4, SameEvent DEF Ledger!Confirm
    <3>. QED
      BY <2>2, <3>1 DEF Ledger!Next
  <2>5. CASE x.target = "cancelled"
    <3> DEFINE OfP(p) == {r \in {id} : ProductOf[reservations[r].sale_id] = p}
               OfS(i) == {r \in {id} : reservations[r].sale_id = i}
    <3>1. /\ \A r \in DOMAIN reservations : reservations[r] \in ReservationRow
          /\ \A p \in DOMAIN inventory : inventory[p] \in InventoryRow
          /\ \A i \in DOMAIN flash_sales : flash_sales[i] \in SaleRow
          /\ DOMAIN orders = DOMAIN reservations
          /\ q \in 1..MaxQuantity /\ q \in Nat
      BY <2>2, SchemaAssumption DEF TablesTypeOK, IsTable, ReservationRow
    <3>2. /\ OfP(prod) = {id} /\ OfS(s) = {id}
          /\ \A p : p # prod => OfP(p) = {}
          /\ \A i : i # s => OfS(i) = {}
      OBVIOUS
    <3>. HIDE DEF OfP, OfS
    <3>3. /\ Sum(reservations, OfP(prod)) = q
          /\ Sum(reservations, OfS(s)) = q
          /\ \A p : p # prod => Sum(reservations, OfP(p)) = 0
          /\ \A i : i # s => Sum(reservations, OfS(i)) = 0
      BY <3>1, <3>2, SumOne, SumEmpty
    <3>4. inventory' = [p \in DOMAIN inventory |->
            [inventory[p] EXCEPT !.available = @ + Sum(reservations, OfP(p)),
                                 !.reserved = @ - Sum(reservations, OfP(p))]]
      <4>1. \A p \in DOMAIN inventory : p # prod =>
              [inventory[p] EXCEPT !.available = @ + Sum(reservations, OfP(p)),
                                   !.reserved = @ - Sum(reservations, OfP(p))] = inventory[p]
        BY <3>1, <3>3, NothingBack
      <4>2. inventory' = [inventory EXCEPT ![prod].available = @ + q, ![prod].reserved = @ - q]
        BY <2>2, <2>3, <2>5 DEF RestoredInventory
      <4>. QED
        BY <3>3, <4>1, <4>2
    <3>5. flash_sales' = [i \in DOMAIN flash_sales |->
            [flash_sales[i] EXCEPT !.remaining_stock = @ + Sum(reservations, OfS(i))]]
      <4>1. \A i \in DOMAIN flash_sales : i # s =>
              [flash_sales[i] EXCEPT !.remaining_stock = @ + Sum(reservations, OfS(i))]
                = flash_sales[i]
        BY <3>1, <3>3 DEF SaleRow
      <4>2. flash_sales' = [flash_sales EXCEPT ![s].remaining_stock = @ + q]
        BY <2>3, <2>5 DEF RestoredSale
      <4>. QED
        BY <3>3, <4>1, <4>2
    <3>6. /\ reservations' = [r \in DOMAIN reservations |->
               IF r \in {id} THEN [reservations[r] EXCEPT !.state = "cancelled"]
                             ELSE reservations[r]]
          /\ orders' = [r \in DOMAIN orders |-> IF r \in {id} THEN "cancelled" ELSE orders[r]]
      BY <2>3, <2>5
    <3>7. Ledger!Release({id}, "cancelled")
      <4>. USE DEF OfP, OfS
      <4>. QED
        BY <2>2, <2>3, <2>5, <3>4, <3>5, <3>6, SameSum, SameEvent DEF Ledger!Release
    <3>8. Ledger!Cancel(id)
      BY <2>2, <3>7 DEF Ledger!Cancel
    <3>. QED
      BY <2>2, <3>8 DEF Ledger!Next
  <2>. QED
    BY <2>2, <2>4, <2>5 DEF Targets
<1>. QED
  BY <1>1 DEF TransitionStep, LockForTransition, UpdateOrder, UpdateInventory, UpdateSale

-----------------------------------------------------------------------------
(***************************************************************************)
(* ExpireBatch.                                                            *)
(***************************************************************************)
\* A batch writes rows it owns: a sale or product without a row in the batch
\* gets no units.
LEMMA CommitExpireRely ==
  ASSUME SessionsInv, TablesTypeOK, NEW self \in Sessions, CommitExpire(self),
         NEW t \in Sessions \ {self}
  PROVE  Rely(t)
<1> DEFINE x == tx[self]
           S == x.batch
           OfP(p) == {r \in S : ProductOf[reservations[r].sale_id] = p}
           OfS(i) == {r \in S : reservations[r].sale_id = i}
<1>0. Exclusive /\ x \in ExpireTx /\ ExpireInv(self, x) /\ x.at = "commit"
  BY TxOf DEF SessionsInv, CommitExpire, At
<1>1. /\ S \subseteq DOMAIN reservations
      /\ \A r \in S : /\ Owns(self, "reservations", r)
                      /\ Owns(self, "inventory", ProductOf[reservations[r].sale_id])
                      /\ Owns(self, "flash_sales", reservations[r].sale_id)
                      /\ reservations[r].state = "pending"
  BY <1>0 DEF ExpireInv, IsDue
<1>2. \A r \in S : /\ ~ Owns(t, "reservations", r)
                   /\ ~ Owns(t, "inventory", ProductOf[reservations[r].sale_id])
                   /\ ~ Owns(t, "flash_sales", reservations[r].sale_id)
  BY <1>0, <1>1, OwnerUnique
<1>3. DOMAIN orders' = DOMAIN orders /\ UNCHANGED <<clock, payments, idempotency_keys>>
  BY DEF CommitExpire
<1>4. reservations' = [r \in DOMAIN reservations |->
        IF r \in S THEN [reservations[r] EXCEPT !.state = "expired"] ELSE reservations[r]]
  BY DEF CommitExpire
<1>5. /\ DOMAIN flash_sales' = DOMAIN flash_sales
      /\ \A i \in DOMAIN flash_sales :
           Owns(t, "flash_sales", i) => flash_sales'[i] = flash_sales[i]
  <2>1. flash_sales' = [i \in DOMAIN flash_sales |->
          [flash_sales[i] EXCEPT !.remaining_stock = @ + Sum(reservations, OfS(i))]]
    BY DEF CommitExpire, BatchOfSale
  <2>2. ASSUME NEW i \in DOMAIN flash_sales, Owns(t, "flash_sales", i)
        PROVE  flash_sales'[i] = flash_sales[i]
    <3>1. OfS(i) = {}
      BY <1>2, <2>2
    <3>2. Sum(reservations, OfS(i)) = 0
      BY <3>1, SumEmpty
    <3>3. flash_sales[i] \in SaleRow
      BY DEF TablesTypeOK, IsTable
    <3>. HIDE DEF OfS
    <3>. QED
      BY <2>1, <3>2, <3>3 DEF SaleRow
  <2>. QED
    BY <2>1, <2>2
<1>6. \A p \in DOMAIN inventory : Owns(t, "inventory", p) => inventory'[p] = inventory[p]
  <2>1. inventory' = [p \in DOMAIN inventory |->
          [inventory[p] EXCEPT !.available = @ + Sum(reservations, OfP(p)),
                               !.reserved = @ - Sum(reservations, OfP(p))]]
    BY DEF CommitExpire, BatchOfProduct
  <2>2. ASSUME NEW p \in DOMAIN inventory, Owns(t, "inventory", p)
        PROVE  inventory'[p] = inventory[p]
    <3>1. OfP(p) = {}
      BY <1>2, <2>2
    <3>2. Sum(reservations, OfP(p)) = 0
      BY <3>1, SumEmpty
    <3>3. inventory[p] \in InventoryRow
      BY DEF TablesTypeOK, IsTable
    <3>. HIDE DEF OfP
    <3>. QED
      BY <2>1, <3>2, <3>3, NothingBack
  <2>. QED
    BY <2>2
<1>7. /\ DOMAIN reservations' = DOMAIN reservations
      /\ \A i \in DOMAIN reservations :
           Owns(t, "reservations", i) => reservations'[i] = reservations[i]
  BY <1>2, <1>4
<1>8. \A r \in DOMAIN reservations :
        /\ reservations'[r].sale_id = reservations[r].sale_id
        /\ reservations'[r].spelling = reservations[r].spelling
        /\ reservations'[r].user_id = reservations[r].user_id
        /\ reservations'[r].quantity = reservations[r].quantity
        /\ reservations'[r].state \in Active => reservations[r].state \in Active
  BY <1>1, <1>4 DEF TablesTypeOK, IsTable, ReservationRow, Active
<1>9. \A i, y, u : Sum(reservations', OfUserAs(reservations', i, y, u, Active))
                  <= Sum(reservations, OfUserAs(reservations, i, y, u, Active))
  BY <1>7, <1>8, UnitsShrink
<1>10. clock \in Nat
  BY DEF TablesTypeOK
<1>. QED
  BY <1>3, <1>5, <1>6, <1>7, <1>9, <1>10 DEF Rely, Grows

\* The loop's variables keep their types.
LEMMA ExpireTxUpdate ==
  ASSUME NEW x \in ExpireTx, NEW a \in Statements.expire,
         NEW r \in ReservationIDs \cup {NULL}, NEW T \in SUBSET ReservationIDs
  PROVE  /\ [x EXCEPT !.at = a, !.batch = T, !.todo = T, !.current = r] \in ExpireTx
         /\ [x EXCEPT !.at = a, !.todo = T, !.current = r] \in ExpireTx
<1> DEFINE Rows == SUBSET ReservationIDs
           Row == ReservationIDs \cup {NULL}
           Limits == 1..1000
<1>1. ExpireTx = [op : {"expire"}, at : Statements.expire, limit : Limits, now : Nat,
                  batch : Rows, todo : Rows, current : Row]
  BY DEF ExpireTx
<1>2. r \in Row /\ T \in Rows
  OBVIOUS
<1>. HIDE DEF Row, Rows, Limits
<1>. QED
  BY <1>1, <1>2

\* Every statement of ExpireBatch keeps the sessions' invariant.
LEMMA ExpireSessions ==
  ASSUME SessionsInv, TablesTypeOK, TablesTypeOK', NEW self \in Sessions, ExpireStep(self)
  PROVE  SessionsInv'
<1> DEFINE x == tx[self]
           sale(r) == reservations[r].sale_id
           prod(r) == ProductOf[sale(r)]
<1>0. /\ DOMAIN tx = Sessions /\ DOMAIN held = Sessions /\ DOMAIN reply = Sessions
      /\ Exclusive
  BY DEF SessionsInv
<1>1. x \in ExpireTx /\ ExpireInv(self, x)
  BY TxOf DEF ExpireStep, SelectBatch, RestoreInventory, RestoreSale, ExpireOrder,
              CommitExpire, At
<1>2. CASE SelectBatch(self)
  <2>0. x.at = "select" /\ UNCHANGED <<clock, tables>>
    BY <1>2 DEF SelectBatch, At
  <2>1. CASE Finish(self, ExpirationReply({}))
    <3>1. \A t \in Sessions : Rely(t)
      BY <2>0, RelyQuiet
    <3>. QED
      BY <2>1, <3>1, FinishStep
  <2>2. ASSUME NEW S \in SUBSET Candidates(self), NEW first \in S, UNCHANGED reply,
               held' = [held EXCEPT ![self] = {<<"reservations", r, "update">> : r \in S}],
               tx' = [tx EXCEPT ![self].at = "inventory", ![self].batch = S,
                                ![self].todo = S, ![self].current = first]
        PROVE  SessionsInv'
    <3>1. /\ DOMAIN tx' = Sessions /\ \A t \in Sessions \ {self} : tx'[t] = tx[t]
          /\ tx'[self].at = "inventory" /\ tx'[self].now = x.now
          /\ tx'[self].batch = S /\ tx'[self].todo = S /\ tx'[self].current = first
      BY <1>0, <1>1, <2>2 DEF ExpireTx
    <3>2. /\ S \subseteq DOMAIN reservations /\ S \subseteq ReservationIDs
          /\ \A r \in S : IsDue(r, x.now) /\ Free(self, "reservations", r, "update")
      BY <2>2 DEF Candidates, TablesTypeOK, IsTable
    <3>3. tx'[self] \in ExpireTx
      <4>1. tx'[self] = [x EXCEPT !.at = "inventory", !.batch = S, !.todo = S,
                                  !.current = first]
        BY <1>0, <2>2
      <4>2. /\ "inventory" \in Statements.expire /\ S \in SUBSET ReservationIDs
            /\ first \in ReservationIDs \cup {NULL}
        BY <2>2, <3>2 DEF Statements
      <4>3. [x EXCEPT !.at = "inventory", !.batch = S, !.todo = S, !.current = first]
              \in ExpireTx
        BY <1>1, <4>2, ExpireTxUpdate, Zenon
      <4>. QED
        BY <4>1, <4>3
    <3>4. /\ DOMAIN held' = Sessions /\ \A t \in Sessions \ {self} : held'[t] = held[t]
          /\ held'[self] = {<<"reservations", r, "update">> : r \in S}
      BY <1>0, <2>2
    <3>5. \A l \in held'[self] : Free(self, l[1], l[2], l[3])
      BY <3>2, <3>4
    <3>6. Exclusive'
      BY <1>0, <3>4, <3>5, KeepsExclusive
    <3>7. \A r \in S : Owns(self, "reservations", r)'
      BY <3>4 DEF Owns
    <3>8. UNCHANGED reservations /\ UNCHANGED clock
      BY <2>0 DEF tables
    <3>9. x.now <= clock
      BY <1>1 DEF ExpireInv
    <3>10. ExpireInv(self, tx[self])'
      BY <2>2, <3>1, <3>2, <3>7, <3>8, <3>9 DEF ExpireInv, IsDue
    <3>11. TxInv(self, tx[self])'
      BY <3>3, <3>10 DEF TxInv
    <3>. QED
      BY <1>0, <2>0, <2>2, <3>1, <3>4, <3>6, <3>11, QuietStep
  <2>. QED
    BY <1>2, <2>1, <2>2 DEF SelectBatch
<1>3. CASE RestoreInventory(self)
  <2>0. x.at = "inventory" /\ UNCHANGED <<clock, tables, reply>>
    BY <1>3 DEF RestoreInventory, At
  <2>1. /\ Acquire(self, "inventory", prod(x.current), "no key update")
        /\ Goto(self, "sale")
    BY <1>3 DEF RestoreInventory
  <2>2. /\ DOMAIN tx' = Sessions /\ \A t \in Sessions \ {self} : tx'[t] = tx[t]
        /\ tx'[self] \in ExpireTx /\ tx'[self].at = "sale" /\ tx'[self].now = x.now
        /\ tx'[self].current = x.current
        /\ tx'[self].batch = x.batch /\ tx'[self].todo = x.todo
    BY <1>0, <1>1, <2>1, GotoExpire DEF Statements
  <2>4. UNCHANGED reservations /\ UNCHANGED clock
    BY <2>0 DEF tables
  <2>5. /\ DOMAIN held' = Sessions /\ \A t \in Sessions \ {self} : held'[t] = held[t]
        /\ \A table, i : Owns(self, table, i) => Owns(self, table, i)'
        /\ Owns(self, "inventory", prod(x.current))' /\ Exclusive'
    BY <1>0, <2>1, <2>2, <2>4, Acquired
  <2>6. ExpireInv(self, tx[self])'
    BY <1>1, <2>0, <2>1, <2>2, <2>4, <2>5 DEF ExpireInv, IsDue
  <2>7. TxInv(self, tx[self])'
    BY <2>2, <2>6 DEF TxInv
  <2>. QED
    BY <1>0, <2>0, <2>2, <2>5, <2>7, QuietStep
<1>4. CASE RestoreSale(self)
  <2>0. x.at = "sale" /\ UNCHANGED <<clock, tables, reply>>
    BY <1>4 DEF RestoreSale, At
  <2>1. /\ DOMAIN tx' = Sessions /\ \A t \in Sessions \ {self} : tx'[t] = tx[t]
        /\ tx'[self] \in ExpireTx /\ tx'[self].at = "order" /\ tx'[self].now = x.now
        /\ tx'[self].current = x.current
        /\ tx'[self].batch = x.batch /\ tx'[self].todo = x.todo
    BY <1>0, <1>1, <1>4, GotoExpire DEF RestoreSale, Statements
  <2>2. UNCHANGED reservations /\ UNCHANGED clock
    BY <2>0 DEF tables
  <2>3. /\ DOMAIN held' = Sessions /\ \A t \in Sessions \ {self} : held'[t] = held[t]
        /\ \A table, i : Owns(self, table, i) => Owns(self, table, i)'
        /\ Owns(self, "flash_sales", sale(x.current))' /\ Exclusive'
    BY <1>0, <1>4, <2>1, <2>2, Acquired DEF RestoreSale
  <2>4. ExpireInv(self, tx[self])'
    BY <1>1, <2>0, <2>1, <2>2, <2>3 DEF ExpireInv, IsDue
  <2>5. TxInv(self, tx[self])'
    BY <2>1, <2>4 DEF TxInv
  <2>. QED
    BY <1>0, <2>0, <2>1, <2>3, <2>5, QuietStep
<1>5. CASE ExpireOrder(self)
  <2> DEFINE left == x.todo \ {x.current}
             next == IF left = {} THEN "commit" ELSE "inventory"
  <2>0. x.at = "order" /\ UNCHANGED <<clock, tables, reply>>
    BY <1>5 DEF ExpireOrder, At
  <2>1. PICK row \in ReservationIDs \cup {NULL} :
          /\ tx' = [tx EXCEPT ![self].at = next, ![self].todo = left, ![self].current = row]
          /\ next = "inventory" => row \in left
    <3>1. CASE left = {}
      BY <1>5, <3>1 DEF ExpireOrder
    <3>2. ASSUME left # {}
          PROVE  \E row \in left :
                   tx' = [tx EXCEPT ![self].at = next, ![self].todo = left,
                                    ![self].current = row]
      BY <1>5, <3>2 DEF ExpireOrder
    <3>3. left \subseteq ReservationIDs
      BY <1>1, ZenonT(30) DEF ExpireTx
    <3>. QED
      BY <3>1, <3>2, <3>3
  <2>2. /\ DOMAIN tx' = Sessions /\ \A t \in Sessions \ {self} : tx'[t] = tx[t]
        /\ tx'[self].at = next /\ tx'[self].now = x.now /\ tx'[self].current = row
        /\ tx'[self].batch = x.batch /\ tx'[self].todo = left
    BY <1>0, <1>1, <2>1 DEF ExpireTx
  <2>3. tx'[self] \in ExpireTx
    <3>1. tx'[self] = [x EXCEPT !.at = next, !.todo = left, !.current = row]
      BY <1>0, <2>1
    <3>2. next \in Statements.expire /\ left \in SUBSET ReservationIDs
      BY <1>1 DEF ExpireTx, Statements
    <3>3. [x EXCEPT !.at = next, !.todo = left, !.current = row] \in ExpireTx
      BY <1>1, <2>1, <3>2, ExpireTxUpdate, Zenon
    <3>. QED
      BY <3>1, <3>3
  <2>4. UNCHANGED reservations /\ UNCHANGED clock
    BY <2>0 DEF tables
  <2>5. /\ DOMAIN held' = Sessions /\ \A t \in Sessions \ {self} : held'[t] = held[t]
        /\ \A table, i : Owns(self, table, i) => Owns(self, table, i)'
        /\ Exclusive'
    BY <1>0, <1>5, Acquired DEF ExpireOrder
  <2>6. ExpireInv(self, tx[self])'
    <3>1. /\ next = "inventory" => row \in left
          /\ next \in {"inventory", "commit"} /\ (next = "commit" => left = {})
      BY <2>1
    <3>2. \A r \in x.batch \ left :
            Owns(self, "inventory", prod(r))' /\ Owns(self, "flash_sales", sale(r))'
      BY <1>1, <2>0, <2>4, <2>5 DEF ExpireInv
    <3>3. \A r \in x.batch : Owns(self, "reservations", r)' /\ IsDue(r, x.now)
      BY <1>1, <2>0, <2>4, <2>5 DEF ExpireInv
    <3>4. /\ x.now <= clock' /\ left \subseteq x.batch
          /\ x.batch \subseteq DOMAIN reservations'
      BY <1>1, <2>0, <2>4 DEF ExpireInv
    <3>. HIDE DEF x, left, next, sale, prod
    <3>. QED
      BY <2>2, <2>4, <3>1, <3>2, <3>3, <3>4 DEF ExpireInv, IsDue, sale, prod
  <2>7. TxInv(self, tx[self])'
    BY <2>3, <2>6 DEF TxInv
  <2>. QED
    BY <1>0, <2>0, <2>2, <2>5, <2>7, QuietStep
<1>6. CASE CommitExpire(self)
  <2>1. \A t \in Sessions \ {self} : Rely(t)
    BY <1>6, CommitExpireRely
  <2>. QED
    BY <1>6, <2>1, FinishStep DEF CommitExpire
<1>. QED
  BY <1>2, <1>3, <1>4, <1>5, <1>6 DEF ExpireStep

\* A committed batch is Expire of its rows, all of them due and still pending.
LEMMA ExpireSimulates ==
  ASSUME SessionsInv, TablesTypeOK, NEW self \in Sessions, ExpireStep(self)
  PROVE  Ledger!Next \/ UNCHANGED <<clock, tables>>
<1> DEFINE x == tx[self]
           S == x.batch
<1>1. CASE CommitExpire(self)
  <2>1. x \in ExpireTx /\ ExpireInv(self, x) /\ x.at = "commit"
    BY <1>1, TxOf DEF CommitExpire, At
  <2>2. /\ S \subseteq DOMAIN reservations
        /\ x.now \in Nat /\ x.now <= clock /\ clock \in Nat
        /\ \A r \in S : IsDue(r, x.now)
    BY <2>1 DEF ExpireInv, ExpireTx, TablesTypeOK
  <2>3. \A r \in S : reservations[r].expires_at \in Nat
    BY <2>2 DEF TablesTypeOK, IsTable, ReservationRow
  <2>4. \A r \in S : reservations[r].state = "pending" /\ reservations[r].expires_at <= clock
    BY <2>2, <2>3 DEF IsDue
  <2>5. Ledger!Release(S, "expired")
    BY <1>1, <2>2, SameSum, SameEvent
    DEF CommitExpire, BatchOfProduct, BatchOfSale, Ledger!Release
  <2>6. Ledger!Expire(S)
    BY <2>4, <2>5 DEF Ledger!Expire
  <2>. QED
    BY <2>2, <2>6 DEF Ledger!Next
<1>. QED
  BY <1>1 DEF ExpireStep, SelectBatch, RestoreInventory, RestoreSale, ExpireOrder

-----------------------------------------------------------------------------
(***************************************************************************)
(* SimulatePayment.                                                        *)
(***************************************************************************)
\* A payment writes its own key; a successful one also rows it owns.
LEMMA CommitPaymentRely ==
  ASSUME SessionsInv, TablesTypeOK, NEW self \in Sessions, CommitPayment(self),
         NEW t \in Sessions \ {self}
  PROVE  Rely(t)
<1> DEFINE x == tx[self]
           o == x.request.order_id
           s == reservations[o].sale_id
           paid == x.request.outcome = "successful"
<1>0. Exclusive /\ x \in PaymentTx /\ PaymentInv(self, x) /\ x.at = "commit"
  BY TxOf DEF SessionsInv, CommitPayment, At
<1>1. /\ o \in DOMAIN reservations
      /\ paid => reservations[o].state = "confirmed"
      /\ ~ Owns(t, "payments", x.key)
      /\ ~ Owns(t, "reservations", o)
      /\ paid => ~ Owns(t, "inventory", ProductOf[s])
  BY <1>0, OwnerUnique DEF PaymentInv, SettledFrom, TablesTypeOK
<1>2. reservations' = IF paid THEN [reservations EXCEPT ![o].state = "paid"] ELSE reservations
  BY DEF CommitPayment
<1>3. /\ DOMAIN payments' = DOMAIN payments \cup {x.key}
      /\ DOMAIN orders' = DOMAIN orders
      /\ UNCHANGED <<clock, flash_sales, idempotency_keys>>
  BY DEF CommitPayment, Insert
<1>4. \A p \in DOMAIN inventory : Owns(t, "inventory", p) => inventory'[p] = inventory[p]
  BY <1>1 DEF CommitPayment, SoldInventory
<1>5. /\ DOMAIN reservations' = DOMAIN reservations
      /\ \A i \in DOMAIN reservations :
           Owns(t, "reservations", i) => reservations'[i] = reservations[i]
  BY <1>1, <1>2
<1>6. \A r \in DOMAIN reservations :
        /\ reservations'[r].sale_id = reservations[r].sale_id
        /\ reservations'[r].spelling = reservations[r].spelling
        /\ reservations'[r].user_id = reservations[r].user_id
        /\ reservations'[r].quantity = reservations[r].quantity
        /\ reservations'[r].state \in Active => reservations[r].state \in Active
  BY <1>1, <1>2 DEF TablesTypeOK, IsTable, ReservationRow, Active
<1>7. \A i, y, u : Sum(reservations', OfUserAs(reservations', i, y, u, Active))
                  <= Sum(reservations, OfUserAs(reservations, i, y, u, Active))
  BY <1>5, <1>6, UnitsShrink
<1>8. clock \in Nat
  BY DEF TablesTypeOK
<1>. QED
  BY <1>1, <1>3, <1>4, <1>5, <1>7, <1>8 DEF Rely, Grows

\* Every statement of SimulatePayment keeps the sessions' invariant.
LEMMA PaymentSessions ==
  ASSUME SessionsInv, TablesTypeOK, TablesTypeOK', NEW self \in Sessions, PaymentStep(self)
  PROVE  SessionsInv'
<1> DEFINE x == tx[self]
           o == x.request.order_id
           outcome == x.request.outcome
<1>0. /\ DOMAIN tx = Sessions /\ DOMAIN held = Sessions /\ DOMAIN reply = Sessions
      /\ Exclusive
  BY DEF SessionsInv
<1>1. x \in PaymentTx /\ PaymentInv(self, x)
  BY TxOf DEF PaymentStep, InsertPayment, ReplayPayment, CheckForeignKey, LockOrder,
              LockReservation, SellInventory, CommitPayment, At
<1>2. ASSUME NEW answer, Finish(self, answer), UNCHANGED <<clock, tables>>
      PROVE  SessionsInv'
  <2>1. \A t \in Sessions : Rely(t)
    BY <1>2, RelyQuiet
  <2>. QED
    BY <1>2, <2>1, FinishStep
<1>3. ASSUME NEW a \in Statements.payment, Goto(self, a), UNCHANGED <<clock, tables, reply>>,
             NEW table, NEW id, NEW mode, Acquire(self, table, id, mode),
             PaymentInv(self, tx[self])'
      PROVE  SessionsInv'
  <2>1. /\ DOMAIN tx' = Sessions /\ \A t \in Sessions \ {self} : tx'[t] = tx[t]
        /\ tx'[self] \in PaymentTx
    BY <1>0, <1>1, <1>3, GotoPayment
  <2>2. /\ DOMAIN held' = Sessions /\ \A t \in Sessions \ {self} : held'[t] = held[t]
        /\ Exclusive'
    BY <1>0, <1>3, Acquired
  <2>3. TxInv(self, tx[self])'
    BY <1>3, <2>1 DEF TxInv
  <2>. QED
    BY <1>0, <1>3, <2>1, <2>2, <2>3, QuietStep
<1>4. ASSUME NEW a \in Statements.payment, Goto(self, a)
      PROVE  tx'[self].at = a /\ tx'[self].key = x.key /\ tx'[self].request = x.request
  BY <1>0, <1>1, <1>4, GotoPayment
<1>5. CASE InsertPayment(self)
  <2>0. x.at = "insert" /\ UNCHANGED <<clock, tables, reply>> /\ UNCHANGED payments
    BY <1>5 DEF InsertPayment, At, tables
  <2>1. CASE x.key \in DOMAIN payments /\ Goto(self, "replay") /\ UNCHANGED held
    <3>1. /\ DOMAIN tx' = Sessions /\ \A t \in Sessions \ {self} : tx'[t] = tx[t]
          /\ tx'[self] \in PaymentTx /\ tx'[self].at = "replay" /\ tx'[self].key = x.key
      BY <1>0, <1>1, <2>1, GotoPayment DEF Statements
    <3>2. PaymentInv(self, tx[self])'
      BY <2>0, <2>1, <3>1 DEF PaymentInv
    <3>3. TxInv(self, tx[self])'
      BY <3>1, <3>2 DEF TxInv
    <3>4. Exclusive'
      BY <1>0, <2>1 DEF Exclusive, Free
    <3>. QED
      BY <1>0, <2>0, <2>1, <3>1, <3>3, <3>4, QuietStep
  <2>2. CASE /\ x.key \notin DOMAIN payments
             /\ Acquire(self, "payments", x.key, "update") /\ Goto(self, "foreign key")
    <3>1. tx'[self].at = "foreign key" /\ tx'[self].key = x.key
      BY <1>4, <2>2 DEF Statements
    <3>2. Owns(self, "payments", x.key)'
      BY <1>0, <2>2, <3>1, Acquired
    <3>3. PaymentInv(self, tx[self])'
      BY <2>0, <2>2, <3>1, <3>2 DEF PaymentInv
    <3>. QED
      BY <1>3, <2>0, <2>2, <3>3 DEF Statements
  <2>. QED
    BY <1>5, <2>1, <2>2 DEF InsertPayment
<1>6. CASE ReplayPayment(self)
  BY <1>2, <1>6 DEF ReplayPayment
<1>7. CASE CheckForeignKey(self)
  <2>0. x.at = "foreign key" /\ UNCHANGED <<clock, tables>> /\ UNCHANGED <<payments, orders>>
    BY <1>7 DEF CheckForeignKey, At, tables
  <2>1. CASE FailPayment(self, "INTERNAL_ERROR")
    BY <1>2, <2>0, <2>1 DEF FailPayment
  <2>2. CASE /\ o \in DOMAIN orders /\ Acquire(self, "orders", o, "key share")
             /\ Goto(self, "lock order") /\ UNCHANGED reply
    <3>1. /\ tx'[self].at = "lock order" /\ tx'[self].key = x.key
          /\ tx'[self].request = x.request
      BY <1>4, <2>2 DEF Statements
    <3>2. \A table, i : Owns(self, table, i) => Owns(self, table, i)'
      BY <1>0, <2>2, Acquired
    <3>3. PaymentInv(self, tx[self])'
      BY <1>1, <2>0, <2>2, <3>1, <3>2 DEF PaymentInv
    <3>. QED
      BY <1>3, <2>0, <2>2, <3>3 DEF Statements
  <2>. QED
    BY <1>7, <2>1, <2>2 DEF CheckForeignKey
<1>8. CASE LockOrder(self)
  <2>0. /\ x.at = "lock order" /\ UNCHANGED <<clock, tables, reply>>
        /\ UNCHANGED <<payments, orders>>
    BY <1>8 DEF LockOrder, At, tables
  <2>1. Acquire(self, "orders", o, "update") /\ Goto(self, "lock reservation")
    BY <1>8 DEF LockOrder
  <2>2. /\ tx'[self].at = "lock reservation" /\ tx'[self].key = x.key
        /\ tx'[self].request = x.request
    BY <1>4, <2>1 DEF Statements
  <2>3. \A table, i : Owns(self, table, i) => Owns(self, table, i)'
    BY <1>0, <2>1, Acquired
  <2>4. PaymentInv(self, tx[self])'
    BY <1>1, <2>0, <2>2, <2>3 DEF PaymentInv
  <2>. QED
    BY <1>3, <2>0, <2>1, <2>4 DEF Statements
<1>9. CASE LockReservation(self)
  <2> DEFINE next == IF outcome = "successful" THEN "inventory" ELSE "commit"
  <2>0. /\ x.at = "lock reservation" /\ UNCHANGED <<clock, tables>>
        /\ UNCHANGED <<payments, orders, reservations>>
    BY <1>9 DEF LockReservation, At, tables
  <2>1. CASE FailPayment(self, "INVALID_STATE_TRANSITION")
    BY <1>2, <2>0, <2>1 DEF FailPayment
  <2>2. CASE /\ reservations[o].state \in SettledFrom(outcome)
             /\ Acquire(self, "reservations", o, "update")
             /\ Goto(self, next) /\ UNCHANGED reply
    <3>1. /\ next \in Statements.payment
          /\ tx'[self].at = next /\ tx'[self].key = x.key /\ tx'[self].request = x.request
      BY <1>4, <2>2 DEF Statements
    <3>2. /\ \A table, i : Owns(self, table, i) => Owns(self, table, i)'
          /\ Owns(self, "reservations", o)'
      BY <1>0, <2>2, <3>1, Acquired
    <3>3. (reservations[x.request.order_id].state \in SettledFrom(x.request.outcome))'
      BY <2>0, <2>2, <3>1 DEF SettledFrom
    <3>4. PaymentInv(self, tx[self])'
      BY <1>1, <2>0, <3>1, <3>2, <3>3 DEF PaymentInv
    <3>. QED
      BY <1>3, <2>0, <2>2, <3>1, <3>4
  <2>. QED
    BY <1>9, <2>1, <2>2 DEF LockReservation
<1>10. CASE SellInventory(self)
  <2>0. /\ x.at = "inventory" /\ UNCHANGED <<clock, tables, reply>>
        /\ UNCHANGED <<payments, orders, reservations>>
    BY <1>10 DEF SellInventory, At, tables
  <2>1. /\ Acquire(self, "inventory", ProductOf[reservations[o].sale_id], "no key update")
        /\ Goto(self, "commit")
    BY <1>10 DEF SellInventory
  <2>2. /\ tx'[self].at = "commit" /\ tx'[self].key = x.key /\ tx'[self].request = x.request
    BY <1>4, <2>1 DEF Statements
  <2>3. /\ \A table, i : Owns(self, table, i) => Owns(self, table, i)'
        /\ Owns(self, "inventory", ProductOf[reservations[o].sale_id])'
    BY <1>0, <2>0, <2>1, <2>2, Acquired
  <2>4. (reservations[x.request.order_id].state \in SettledFrom(x.request.outcome))'
    BY <1>1, <2>0, <2>2 DEF PaymentInv, SettledFrom
  <2>5. PaymentInv(self, tx[self])'
    BY <1>1, <2>0, <2>2, <2>3, <2>4 DEF PaymentInv
  <2>. QED
    BY <1>3, <2>0, <2>1, <2>5 DEF Statements
<1>11. CASE CommitPayment(self)
  <2>1. \A t \in Sessions \ {self} : Rely(t)
    BY <1>11, CommitPaymentRely
  <2>. QED
    BY <1>11, <2>1, FinishStep DEF CommitPayment
<1>. QED
  BY <1>5, <1>6, <1>7, <1>8, <1>9, <1>10, <1>11 DEF PaymentStep

(***************************************************************************)
(* A committed payment is Charge, Decline or Delay of an order whose       *)
(* reservation is in a state that allows it.                               *)
(***************************************************************************)
LEMMA PaymentSimulates ==
  ASSUME SessionsInv, TablesInv, NEW self \in Sessions, PaymentStep(self)
  PROVE  Ledger!Next \/ UNCHANGED <<clock, tables>>
<1> DEFINE x == tx[self]
           k == x.key
           o == x.request.order_id
           outcome == x.request.outcome
           row == reservations[o]
<1>0. TablesTypeOK
  BY DEF TablesInv
<1>1. CASE CommitPayment(self)
  <2>1. x \in PaymentTx /\ PaymentInv(self, x) /\ x.at = "commit"
    BY <1>1, TxOf DEF CommitPayment, At
  <2>2. /\ k \in PaymentKeys \ DOMAIN payments
        /\ o \in DOMAIN orders /\ o \in ReservationIDs /\ outcome \in Outcomes
        /\ row.state \in SettledFrom(outcome)
    BY <2>1 DEF PaymentInv, PaymentTx, PaymentRequest
  <2>3. /\ payments' = Insert(payments, k,
             [order_id |-> o, outcome |-> outcome, status |-> StatusOf(outcome)])
        /\ UNCHANGED <<clock, products, flash_sales, idempotency_keys>>
    BY <1>1 DEF CommitPayment
  <2>4. CASE outcome = "successful"
    <3>1. /\ inventory' = SoldInventory(ProductOf[row.sale_id], row.quantity)
          /\ reservations' = [reservations EXCEPT ![o].state = "paid"]
          /\ orders' = [orders EXCEPT ![o] = "paid"]
          /\ Event({o}, "confirmed", "paid")
      BY <1>1, <2>4 DEF CommitPayment
    <3>2. StatusOf(outcome) = "succeeded" /\ row.state = "confirmed"
      BY <2>2, <2>4 DEF StatusOf, SettledFrom
    <3>3. Ledger!RecordPayment(k, o, "successful", "succeeded")
      BY <2>2, <2>3, <2>4, <3>2, SameInsert DEF Ledger!RecordPayment
    <3>4. Ledger!Charge(k, o)
      BY <2>2, <2>3, <3>1, <3>2, <3>3, SameEvent DEF Ledger!Charge, SoldInventory
    <3>. QED
      BY <2>2, <3>4 DEF Ledger!Next
  <2>5. CASE outcome # "successful"
    <3>1. UNCHANGED <<inventory, reservations>> /\ Event({}, "confirmed", "paid")
      BY <1>1, <2>5 DEF CommitPayment
    <3>2. domain_events' = [r \in ReservationIDs |-> domain_events[r]]
      BY <3>1 DEF Event
    <3>3. UNCHANGED domain_events
      BY <3>2 DEF TablesInv
    <3>4. CASE outcome = "failed"
      <4>1. orders' = [orders EXCEPT ![o] = "payment_failed"]
        BY <1>1, <3>4 DEF CommitPayment
      <4>2. StatusOf(outcome) = "failed" /\ row.state \in Ledger!Holding
        BY <2>2, <3>4 DEF StatusOf, SettledFrom, Ledger!Holding
      <4>3. Ledger!RecordPayment(k, o, "failed", "failed")
        BY <2>2, <2>3, <3>4, <4>2, SameInsert DEF Ledger!RecordPayment
      <4>4. Ledger!Decline(k, o)
        BY <2>2, <2>3, <3>1, <3>3, <4>1, <4>2, <4>3 DEF Ledger!Decline
      <4>. QED
        BY <2>2, <4>4 DEF Ledger!Next
    <3>5. CASE outcome = "delayed"
      <4>1. orders' = [orders EXCEPT ![o] = orders[o]]
        BY <1>1, <3>5 DEF CommitPayment
      <4>2. UNCHANGED orders
        BY <1>0, <4>1 DEF TablesTypeOK, IsTable
      <4>3. StatusOf(outcome) = "pending"
        BY <3>5 DEF StatusOf
      <4>4. Ledger!RecordPayment(k, o, "delayed", "pending")
        BY <2>2, <2>3, <3>5, <4>3, SameInsert DEF Ledger!RecordPayment
      <4>5. Ledger!Delay(k, o)
        BY <2>2, <2>3, <3>1, <3>3, <4>2, <4>4 DEF Ledger!Delay
      <4>. QED
        BY <2>2, <4>5 DEF Ledger!Next
    <3>. QED
      BY <2>2, <2>5, <3>4, <3>5 DEF Outcomes
  <2>. QED
    BY <2>4, <2>5
<1>. QED
  BY <1>1 DEF PaymentStep, InsertPayment, ReplayPayment, CheckForeignKey, LockOrder,
              LockReservation, SellInventory

-----------------------------------------------------------------------------
(***************************************************************************)
(* Requests that begin, transactions that end early, the administrator and *)
(* the clock.                                                              *)
(***************************************************************************)
LEMMA BeginSessions ==
  ASSUME SessionsInv, TablesTypeOK, NEW self \in Sessions, Requests(self)
  PROVE  SessionsInv' /\ UNCHANGED <<clock, tables>>
<1> USE StoreAssumption
<1>0. /\ DOMAIN tx = Sessions /\ DOMAIN held = Sessions /\ DOMAIN reply = Sessions
      /\ Exclusive /\ clock \in Nat
  BY DEF SessionsInv, TablesTypeOK
<1>1. ASSUME NEW transaction, Begin(self, transaction),
             \/ transaction \in ReserveTx /\ transaction.at = "claim"
             \/ transaction \in TransitionTx /\ transaction.at = "lock" /\ ~ transaction.restored
             \/ /\ transaction \in ExpireTx /\ transaction.at = "select"
                /\ transaction.now = clock
             \/ transaction \in PaymentTx /\ transaction.at = "insert"
      PROVE  SessionsInv' /\ UNCHANGED <<clock, tables>>
  <2>1. /\ DOMAIN tx' = Sessions /\ \A t \in Sessions \ {self} : tx'[t] = tx[t]
        /\ tx'[self] = transaction /\ DOMAIN reply' = Sessions /\ held' = held
        /\ UNCHANGED <<clock, tables>> /\ clock' = clock
    BY <1>0, <1>1 DEF Begin
  <2>2. clock <= clock
    BY <1>0
  <2>3. TxInv(self, tx[self])'
    <3>1. CASE transaction \in ReserveTx /\ transaction.at = "claim"
      BY <2>1, <3>1 DEF TxInv, ReserveInv
    <3>2. CASE transaction \in TransitionTx /\ transaction.at = "lock" /\ ~ transaction.restored
      BY <2>1, <3>2 DEF TxInv, TransitionInv
    <3>3. CASE /\ transaction \in ExpireTx /\ transaction.at = "select"
               /\ transaction.now = clock
      BY <2>1, <2>2, <3>3 DEF TxInv, ExpireInv
    <3>4. CASE transaction \in PaymentTx /\ transaction.at = "insert"
      BY <2>1, <3>4 DEF TxInv, PaymentInv
    <3>. QED
      BY <1>1, <3>1, <3>2, <3>3, <3>4
  <2>4. Exclusive'
    BY <1>0, <2>1 DEF Exclusive, Free
  <2>. QED
    BY <1>0, <2>1, <2>3, <2>4, QuietStep
<1>2. ASSUME NEW k \in Keys, NEW req \in ReserveRequests, BeginReserve(self, k, req)
      PROVE  SessionsInv' /\ UNCHANGED <<clock, tables>>
  <2> DEFINE new == [op |-> "reserve", at |-> "claim", key |-> k, request |-> req, now |-> 0]
  <2>1. new \in ReserveTx /\ new.at = "claim"
    BY DEF ReserveTx, Statements
  <2>2. Begin(self, new)
    BY <1>2 DEF BeginReserve
  <2> HIDE DEF new
  <2>. QED
    BY <1>1, <2>1, <2>2, ZenonT(60)
<1>3. ASSUME NEW id \in ReservationIDs, NEW target \in TransitionTargets,
             BeginTransition(self, id, target)
      PROVE  SessionsInv' /\ UNCHANGED <<clock, tables>>
  <2> DEFINE new == [op |-> "transition", at |-> "lock", id |-> id, target |-> target,
                     current |-> "", restored |-> FALSE]
  <2>1. new \in TransitionTx /\ new.at = "lock" /\ ~ new.restored
    BY DEF TransitionTx, Statements
  <2>2. Begin(self, new)
    BY <1>3 DEF BeginTransition
  <2> HIDE DEF new
  <2>. QED
    BY <1>1, <2>1, <2>2, ZenonT(60)
<1>4. ASSUME NEW limit \in BatchSizes, BeginExpire(self, limit)
      PROVE  SessionsInv' /\ UNCHANGED <<clock, tables>>
  <2> DEFINE new == [op |-> "expire", at |-> "select", limit |-> limit, now |-> clock,
                     batch |-> {}, todo |-> {}, current |-> NULL]
  <2>1. new \in ExpireTx /\ new.at = "select" /\ new.now = clock
    <3> DEFINE N == 1..1000
    <3>1. limit \in N /\ "select" \in Statements.expire
      BY DEF Statements
    <3> HIDE DEF N
    <3>. QED
      BY <1>0, <3>1 DEF ExpireTx, N
  <2>2. Begin(self, new)
    BY <1>4 DEF BeginExpire
  <2> HIDE DEF new
  <2>. QED
    BY <1>1, <2>1, <2>2, ZenonT(60)
<1>5. ASSUME NEW k \in PaymentKeys, NEW id \in ReservationIDs, NEW outcome \in PaymentOutcomes,
             BeginPayment(self, k, [order_id |-> id, outcome |-> outcome])
      PROVE  SessionsInv' /\ UNCHANGED <<clock, tables>>
  <2> DEFINE new == [op |-> "payment", at |-> "insert", key |-> k,
                     request |-> [order_id |-> id, outcome |-> outcome]]
  <2>1. new \in PaymentTx /\ new.at = "insert"
    BY DEF PaymentTx, PaymentRequest, Statements
  <2>2. Begin(self, new)
    BY <1>5 DEF BeginPayment
  <2> HIDE DEF new
  <2>. QED
    BY <1>1, <2>1, <2>2, ZenonT(60)
<1>6. CASE \E k \in Keys, req \in ReserveRequests : BeginReserve(self, k, req)
  BY <1>2, <1>6, ZenonT(60)
<1>7. CASE \E id \in ReservationIDs, target \in TransitionTargets : BeginTransition(self, id, target)
  BY <1>3, <1>7, ZenonT(60)
<1>8. CASE \E limit \in BatchSizes : BeginExpire(self, limit)
  BY <1>4, <1>8, ZenonT(60)
<1>9. CASE \E k \in PaymentKeys, id \in ReservationIDs, outcome \in PaymentOutcomes :
             BeginPayment(self, k, [order_id |-> id, outcome |-> outcome])
  BY <1>5, <1>9, ZenonT(60)
<1>. QED
  BY <1>6, <1>7, <1>8, <1>9, Zenon DEF Requests

LEMMA AbortSessions ==
  ASSUME SessionsInv, TablesTypeOK, NEW self \in Sessions, Abort(self)
  PROVE  SessionsInv' /\ UNCHANGED <<clock, tables>>
<1>1. UNCHANGED <<clock, tables>> /\ Finish(self, InternalError)
  BY DEF Abort
<1>2. TablesTypeOK'
  BY <1>1 DEF tables, TablesTypeOK
<1>3. \A t \in Sessions : Rely(t)
  BY <1>1, RelyQuiet
<1>. QED
  BY <1>1, <1>2, <1>3, FinishStep

\* Nobody moves: what every session relies on is all that is owed.
LEMMA SessionsStay ==
  ASSUME SessionsInv, TablesTypeOK, TablesTypeOK', UNCHANGED sessions,
         \A t \in Sessions : Rely(t)
  PROVE  SessionsInv'
<1>1. UNCHANGED <<tx, held, reply>>
  BY DEF sessions
<1>2. ASSUME NEW t \in Sessions PROVE TxInv(t, tx[t])'
  <2>1. TxInv(t, tx[t])
    BY DEF SessionsInv
  <2>. QED
    BY <1>1, <2>1, StableTx
<1>3. Exclusive'
  BY <1>1 DEF SessionsInv, Exclusive, Free
<1>. QED
  BY <1>1, <1>2, <1>3 DEF SessionsInv

\* A row nobody has locked is nobody's to rely on.
LEMMA UnlockedUnowned ==
  ASSUME NEW table, NEW id, Unlocked(table, id), NEW t \in Sessions
  PROVE  ~ Owns(t, table, id)
<1>. SUFFICES ASSUME NEW m \in {"update", "no key update"}, <<table, id, m>> \in held[t]
              PROVE  FALSE
  BY DEF Owns
<1>1. <<table, id, m>>[1] = table /\ <<table, id, m>>[2] = id /\ <<table, id, m>>[3] = m
  OBVIOUS
<1>2. Compatible(m, "no key update")
  BY <1>1 DEF Unlocked
<1>. QED
  BY <1>2 DEF Compatible

LEMMA AdministratorRely ==
  ASSUME TablesTypeOK, NEW t \in Sessions, Administrator
  PROVE  Rely(t)
<1>0. /\ clock \in Nat /\ UNCHANGED <<clock, reservations, orders, payments, idempotency_keys>>
  BY DEF TablesTypeOK, Administrator, CreateProduct, UpdateProduct, UpdateProductInventory,
         CreateSale, SetSaleState
<1>1. \A s, y, u : Sum(reservations', OfUserAs(reservations', s, y, u, Active))
                  <= Sum(reservations, OfUserAs(reservations, s, y, u, Active))
  BY <1>0, UserUnits DEF TablesTypeOK, IsTable
<1>2. ASSUME Grows(flash_sales, flash_sales'),
             \A s \in DOMAIN flash_sales :
               Owns(t, "flash_sales", s) => flash_sales'[s] = flash_sales[s],
             \A p \in DOMAIN inventory :
               Owns(t, "inventory", p) => inventory'[p] = inventory[p]
      PROVE  Rely(t)
  BY <1>0, <1>1, <1>2 DEF Rely, Grows
<1>3. ASSUME NEW p \in Products, NEW active \in ActiveFlags, CreateProduct(p, active)
      PROVE  Rely(t)
  <2>1. \A i \in DOMAIN inventory : inventory'[i] = inventory[i]
    BY <1>3 DEF CreateProduct, Insert, TablesTypeOK
  <2>2. flash_sales' = flash_sales
    BY <1>3 DEF CreateProduct
  <2>. QED
    BY <1>2, <2>1, <2>2 DEF Grows
<1>4. ASSUME NEW p \in Products, NEW active \in ActiveFlags, UpdateProduct(p, active)
      PROVE  Rely(t)
  <2>1. flash_sales' = flash_sales /\ inventory' = inventory
    BY <1>4 DEF UpdateProduct
  <2>. QED
    BY <1>2, <2>1 DEF Grows
<1>5. ASSUME NEW p \in Products, NEW active \in ActiveFlags, NEW n \in StockLevels,
             UpdateProductInventory(p, active, n)
      PROVE  Rely(t)
  <2>1. ~ Owns(t, "inventory", p)
    BY <1>5, UnlockedUnowned DEF UpdateProductInventory
  <2>2. \A i \in DOMAIN inventory \ {p} : inventory'[i] = inventory[i]
    BY <1>5 DEF UpdateProductInventory
  <2>3. flash_sales' = flash_sales
    BY <1>5 DEF UpdateProductInventory
  <2>. QED
    BY <1>2, <2>1, <2>2, <2>3 DEF Grows
<1>6. ASSUME NEW s \in Sales, CreateSale(s)
      PROVE  Rely(t)
  <2>1. /\ DOMAIN flash_sales \subseteq DOMAIN flash_sales'
        /\ \A i \in DOMAIN flash_sales : flash_sales'[i] = flash_sales[i]
    BY <1>6 DEF CreateSale, Insert
  <2>2. inventory' = inventory
    BY <1>6 DEF CreateSale
  <2>. QED
    BY <1>2, <2>1, <2>2 DEF Grows
<1>7. ASSUME NEW s \in Sales, NEW state \in AdminSaleStates, SetSaleState(s, state)
      PROVE  Rely(t)
  <2>1. ~ Owns(t, "flash_sales", s)
    BY <1>7, UnlockedUnowned DEF SetSaleState
  <2>2. /\ DOMAIN flash_sales' = DOMAIN flash_sales
        /\ \A i \in DOMAIN flash_sales \ {s} : flash_sales'[i] = flash_sales[i]
    BY <1>7 DEF SetSaleState
  <2>3. inventory' = inventory
    BY <1>7 DEF SetSaleState
  <2>. QED
    BY <1>2, <2>1, <2>2, <2>3 DEF Grows
<1>. QED
  BY <1>3, <1>4, <1>5, <1>6, <1>7 DEF Administrator

LEMMA AdministratorSimulates ==
  ASSUME TablesTypeOK, Administrator
  PROVE  Ledger!Next
<1> USE StoreAssumption
<1>1. ASSUME NEW p \in Products, NEW active \in ActiveFlags, CreateProduct(p, active)
      PROVE  Ledger!Next
  <2>1. Ledger!CreateProduct(p, active)
    BY <1>1, SameInsert DEF CreateProduct, Ledger!CreateProduct
  <2>. QED
    BY <2>1 DEF Ledger!Next
<1>2. ASSUME NEW p \in Products, NEW active \in ActiveFlags, UpdateProduct(p, active)
      PROVE  Ledger!Next
  <2>1. Ledger!UpdateProduct(p, active)
    BY <1>2 DEF UpdateProduct, Ledger!UpdateProduct
  <2>. QED
    BY <2>1 DEF Ledger!Next
<1>3. ASSUME NEW p \in Products, NEW active \in ActiveFlags, NEW n \in StockLevels,
             UpdateProductInventory(p, active, n)
      PROVE  Ledger!Next
  <2>1. p \in DOMAIN inventory
    BY <1>3 DEF UpdateProductInventory, TablesTypeOK
  <2>2. inventory' = [inventory EXCEPT ![p].available = n,
                        ![p].expected_total = n + inventory[p].reserved + inventory[p].sold]
    BY <1>3, <2>1, ZenonT(30) DEF UpdateProductInventory, Recounted
  <2>3. Ledger!UpdateInventory(p, active, n)
    BY <1>3, <2>2 DEF UpdateProductInventory, Ledger!UpdateInventory
  <2>. QED
    BY <2>3 DEF Ledger!Next
<1>4. ASSUME NEW s \in Sales, CreateSale(s)
      PROVE  Ledger!Next
  <2> DEFINE state == IF StartsAt[s] > clock THEN "scheduled" ELSE "draft"
  <2>1. state \in {"draft", "scheduled"}
    OBVIOUS
  <2>2. flash_sales' = Insert(flash_sales, s, [state |-> state, remaining_stock |-> Allocated[s]])
    BY <1>4 DEF CreateSale
  <2> HIDE DEF state
  <2>3. Ledger!CreateSale(s)
    BY <1>4, <2>1, <2>2, SameInsert DEF CreateSale, Ledger!CreateSale
  <2>. QED
    BY <2>3 DEF Ledger!Next
<1>5. ASSUME NEW s \in Sales, NEW state \in AdminSaleStates, SetSaleState(s, state)
      PROVE  Ledger!Next
  <2>1. Ledger!SetSaleState(s, state)
    BY <1>5 DEF SetSaleState, Ledger!SetSaleState
  <2>. QED
    BY <2>1 DEF Ledger!Next
<1>. QED
  BY <1>1, <1>2, <1>3, <1>4, <1>5 DEF Administrator

LEMMA TickRely ==
  ASSUME TablesTypeOK, Tick, NEW t
  PROVE  Rely(t)
<1>1. clock \in Nat /\ clock' = clock + 1 /\ clock <= clock'
  BY DEF TablesTypeOK, Tick
<1>2. UNCHANGED <<products, inventory, flash_sales, reservations, orders, payments,
                  idempotency_keys>>
  BY DEF Tick, tables
<1>3. \A s, y, u : Sum(reservations', OfUserAs(reservations', s, y, u, Active))
                  <= Sum(reservations, OfUserAs(reservations, s, y, u, Active))
  BY <1>2, UserUnits DEF TablesTypeOK, IsTable
<1>. QED
  BY <1>1, <1>2, <1>3 DEF Rely, Grows

-----------------------------------------------------------------------------
(***************************************************************************)
(* Every step of the store is a step of the ledger, or none: the writes of *)
(* a transaction reach the tables at its COMMIT, as one ledger action.     *)
(***************************************************************************)
LEMMA StepSimulates ==
  ASSUME TablesInv, SessionsInv, [Next]_vars
  PROVE  Ledger!Next \/ UNCHANGED <<clock, tables>>
<1>0. TablesTypeOK
  BY DEF TablesInv
<1>1. CASE UNCHANGED vars
  BY <1>1 DEF vars
<1>2. CASE Tick
  <2>1. Ledger!Tick
    BY <1>2 DEF Tick, Ledger!Tick, tables, Ledger!tables
  <2>. QED
    BY <2>1 DEF Ledger!Next
<1>3. CASE Administrator
  BY <1>0, <1>3, AdministratorSimulates
<1>4. ASSUME NEW self \in Sessions, Requests(self) \/ Abort(self)
      PROVE  UNCHANGED <<clock, tables>>
  BY <1>0, <1>4, BeginSessions, AbortSessions
<1>5. ASSUME NEW self \in Sessions, Step(self)
      PROVE  Ledger!Next \/ UNCHANGED <<clock, tables>>
  BY <1>0, <1>5, ReserveSimulates, TransitionSimulates, ExpireSimulates, PaymentSimulates
  DEF Step
<1>. QED
  BY <1>1, <1>2, <1>3, <1>4, <1>5 DEF Next

\* The audit log keeps its shape, and no stored answer or payment is touched.
LEMMA StepKeeps ==
  ASSUME domain_events = [r \in ReservationIDs |-> domain_events[r]],
         Ledger!Next \/ UNCHANGED <<clock, tables>>
  PROVE  /\ (domain_events = [r \in ReservationIDs |-> domain_events[r]])'
         /\ KeysKept
         /\ \A k \in DOMAIN payments : k \in DOMAIN payments' /\ payments'[k] = payments[k]
<1> DEFINE Appends ==
             /\ \/ UNCHANGED domain_events
                \/ \E S, previous, next : Event(S, previous, next)
             /\ \/ UNCHANGED idempotency_keys
                \/ \E k \in Keys \ DOMAIN idempotency_keys :
                     \E row : idempotency_keys' = Insert(idempotency_keys, k, row)
             /\ \/ UNCHANGED payments
                \/ \E k \in PaymentKeys \ DOMAIN payments :
                     \E row : payments' = Insert(payments, k, row)
<1>1. Appends
  <2>1. CASE UNCHANGED <<clock, tables>>
    BY <2>1 DEF tables
  <2>2. CASE Ledger!Tick
    BY <2>2 DEF Ledger!Tick, Ledger!tables
  <2>3. ASSUME NEW p, NEW active,
               \/ Ledger!CreateProduct(p, active)
               \/ Ledger!UpdateProduct(p, active)
               \/ \E n \in StockLevels : Ledger!UpdateInventory(p, active, n)
        PROVE  UNCHANGED <<domain_events, idempotency_keys, payments>>
    BY <2>3 DEF Ledger!CreateProduct, Ledger!UpdateProduct, Ledger!UpdateInventory
  <2>4. ASSUME NEW s,
               \/ Ledger!CreateSale(s)
               \/ \E state \in {"active", "ended", "cancelled"} : Ledger!SetSaleState(s, state)
        PROVE  UNCHANGED <<domain_events, idempotency_keys, payments>>
    BY <2>4 DEF Ledger!CreateSale, Ledger!SetSaleState
  <2>5. ASSUME NEW k \in Keys, NEW req, NEW r, Ledger!Grant(k, req, r)
        PROVE  Appends
    <3>1. /\ Event({r}, NULL, "pending") /\ UNCHANGED payments
          /\ k \in Keys \ DOMAIN idempotency_keys
          /\ idempotency_keys' = Insert(idempotency_keys, k,
               [request |-> req, code |-> "CREATED", resource_id |-> r])
      BY <2>5, SameEvent, SameInsert DEF Ledger!Grant
    <3>. QED
      BY <3>1
  <2>6. ASSUME NEW k \in Keys, NEW req,
               Ledger!RefuseShort(k, req) \/ \E code : Ledger!Refuse(k, req, code)
        PROVE  Appends
    <3>1. /\ UNCHANGED <<domain_events, payments>>
          /\ k \in Keys \ DOMAIN idempotency_keys
          /\ \E row : idempotency_keys' = Insert(idempotency_keys, k, row)
      BY <2>6, SameInsert DEF Ledger!RefuseShort, Ledger!Refuse
    <3>. QED
      BY <3>1
  <2>7. ASSUME NEW r, Ledger!Confirm(r)
        PROVE  Appends
    BY <2>7, SameEvent DEF Ledger!Confirm
  <2>8. ASSUME NEW S, NEW state, Ledger!Release(S, state)
        PROVE  Appends
    BY <2>8, SameEvent DEF Ledger!Release
  <2>9. ASSUME NEW k \in PaymentKeys, NEW r,
               Ledger!Charge(k, r) \/ Ledger!Decline(k, r) \/ Ledger!Delay(k, r)
        PROVE  Appends
    <3>1. /\ UNCHANGED idempotency_keys
          /\ k \in PaymentKeys \ DOMAIN payments
          /\ \E row : payments' = Insert(payments, k, row)
      BY <2>9, SameInsert
      DEF Ledger!Charge, Ledger!Decline, Ledger!Delay, Ledger!RecordPayment
    <3>2. UNCHANGED domain_events \/ Event({r}, "confirmed", "paid")
      BY <2>9, SameEvent DEF Ledger!Charge, Ledger!Decline, Ledger!Delay
    <3>. QED
      BY <3>1, <3>2
  <2>. QED
    BY <2>1, <2>2, <2>3, <2>4, <2>5, <2>6, <2>7, <2>8, <2>9
    DEF Ledger!Next, Ledger!Cancel, Ledger!Expire
<1>2. (domain_events = [r \in ReservationIDs |-> domain_events[r]])'
  BY <1>1 DEF Event
<1>3. KeysKept
  BY <1>1 DEF KeysKept, Insert
<1>4. \A k \in DOMAIN payments : k \in DOMAIN payments' /\ payments'[k] = payments[k]
  BY <1>1 DEF Insert
<1>. QED
  BY <1>2, <1>3, <1>4

\* The ledger's invariant is kept because the ledger's steps keep it.
LEMMA StepTables ==
  ASSUME TablesInv, SessionsInv, [Next]_vars
  PROVE  TablesInv'
<1>1. LT!LedgerInv
  BY SameInv DEF TablesInv
<1>2. /\ LT!TablesTypeOK /\ LT!InventoryReconciled /\ LT!SaleNotOversold
      /\ LT!SpelledLimitHeld
  BY <1>1 DEF LT!LedgerInv
<1>3. [LT!Next]_LT!ledgerVars
  BY StepSimulates, SameNext DEF LT!ledgerVars, LT!tables, tables
<1>4. LT!TablesTypeOK'
  BY <1>2, <1>3, LT!StepType, SchemaAssumption, SameFinite
<1>5. LT!InventoryReconciled'
  BY <1>2, <1>3, LT!StepReconciled, SchemaAssumption, SameFinite
<1>6. LT!SaleNotOversold'
  BY <1>2, <1>3, LT!StepNotOversold, SchemaAssumption, SameFinite
<1>7. LT!SpelledLimitHeld'
  BY <1>2, <1>3, LT!StepLimit, SchemaAssumption, SameFinite
<1>8. LT!OrdersAgree'
  BY <1>1, <1>3, LT!StepOrders, SchemaAssumption, SameFinite
<1>9. LT!ChargedOnce'
  BY <1>1, <1>3, LT!StepCharged, SchemaAssumption, SameFinite
<1>10. LT!KeysAccount'
  BY <1>1, <1>3, LT!StepKeys, SchemaAssumption, SameFinite
<1>11. (LT!LedgerInv <=> /\ TablesTypeOK /\ InventoryReconciled /\ SaleNotOversold
                        /\ SpelledLimitHeld /\ OrdersAgree /\ ChargedOnce /\ KeysAccount)'
  BY SameInv, PTL
<1>12. LT!LedgerInv'
  BY <1>4, <1>5, <1>6, <1>7, <1>8, <1>9, <1>10 DEF LT!LedgerInv
<1>13. (domain_events = [r \in ReservationIDs |-> domain_events[r]])'
  BY StepSimulates, StepKeeps DEF TablesInv
<1>. QED
  BY <1>11, <1>12, <1>13 DEF TablesInv

LEMMA StepSessions ==
  ASSUME TablesInv, SessionsInv, [Next]_vars
  PROVE  SessionsInv'
<1>0. TablesTypeOK /\ InventoryReconciled /\ TablesTypeOK'
  BY StepTables DEF TablesInv
<1>1. CASE UNCHANGED vars
  <2>1. UNCHANGED sessions /\ UNCHANGED <<clock, tables>>
    BY <1>1 DEF vars
  <2>2. \A t \in Sessions : Rely(t)
    BY <1>0, <2>1, RelyQuiet
  <2>. QED
    BY <1>0, <2>1, <2>2, SessionsStay
<1>2. CASE Tick /\ UNCHANGED sessions
  <2>1. \A t \in Sessions : Rely(t)
    BY <1>0, <1>2, TickRely
  <2>. QED
    BY <1>0, <1>2, <2>1, SessionsStay
<1>3. CASE Administrator
  <2>1. \A t \in Sessions : Rely(t)
    BY <1>0, <1>3, AdministratorRely
  <2>2. UNCHANGED sessions
    BY <1>3 DEF Administrator, CreateProduct, UpdateProduct, UpdateProductInventory,
                CreateSale, SetSaleState
  <2>. QED
    BY <1>0, <2>1, <2>2, SessionsStay
<1>4. ASSUME NEW self \in Sessions, Requests(self) \/ Step(self) \/ Abort(self)
      PROVE  SessionsInv'
  BY <1>0, <1>4, BeginSessions, AbortSessions, ReserveSessions, TransitionSessions,
     ExpireSessions, PaymentSessions
  DEF Step
<1>. QED
  BY <1>1, <1>2, <1>3, <1>4 DEF Next

-----------------------------------------------------------------------------
(***************************************************************************)
(* The answers.  A step answers one session; an answer is true when given, *)
(* and the first of its key when it claims to be.                          *)
(***************************************************************************)
TrueAnswer(a) ==
  /\ a.op = "reserve" /\ a.code # "IDEMPOTENCY_CONFLICT" =>
       /\ a.key \in DOMAIN idempotency_keys'
       /\ idempotency_keys'[a.key] =
            [request |-> a.request, code |-> a.code, resource_id |-> a.resource_id]
       /\ a.code = "CREATED" /\ ~ a.duplicate => a.key \notin DOMAIN idempotency_keys
  /\ a.op = "payment" /\ a.code \in PaymentStatuses =>
       /\ a.key \in DOMAIN payments'
       /\ payments'[a.key] = [order_id |-> a.request.order_id, outcome |-> a.request.outcome,
                              status |-> a.code]

LEMMA AnswersStay ==
  ASSUME AnswersDurable, PaymentAnswersDurable, KeysKept,
         \A k \in DOMAIN payments : k \in DOMAIN payments' /\ payments'[k] = payments[k],
         \/ UNCHANGED reply
         \/ \E self \in Sessions :
              /\ \A t \in Sessions \ {self} : reply'[t] = reply[t]
              /\ TrueAnswer(reply'[self])
  PROVE  AnswersDurable' /\ PaymentAnswersDurable'
<1>1. ASSUME UNCHANGED reply
      PROVE  AnswersDurable' /\ PaymentAnswersDurable'
  BY <1>1 DEF AnswersDurable, PaymentAnswersDurable, KeysKept
<1>2. ASSUME NEW self \in Sessions,
             \A t \in Sessions \ {self} : reply'[t] = reply[t],
             TrueAnswer(reply'[self])
      PROVE  AnswersDurable' /\ PaymentAnswersDurable'
  <2>1. ASSUME NEW t \in Sessions, reply'[t].op = "reserve",
               reply'[t].code # "IDEMPOTENCY_CONFLICT"
        PROVE  /\ reply'[t].key \in DOMAIN idempotency_keys'
               /\ idempotency_keys'[reply'[t].key] =
                    [request |-> reply'[t].request, code |-> reply'[t].code,
                     resource_id |-> reply'[t].resource_id]
               /\ t # self => reply'[t].key \in DOMAIN idempotency_keys
    BY <1>2, <2>1 DEF TrueAnswer, AnswersDurable, KeysKept
  <2>2. ASSUME NEW t \in Sessions, reply'[t].op = "reserve", reply'[t].code = "CREATED",
               ~ reply'[t].duplicate,
               NEW u \in Sessions \ {t}, reply'[u].op = "reserve", reply'[u].key = reply'[t].key,
               reply'[u].code = "CREATED", ~ reply'[u].duplicate
        PROVE  FALSE
    <3>1. CASE t = self
      <4>1. reply'[t].key \notin DOMAIN idempotency_keys
        BY <1>2, <2>2, <3>1 DEF TrueAnswer
      <4>2. reply'[u].key \in DOMAIN idempotency_keys
        BY <2>1, <2>2, <3>1
      <4>. QED
        BY <2>2, <4>1, <4>2
    <3>2. CASE u = self
      <4>1. reply'[u].key \notin DOMAIN idempotency_keys
        BY <1>2, <2>2, <3>2 DEF TrueAnswer
      <4>2. reply'[t].key \in DOMAIN idempotency_keys
        BY <2>1, <2>2, <3>2
      <4>. QED
        BY <2>2, <4>1, <4>2
    <3>3. CASE t # self /\ u # self
      <4>1. reply'[t] = reply[t] /\ reply'[u] = reply[u]
        BY <1>2, <3>3
      <4>. QED
        BY <2>2, <4>1 DEF AnswersDurable
    <3>. QED
      BY <3>1, <3>2, <3>3
  <2>3. AnswersDurable'
    BY <2>1, <2>2 DEF AnswersDurable
  <2>4. PaymentAnswersDurable'
    BY <1>2 DEF TrueAnswer, PaymentAnswersDurable
  <2>. QED
    BY <2>3, <2>4
<1>. QED
  BY <1>1, <1>2

\* What Finish answers is what the session's client gets.
LEMMA FinishAnswers ==
  ASSUME DOMAIN reply = Sessions, NEW self \in Sessions, NEW answer,
         Finish(self, answer) \/ reply' = [reply EXCEPT ![self] = answer],
         TrueAnswer(answer)
  PROVE  \E t \in Sessions : /\ \A u \in Sessions \ {t} : reply'[u] = reply[u]
                             /\ TrueAnswer(reply'[t])
<1>1. (\A u \in Sessions \ {self} : reply'[u] = reply[u]) /\ reply'[self] = answer
  BY DEF Finish
<1>. QED
  BY <1>1

\* An error of the infrastructure says nothing about the tables.
LEMMA SilentAnswers ==
  ASSUME NEW a, a.op \notin {"reserve", "payment"} PROVE TrueAnswer(a)
  BY DEF TrueAnswer

LEMMA ReserveAnswers ==
  ASSUME TablesInv, SessionsInv, NEW self \in Sessions, ReserveStep(self)
  PROVE  \/ UNCHANGED reply
         \/ \E t \in Sessions : /\ \A u \in Sessions \ {t} : reply'[u] = reply[u]
                                /\ TrueAnswer(reply'[t])
<1> DEFINE x == tx[self]
           k == x.key
           req == x.request
<1>0. DOMAIN reply = Sessions
  BY DEF SessionsInv
<1>1. x \in ReserveTx /\ ReserveInv(self, x)
  BY TxOf DEF ReserveStep, ClaimKey, ReplayReservation, LockUser, ReadSale, CheckLimit,
              DecrementSale, DecrementInventory, CommitReservation, At
<1>2. CASE ClaimKey(self) \/ LockUser(self)
  BY <1>2 DEF ClaimKey, LockUser
<1>3. CASE ReplayReservation(self)
  <2> DEFINE row == idempotency_keys[k]
             a == ReplayAnswer(k, req)
  <2>1. Finish(self, a) /\ k \in DOMAIN idempotency_keys /\ idempotency_keys' = idempotency_keys
    BY <1>1, <1>3 DEF ReplayReservation, At, ReserveInv, tables
  <2>2. row \in KeyRow /\ row.code # ""
    BY <2>1 DEF TablesInv, TablesTypeOK, IsTable, KeysAccount, Answered
  <2>3. row = [request |-> row.request, code |-> row.code, resource_id |-> row.resource_id]
    BY <2>2 DEF KeyRow
  <2>4. CASE row.request # req
    <3>1. a = Answer(k, req, "IDEMPOTENCY_CONFLICT", NULL, FALSE)
      BY <2>4 DEF ReplayAnswer
    <3>2. TrueAnswer(a)
      BY <3>1 DEF TrueAnswer, Answer
    <3>. QED
      BY <1>0, <2>1, <3>2, FinishAnswers
  <2>5. CASE row.request = req
    <3>1. a = Answer(k, req, row.code, row.resource_id, row.code = "CREATED")
      BY <2>2, <2>5 DEF ReplayAnswer
    <3>2. /\ a.op = "reserve" /\ a.key = k /\ a.request = req /\ a.code = row.code
          /\ a.resource_id = row.resource_id /\ a.duplicate = (row.code = "CREATED")
      BY <3>1 DEF Answer
    <3> HIDE DEF a
    <3>3. TrueAnswer(a)
      BY <2>1, <2>3, <2>5, <3>2 DEF TrueAnswer
    <3>. QED
      BY <1>0, <2>1, <3>3, FinishAnswers
  <2>. QED
    BY <2>4, <2>5
<1>4. ASSUME NEW code, FinishReservationError(self, code), x.at \notin {"claim", "replay"}
      PROVE  \E t \in Sessions : /\ \A u \in Sessions \ {t} : reply'[u] = reply[u]
                                 /\ TrueAnswer(reply'[t])
  <2> DEFINE a == Answer(k, req, code, NULL, FALSE)
  <2>1. /\ Finish(self, a) /\ k \notin DOMAIN idempotency_keys
        /\ idempotency_keys' = Insert(idempotency_keys, k,
             [request |-> req, code |-> code, resource_id |-> NULL])
    BY <1>1, <1>4 DEF FinishReservationError, ReserveInv
  <2>2. /\ a.op = "reserve" /\ a.key = k /\ a.request = req /\ a.code = code
        /\ a.resource_id = NULL
    BY DEF Answer
  <2> HIDE DEF a
  <2>3. TrueAnswer(a)
    BY <2>1, <2>2 DEF TrueAnswer, Insert
  <2>. QED
    BY <1>0, <2>1, <2>3, FinishAnswers
<1>5. CASE ReadSale(self)
  BY <1>4, <1>5 DEF ReadSale, At
<1>6. CASE CheckLimit(self)
  BY <1>4, <1>6 DEF CheckLimit, At
<1>7. CASE DecrementSale(self)
  BY <1>4, <1>7 DEF DecrementSale, At
<1>8. CASE DecrementInventory(self)
  BY <1>4, <1>8 DEF DecrementInventory, At
<1>9. CASE CommitReservation(self)
  <2> DEFINE a == Answer(k, req, "CREATED", NewID, FALSE)
  <2>1. /\ Finish(self, a) /\ k \notin DOMAIN idempotency_keys
        /\ idempotency_keys' = Insert(idempotency_keys, k,
             [request |-> req, code |-> "CREATED", resource_id |-> NewID])
    BY <1>1, <1>9 DEF CommitReservation, At, ReserveInv
  <2>2. /\ a.op = "reserve" /\ a.key = k /\ a.request = req /\ a.code = "CREATED"
        /\ a.resource_id = NewID
    BY DEF Answer
  <2> HIDE DEF a
  <2>3. TrueAnswer(a)
    BY <2>1, <2>2 DEF TrueAnswer, Insert
  <2>. QED
    BY <1>0, <2>1, <2>3, FinishAnswers
<1>. QED
  BY <1>2, <1>3, <1>5, <1>6, <1>7, <1>8, <1>9 DEF ReserveStep

LEMMA PaymentAnswers ==
  ASSUME TablesInv, SessionsInv, NEW self \in Sessions, PaymentStep(self)
  PROVE  \/ UNCHANGED reply
         \/ \E t \in Sessions : /\ \A u \in Sessions \ {t} : reply'[u] = reply[u]
                                /\ TrueAnswer(reply'[t])
<1> DEFINE x == tx[self]
           k == x.key
           req == x.request
<1>0. DOMAIN reply = Sessions
  BY DEF SessionsInv
<1>1. x \in PaymentTx /\ PaymentInv(self, x)
  BY TxOf DEF PaymentStep, InsertPayment, ReplayPayment, CheckForeignKey, LockOrder,
              LockReservation, SellInventory, CommitPayment, At
<1>2. CASE InsertPayment(self) \/ LockOrder(self) \/ SellInventory(self)
  BY <1>2 DEF InsertPayment, LockOrder, SellInventory
<1>3. ASSUME NEW code, code \notin PaymentStatuses, FailPayment(self, code)
      PROVE  \E t \in Sessions : /\ \A u \in Sessions \ {t} : reply'[u] = reply[u]
                                 /\ TrueAnswer(reply'[t])
  <2>1. TrueAnswer(PaymentReply(k, req, code, FALSE))
    BY <1>3 DEF TrueAnswer, PaymentReply
  <2>. QED
    BY <1>0, <1>3, <2>1, FinishAnswers DEF FailPayment
<1>4. CASE CheckForeignKey(self)
  <2>1. "INTERNAL_ERROR" \notin PaymentStatuses
    BY DEF PaymentStatuses
  <2>. QED
    BY <1>3, <1>4, <2>1 DEF CheckForeignKey
<1>5. CASE LockReservation(self)
  <2>1. "INVALID_STATE_TRANSITION" \notin PaymentStatuses
    BY DEF PaymentStatuses
  <2>. QED
    BY <1>3, <1>5, <2>1 DEF LockReservation
<1>6. CASE ReplayPayment(self)
  <2> DEFINE row == payments[k]
             a == PaymentReply(k, req, row.status, TRUE)
             b == PaymentReply(k, req, "IDEMPOTENCY_CONFLICT", FALSE)
             same == req = [order_id |-> row.order_id, outcome |-> row.outcome]
  <2>1. /\ Finish(self, IF same THEN a ELSE b)
        /\ k \in DOMAIN payments /\ payments' = payments
    BY <1>1, <1>6 DEF ReplayPayment, At, PaymentInv, tables
  <2>2. row = [order_id |-> row.order_id, outcome |-> row.outcome, status |-> row.status]
    BY <2>1 DEF TablesInv, TablesTypeOK, IsTable, PaymentRow
  <2>3. CASE same
    <3>1. a.op = "payment" /\ a.key = k /\ a.request = req /\ a.code = row.status
      BY DEF PaymentReply
    <3>2. req.order_id = row.order_id /\ req.outcome = row.outcome
      BY <2>3
    <3>3. Finish(self, a)
      BY <2>1, <2>3
    <3> HIDE DEF a
    <3>4. TrueAnswer(a)
      BY <2>1, <2>2, <3>1, <3>2 DEF TrueAnswer
    <3>. QED
      BY <1>0, <3>3, <3>4, FinishAnswers
  <2>4. CASE ~ same
    <3>1. TrueAnswer(b)
      BY DEF TrueAnswer, PaymentReply, PaymentStatuses
    <3>2. Finish(self, b)
      BY <2>1, <2>4
    <3>. QED
      BY <1>0, <3>1, <3>2, FinishAnswers
  <2>. QED
    BY <2>3, <2>4
<1>7. CASE CommitPayment(self)
  <2> DEFINE status == StatusOf(req.outcome)
             a == PaymentReply(k, req, status, FALSE)
  <2>1. /\ Finish(self, a)
        /\ payments' = Insert(payments, k,
             [order_id |-> req.order_id, outcome |-> req.outcome, status |-> status])
    BY <1>7 DEF CommitPayment
  <2>2. a.op = "payment" /\ a.key = k /\ a.request = req /\ a.code = status
    BY DEF PaymentReply
  <2> HIDE DEF a, status
  <2>3. TrueAnswer(a)
    BY <2>1, <2>2 DEF TrueAnswer, Insert
  <2>. QED
    BY <1>0, <2>1, <2>3, FinishAnswers
<1>. QED
  BY <1>2, <1>4, <1>5, <1>6, <1>7 DEF PaymentStep

LEMMA StepAnswers ==
  ASSUME StoreInv, [Next]_vars
  PROVE  AnswersDurable' /\ PaymentAnswersDurable'
<1>0. TablesInv /\ SessionsInv /\ DOMAIN reply = Sessions
  BY DEF StoreInv, SessionsInv
<1> DEFINE Answers == \E t \in Sessions : /\ \A u \in Sessions \ {t} : reply'[u] = reply[u]
                                          /\ TrueAnswer(reply'[t])
<1>1. CASE UNCHANGED vars \/ (Tick /\ UNCHANGED sessions) \/ Administrator
  <2>1. UNCHANGED reply
    BY <1>1 DEF vars, sessions, Administrator, CreateProduct, UpdateProduct,
                UpdateProductInventory, CreateSale, SetSaleState
  <2>. QED
    BY <1>0, <2>1, StepSimulates, StepKeeps, AnswersStay DEF StoreInv, TablesInv
<1>2. ASSUME NEW self \in Sessions, NEW answer, answer.op \notin {"reserve", "payment"},
             Finish(self, answer) \/ reply' = [reply EXCEPT ![self] = answer]
      PROVE  Answers
  BY <1>0, <1>2, FinishAnswers, SilentAnswers
<1>3. ASSUME NEW self \in Sessions, Requests(self) \/ Step(self) \/ Abort(self)
      PROVE  UNCHANGED reply \/ Answers
  <2>0. InternalError.op \notin {"reserve", "payment"}
    BY DEF InternalError
  <2>1. CASE Requests(self)
    BY <1>2, <2>0, <2>1
    DEF Requests, BeginReserve, BeginTransition, BeginExpire, BeginPayment, Begin
  <2>2. CASE Abort(self)
    BY <1>2, <2>0, <2>2 DEF Abort
  <2>3. CASE TransitionStep(self)
    <3>1. \A code : TransitionReply(code).op \notin {"reserve", "payment"}
      BY DEF TransitionReply
    <3>2. \/ UNCHANGED reply
          \/ \E code : Finish(self, TransitionReply(code))
      BY <2>3 DEF TransitionStep, LockForTransition, UpdateOrder, UpdateInventory, UpdateSale,
                  CommitTransition
    <3>. QED
      BY <1>2, <3>1, <3>2
  <2>4. CASE ExpireStep(self)
    <3>1. \A ids : ExpirationReply(ids).op \notin {"reserve", "payment"}
      BY DEF ExpirationReply
    <3>2. \/ UNCHANGED reply
          \/ \E ids : Finish(self, ExpirationReply(ids))
      BY <2>4 DEF ExpireStep, SelectBatch, RestoreInventory, RestoreSale, ExpireOrder,
                  CommitExpire
    <3>. QED
      BY <1>2, <3>1, <3>2
  <2>5. CASE ReserveStep(self)
    BY <1>0, <2>5, ReserveAnswers
  <2>6. CASE PaymentStep(self)
    BY <1>0, <2>6, PaymentAnswers
  <2>. QED
    BY <1>3, <2>1, <2>2, <2>3, <2>4, <2>5, <2>6 DEF Step
<1>4. ASSUME NEW self \in Sessions, Requests(self) \/ Step(self) \/ Abort(self)
      PROVE  AnswersDurable' /\ PaymentAnswersDurable'
  <2>1. /\ KeysKept
        /\ \A k \in DOMAIN payments : k \in DOMAIN payments' /\ payments'[k] = payments[k]
    BY <1>0, StepSimulates, StepKeeps DEF TablesInv
  <2>2. UNCHANGED reply \/ Answers
    BY <1>3, <1>4
  <2>3. AnswersDurable /\ PaymentAnswersDurable
    BY DEF StoreInv
  <2>. QED
    BY <2>1, <2>2, <2>3, AnswersStay
<1>. QED
  BY <1>1, <1>4 DEF Next

-----------------------------------------------------------------------------
\* The seeded database with no request open satisfies the invariant.
LEMMA InitStoreInv == Init => StoreInv
<1>. SUFFICES ASSUME TablesInit, SessionsInit PROVE StoreInv
  BY DEF Init
<1>1. LT!TablesInit
  BY DEF TablesInit, LT!TablesInit, SeedProducts, LT!SeedProducts, NoRows, LT!NoRows
<1>2. LT!LedgerInv
  BY <1>1, LT!InitLedgerInv, SchemaAssumption, SameFinite
<1>3. TablesInv
  BY <1>2, SameInv DEF TablesInv, TablesInit
<1>4. /\ \A t \in Sessions : tx[t] = Idle /\ held[t] = {} /\ reply[t] = InternalError
      /\ DOMAIN tx = Sessions /\ DOMAIN held = Sessions /\ DOMAIN reply = Sessions
  BY DEF SessionsInit
<1>5. SessionsInv
  BY <1>4 DEF SessionsInv, TxInv, Exclusive, Free
<1>6. AnswersDurable /\ PaymentAnswersDurable
  BY <1>4 DEF AnswersDurable, PaymentAnswersDurable, InternalError
<1>. QED
  BY <1>3, <1>5, <1>6 DEF StoreInv

\* The inductive invariant holds throughout, whatever the interleaving.
THEOREM StoreCorrect == Spec => []StoreInv
<1>1. Init => StoreInv
  BY InitStoreInv
<1>2. StoreInv /\ [Next]_vars => StoreInv'
  BY StepTables, StepSessions, StepAnswers DEF StoreInv
<1>. QED
  BY <1>1, <1>2, PTL DEF Spec

(***************************************************************************)
(* Every open transaction is one of the four operations at one of its      *)
(* statements, a session that is done holds no lock, and no two sessions   *)
(* hold conflicting locks on one row; the tables keep their types.         *)
(***************************************************************************)
THEOREM StoreTypeCorrect == Spec => []TypeOK
<1>1. StoreInv => TypeOK
  <2>. SUFFICES ASSUME StoreInv PROVE TypeOK
    OBVIOUS
  <2>1. TablesTypeOK /\ SessionsInv
    BY DEF StoreInv, TablesInv
  <2>2. ASSUME NEW t \in Sessions
        PROVE  /\ tx[t].op \in DOMAIN Statements
               /\ tx[t].at \in Statements[tx[t].op]
               /\ tx[t] = Idle => held[t] = {}
    <3>0. TxInv(t, tx[t])
      BY <2>1 DEF SessionsInv
    <3>1. \/ tx[t] = Idle /\ held[t] = {}
          \/ tx[t].op = "reserve" /\ tx[t].at \in Statements.reserve
          \/ tx[t].op = "transition" /\ tx[t].at \in Statements.transition
          \/ tx[t].op = "expire" /\ tx[t].at \in Statements.expire
          \/ tx[t].op = "payment" /\ tx[t].at \in Statements.payment
      BY <3>0, ZenonT(30) DEF TxInv, ReserveTx, TransitionTx, ExpireTx, PaymentTx
    <3>2. Idle.op = "none" /\ Idle.at \in Statements.none
      BY DEF Idle, Statements
    <3>3. DOMAIN Statements = {"none", "reserve", "transition", "expire", "payment"}
      BY DEF Statements
    <3>. QED
      BY <3>1, <3>2, <3>3
  <2>3. \A t \in Sessions : \A l \in held[t] : Free(t, l[1], l[2], l[3])
    BY <2>1 DEF SessionsInv, Exclusive
  <2>. QED
    BY <2>1, <2>2, <2>3 DEF TypeOK
<1>. QED
  BY <1>1, StoreCorrect, PTL

(***************************************************************************)
(* What a client was told about its reservation request is what is stored  *)
(* for its key, and at most one request of a key is told it created one.   *)
(***************************************************************************)
THEOREM ReserveAnswersTrue == Spec => []AnswersDurable
<1>1. StoreInv => AnswersDurable
  BY DEF StoreInv
<1>. QED
  BY <1>1, StoreCorrect, PTL

\* The payment status a client was told is the one stored for its key.
THEOREM PaymentAnswersTrue == Spec => []PaymentAnswersDurable
<1>1. StoreInv => PaymentAnswersDurable
  BY DEF StoreInv
<1>. QED
  BY <1>1, StoreCorrect, PTL

(***************************************************************************)
(* The refinement: the statements of any number of transactions, however   *)
(* interleaved and wherever aborted, change the tables as whole            *)
(* transactions would, each acting on the tables as they are at its        *)
(* COMMIT.  READ COMMITTED with the locks the code takes is enough.        *)
(***************************************************************************)
THEOREM StoreImplementsLedger == Spec => ImplementsLedger
<1>1. Init => Ledger!TablesInit
  BY DEF Init, TablesInit, Ledger!TablesInit, SeedProducts, Ledger!SeedProducts, NoRows,
         Ledger!NoRows
<1>2. StoreInv /\ [Next]_vars => [Ledger!Next]_Ledger!ledgerVars
  BY StepSimulates DEF StoreInv, Ledger!ledgerVars, Ledger!tables, tables
<1>. QED
  BY <1>1, <1>2, StoreCorrect, PTL DEF Spec, ImplementsLedger, Ledger!Spec

\* The ledger's specification under the name its theorems go by here.
LEMMA StoreLedger == Spec => LT!Spec
<1>1. Init => LT!TablesInit
  BY DEF Init, TablesInit, LT!TablesInit, SeedProducts, LT!SeedProducts, NoRows, LT!NoRows
<1>2. StoreInv /\ [Next]_vars => [LT!Next]_LT!ledgerVars
  BY StepSimulates, SameNext DEF StoreInv, LT!ledgerVars, LT!tables, tables
<1>. QED
  BY <1>1, <1>2, StoreCorrect, PTL DEF Spec, LT!Spec

(***************************************************************************)
(* The tables' invariants, of the running store: stock is conserved, no    *)
(* sale is oversold, no user exceeds the limit of a sale by requests that  *)
(* write its id alike, or by any if all users do, orders follow their      *)
(* reservations, no order is charged twice, each reservation has its key.  *)
(***************************************************************************)
THEOREM StoreTables ==
  Spec => [](/\ InventoryReconciled /\ SaleNotOversold /\ SpelledLimitHeld
             /\ (WroteOneWay => PurchaseLimitHeld)
             /\ OrdersAgree /\ ChargedOnce /\ KeysAccount)
<1>1. StoreInv => /\ InventoryReconciled /\ SaleNotOversold /\ SpelledLimitHeld
                  /\ OrdersAgree /\ ChargedOnce /\ KeysAccount
  BY DEF StoreInv, TablesInv
<1>2. (LT!WroteOneWay => LT!PurchaseLimitHeld) <=> (WroteOneWay => PurchaseLimitHeld)
  BY SameUser, SameSum DEF LT!WroteOneWay, WroteOneWay, LT!PurchaseLimitHeld, PurchaseLimitHeld
<1>3. LT!Spec => [](LT!SpelledLimitHeld /\ (LT!WroteOneWay => LT!PurchaseLimitHeld))
  BY LT!LimitHeld, SchemaAssumption, SameFinite
<1>. QED
  BY <1>1, <1>2, <1>3, StoreCorrect, StoreLedger, PTL

\* Between any two statements, the operator's invariant check finds nothing but
\* the limit of a user who wrote a sale's id in two ways.
THEOREM StoreCheckPasses == Spec => []InvariantCheckPasses
<1>1. LT!InvariantCheckPasses <=> InvariantCheckPasses
  BY SameUser, SameSum DEF LT!InvariantCheckPasses, InvariantCheckPasses, LT!CheckInvariants,
                           CheckInvariants, LT!WroteOneWay, WroteOneWay
<1>2. LT!Spec => []LT!InvariantCheckPasses
  BY LT!OperatorCheckPasses, SchemaAssumption, SameFinite
<1>. QED
  BY <1>1, <1>2, StoreLedger, PTL

(***************************************************************************)
(* Reservations live as documented whatever is interleaved: a row stays,   *)
(* final states are final, only what is confirmed is paid and only what is *)
(* pending and due expires.                                                *)
(***************************************************************************)
THEOREM StoreLifecycle == Spec => LifecycleRespected
<1>1. [LT!LifecycleStep]_LT!tables => [LifecycleStep]_tables
  BY DEF LT!LifecycleStep, LifecycleStep, LT!tables, tables
<1>2. LT!Spec => LT!LifecycleRespected
  BY LT!LifecycleKept, SchemaAssumption, SameFinite
<1>. QED
  BY <1>1, <1>2, StoreLedger, PTL DEF LT!LifecycleRespected, LifecycleRespected

\* A stored response is never changed by any statement of any session.
THEOREM StoreResponses == Spec => ResponsesFinal
<1>1. [LT!KeysKept]_LT!tables => [KeysKept]_tables
  BY DEF LT!KeysKept, KeysKept, LT!tables, tables
<1>2. LT!Spec => LT!ResponsesFinal
  BY LT!AnswersKept, SchemaAssumption, SameFinite
<1>. QED
  BY <1>1, <1>2, StoreLedger, PTL DEF LT!ResponsesFinal, ResponsesFinal

\* The audit log tells each reservation's story without a gap.
THEOREM StoreAudit == Spec => []EventsTrace
<1>1. LT!EventsTrace <=> EventsTrace
  BY DEF LT!EventsTrace, EventsTrace, LT!Traces, Traces
<1>2. LT!Spec => []LT!EventsTrace
  BY LT!AuditComplete, SchemaAssumption, SameFinite
<1>. QED
  BY <1>1, <1>2, StoreLedger, PTL

\* On the seeded demo the dashboard's check passes between any two statements.
THEOREM StoreDemoPasses == LT!WholeStockSales => (Spec => []DemoInvariantPass)
<1>. SUFFICES ASSUME LT!WholeStockSales PROVE Spec => []DemoInvariantPass
  OBVIOUS
<1>1. LT!DemoInvariantPass <=> DemoInvariantPass
  BY DEF LT!DemoInvariantPass, DemoInvariantPass, LT!InvariantPass, InvariantPass
<1>2. LT!Spec => []LT!DemoInvariantPass
  BY LT!DemoCheckPasses, SchemaAssumption, SameFinite
<1>. QED
  BY <1>1, <1>2, StoreLedger, PTL

(***************************************************************************)
(* When no stock is promised twice and nobody recounts, no interleaving of *)
(* requests, sweeps and failures loses a unit of a sale.                   *)
(***************************************************************************)
THEOREM StoreNoLeak == Spec => []NothingLeaks
<1>1. \A p : LT!AllocatedUnits(p) = AllocatedUnits(p)
  BY DEF LT!AllocatedUnits, AllocatedUnits
<1>2. LT!WithinStock <=> WithinStock
  <2>1. \A S : LT!Cardinality(S) = Cardinality(S)
    BY DEF LT!Cardinality, Cardinality
  <2>. QED
    BY <1>1, <2>1, SameFinite DEF LT!WithinStock, WithinStock
<1>3. LT!SaleFullyAccounted <=> SaleFullyAccounted
  BY SameSum DEF LT!SaleFullyAccounted, SaleFullyAccounted, LT!OfSale, OfSale, LT!Active, Active
<1>4. LT!NothingLeaks <=> NothingLeaks
  BY <1>2, <1>3 DEF LT!NothingLeaks, NothingLeaks
<1>5. LT!Spec => []LT!NothingLeaks
  BY LT!NoLeak, SchemaAssumption, SameFinite
<1>. QED
  BY <1>4, <1>5, StoreLedger, PTL

-----------------------------------------------------------------------------
(***************************************************************************)
(* The guard reserved >= quantity always finds the units: what a           *)
(* cancellation, a payment or a batch takes out of `reserved` belongs to   *)
(* reservations it has locked in a state that holds units, together with   *)
(* the rows of the batch that are already done.                            *)
(***************************************************************************)
LEMMA CurrentRestorable ==
  ASSUME TablesInv, NEW self \in Sessions, tx[self] \in ExpireTx,
         ExpireInv(self, tx[self]), tx[self].at = "inventory"
  PROVE  Restorable(self)
<1> DEFINE x == tx[self]
           r == x.current
           p == ProductOf[reservations[r].sale_id]
           D == Done(self, p)
<1>1. /\ x.batch \subseteq DOMAIN reservations /\ x.todo \subseteq x.batch /\ r \in x.todo
      /\ \A i \in x.batch : reservations[i].state = "pending"
  BY DEF ExpireInv, IsDue
<1>2. D \subseteq DOMAIN reservations /\ r \in DOMAIN reservations /\ r \notin D
  BY <1>1 DEF Done
<1>3. D \cup {r} \subseteq OfProduct(reservations, p, Holding)
  BY <1>1 DEF Done, OfProduct, Holding
<1>4. /\ reservations[r].quantity \in 1..MaxQuantity /\ p \in DOMAIN inventory
      /\ inventory[p].reserved \in Nat
  BY <1>2 DEF TablesInv, TablesTypeOK, IsTable, ReservationRow, InventoryRow
<1>5. IsFiniteSet(D)
  BY <1>2, RowsFinite DEF TablesInv
<1>. HIDE DEF D, p, r
<1>6. Sum(reservations, D \cup {r}) = Sum(reservations, D) + reservations[r].quantity
  BY <1>2, <1>4, <1>5, SumAdd
<1>7. Sum(reservations, D \cup {r}) <= inventory[p].reserved
  BY <1>3, <1>4, HeldIsReserved DEF TablesInv
<1>8. Sum(reservations, D) \in Nat
  BY <1>5, SumType
<1>9. inventory[p].reserved - Sum(reservations, D) >= reservations[r].quantity
  BY <1>4, <1>6, <1>7, <1>8, SchemaAssumption
<1>. QED
  BY <1>9 DEF Restorable, D, p, r

\* Taking a reservation's units out of `reserved` never finds them missing.
THEOREM UnitsFound == Spec => []UnitsAreThere
<1>1. StoreInv => UnitsAreThere
  <2>. SUFFICES ASSUME StoreInv, NEW self \in Sessions
                PROVE  /\ At(self, "transition", "inventory") => ReservedCovers(tx[self].id)
                       /\ At(self, "payment", "inventory") =>
                            ReservedCovers(tx[self].request.order_id)
                       /\ At(self, "expire", "inventory") => Restorable(self)
    BY DEF UnitsAreThere
  <2>0. TablesInv /\ TablesTypeOK /\ InventoryReconciled /\ SessionsInv
    BY DEF StoreInv, TablesInv
  <2>1. ASSUME At(self, "transition", "inventory") PROVE ReservedCovers(tx[self].id)
    <3>1. tx[self].id \in DOMAIN reservations /\ reservations[tx[self].id].state \in Holding
      BY <2>0, <2>1, TxOf DEF At, TransitionInv, Holding
    <3>. QED
      BY <2>0, <3>1, RowIsReserved DEF ReservedCovers
  <2>2. ASSUME At(self, "payment", "inventory")
        PROVE  ReservedCovers(tx[self].request.order_id)
    <3>1. /\ tx[self].request.order_id \in DOMAIN reservations
          /\ reservations[tx[self].request.order_id].state \in Holding
      BY <2>0, <2>2, TxOf DEF At, PaymentInv, SettledFrom, TablesTypeOK, Holding
    <3>. QED
      BY <2>0, <3>1, RowIsReserved DEF ReservedCovers
  <2>3. ASSUME At(self, "expire", "inventory") PROVE Restorable(self)
    BY <2>0, <2>3, TxOf, CurrentRestorable DEF At
  <2>. QED
    BY <2>1, <2>2, <2>3
<1>. QED
  BY <1>1, StoreCorrect, PTL

-----------------------------------------------------------------------------
(***************************************************************************)
(* What a transaction may hold, by operation and next statement: the other *)
(* direction of what TxInv says it does hold.  A transaction that owns     *)
(* the row of a sale for its batch has an inventory row already.           *)
(***************************************************************************)
MayHold(x, l) ==
  LET table == l[1]
      id == l[2]
  IN \/ /\ x.op = "reserve"
        /\ \/ table = "idempotency_keys" /\ x.at \notin {"claim", "replay"}
           \/ table = "advisory" /\ x.at \notin {"claim", "replay", "advisory"}
           \/ table = "flash_sales" /\ x.at \in {"inventory", "commit"}
           \/ table = "inventory" /\ x.at = "commit"
     \/ /\ x.op = "transition"
        /\ \/ table = "reservations" /\ id = x.id /\ x.at # "lock"
           \/ table = "orders" /\ id = x.id /\ x.at \notin {"lock", "order"}
           \/ table = "inventory" /\ x.at \in {"sale", "commit"}
           \/ table = "flash_sales" /\ x.at = "commit"
     \/ /\ x.op = "expire" /\ x.at # "select"
        /\ \/ table \in {"reservations", "orders"} /\ id \in x.batch
           \/ table \in {"inventory", "flash_sales"}
     \/ /\ x.op = "payment" /\ x.at \notin {"insert", "replay"}
        /\ \/ table = "payments"
           \/ table = "orders" /\ id = x.request.order_id
           \/ /\ table = "reservations" /\ id = x.request.order_id
              /\ x.at \in {"inventory", "commit"}
           \/ table = "inventory" /\ x.at = "commit"

LocksOk(H, x) ==
  \A l \in H :
    /\ MayHold(x, l)
    /\ x.op = "expire" /\ l[1] = "flash_sales" => \E m \in H : m[1] = "inventory"

LocksInv == \A t \in Sessions : LocksOk(held[t], tx[t])

\* The operation of a transaction is the field `op` of its record.
LEMMA OpOf ==
  /\ \A x \in ReserveTx : x.op = "reserve"
  /\ \A x \in TransitionTx : x.op = "transition"
  /\ \A x \in ExpireTx : x.op = "expire"
  /\ \A x \in PaymentTx : x.op = "payment"
  BY ZenonT(30) DEF ReserveTx, TransitionTx, ExpireTx, PaymentTx

\* A lock that the moved transaction may hold is added to those it held.
LEMMA LockAdded ==
  ASSUME NEW H, NEW x, NEW y, NEW table, NEW id, NEW mode,
         LocksOk(H, x), y.op = x.op, \A l \in H : MayHold(x, l) => MayHold(y, l),
         MayHold(y, <<table, id, mode>>),
         x.op = "expire" /\ table = "flash_sales" => \E m \in H : m[1] = "inventory"
  PROVE  LocksOk(H \cup {<<table, id, mode>>}, y)
<1> DEFINE new == <<table, id, mode>>
<1>1. new[1] = table
  OBVIOUS
<1>. HIDE DEF new
<1>. QED
  BY <1>1 DEF LocksOk, new

\* What one session holds and does is no other session's business.
LEMMA LocksStep ==
  ASSUME LocksInv, NEW self \in Sessions,
         \A t \in Sessions \ {self} : tx'[t] = tx[t] /\ held'[t] = held[t],
         LocksOk(held'[self], tx'[self])
  PROVE  LocksInv'
  BY DEF LocksInv

\* A transaction that ends, committed or not, holds nothing.
LEMMA LocksFinish ==
  ASSUME LocksInv, SessionsInv, NEW self \in Sessions, NEW answer, Finish(self, answer)
  PROVE  LocksInv'
<1>1. DOMAIN tx = Sessions /\ DOMAIN held = Sessions
  BY DEF SessionsInv
<1>2. /\ \A t \in Sessions \ {self} : tx'[t] = tx[t] /\ held'[t] = held[t]
      /\ held'[self] = {}
  BY <1>1 DEF Finish
<1>3. LocksOk(held'[self], tx'[self])
  BY <1>2 DEF LocksOk
<1>. QED
  BY <1>2, <1>3, LocksStep

\* The lock a statement takes is one its successor may hold.
LEMMA LocksAcquire ==
  ASSUME LocksInv, SessionsInv, NEW self \in Sessions,
         NEW table, NEW id, NEW mode, Acquire(self, table, id, mode),
         \A t \in Sessions \ {self} : tx'[t] = tx[t],
         tx'[self].op = tx[self].op,
         \A l \in held[self] : MayHold(tx[self], l) => MayHold(tx'[self], l),
         MayHold(tx'[self], <<table, id, mode>>),
         tx[self].op = "expire" /\ table = "flash_sales" =>
           \E m \in held[self] : m[1] = "inventory"
  PROVE  LocksInv'
<1>1. /\ \A t \in Sessions \ {self} : held'[t] = held[t]
      /\ held'[self] = held[self] \cup {<<table, id, mode>>}
  BY DEF SessionsInv, Acquire
<1>2. LocksOk(held[self], tx[self])
  BY DEF LocksInv
<1>3. LocksOk(held[self] \cup {<<table, id, mode>>}, tx'[self])
  BY <1>2, LockAdded, Zenon
<1>. QED
  BY <1>1, <1>3, LocksStep

\* A statement that takes no lock leaves all that it may hold.
LEMMA LocksQuiet ==
  ASSUME LocksInv, SessionsInv, NEW self \in Sessions,
         \A t \in Sessions : held'[t] = held[t],
         \A t \in Sessions \ {self} : tx'[t] = tx[t],
         tx'[self].op = tx[self].op,
         \A l \in held[self] : MayHold(tx[self], l) => MayHold(tx'[self], l)
  PROVE  LocksInv'
<1>1. LocksOk(held[self], tx[self])
  BY DEF LocksInv
<1>2. LocksOk(held'[self], tx'[self])
  BY <1>1 DEF LocksOk
<1>. QED
  BY <1>2, LocksStep

\* Reserve: key, advisory lock, sale, inventory, in this order.
LEMMA ReserveLocks ==
  ASSUME LocksInv, SessionsInv, NEW self \in Sessions, ReserveStep(self)
  PROVE  LocksInv'
<1> DEFINE x == tx[self]
<1>0. DOMAIN tx = Sessions
  BY DEF SessionsInv
<1>1. x \in ReserveTx /\ x.op = "reserve"
  BY TxOf DEF ReserveStep, ClaimKey, ReplayReservation, LockUser, ReadSale, CheckLimit,
              DecrementSale, DecrementInventory, CommitReservation, At
<1>2. ASSUME NEW a \in Statements.reserve, Goto(self, a)
      PROVE  /\ \A t \in Sessions \ {self} : tx'[t] = tx[t]
             /\ tx'[self].op = "reserve" /\ tx'[self].at = a
  BY <1>0, <1>1, <1>2, GotoReserve, OpOf
<1>3. ASSUME NEW a \in Statements.reserve, Goto(self, a), UNCHANGED held,
             <<x.at, a>> \in {<<"claim", "replay">>, <<"limit", "sale">>}
      PROVE  LocksInv'
  BY <1>1, <1>2, <1>3, LocksQuiet DEF MayHold
<1>4. CASE ClaimKey(self)
  <2>1. ASSUME Acquire(self, "idempotency_keys", x.key, "update"), Goto(self, "advisory")
        PROVE  LocksInv'
    <3>1. /\ \A t \in Sessions \ {self} : tx'[t] = tx[t]
          /\ tx'[self].op = "reserve" /\ tx'[self].at = "advisory"
      BY <1>2, <2>1 DEF Statements
    <3>2. \A l \in held[self] : MayHold(x, l) => MayHold(tx'[self], l)
      BY <1>1, <1>4, <3>1 DEF MayHold, ClaimKey, At
    <3>3. MayHold(tx'[self], <<"idempotency_keys", x.key, "update">>)
      BY <3>1 DEF MayHold
    <3>. QED
      BY <1>1, <2>1, <3>1, <3>2, <3>3, LocksAcquire
  <2>2. x.at = "claim" /\ "replay" \in Statements.reserve
    BY <1>4 DEF ClaimKey, At, Statements
  <2>. QED
    BY <1>3, <1>4, <2>1, <2>2 DEF ClaimKey
<1>5. CASE LockUser(self)
  <2> DEFINE lock == <<x.request.sale_id, x.request.spelling, x.request.user_id>>
  <2>1. Acquire(self, "advisory", lock, "update") /\ x.at = "advisory"
    BY <1>5 DEF LockUser, At
  <2>2. /\ \A t \in Sessions \ {self} : tx'[t] = tx[t]
        /\ tx'[self].op = "reserve" /\ tx'[self].at = "read"
    BY <1>2, <1>5 DEF LockUser, Statements
  <2>3. \A l \in held[self] : MayHold(x, l) => MayHold(tx'[self], l)
    BY <1>1, <2>1, <2>2 DEF MayHold
  <2>4. MayHold(tx'[self], <<"advisory", lock, "update">>)
    BY <2>2 DEF MayHold
  <2>. QED
    BY <1>1, <2>1, <2>2, <2>3, <2>4, LocksAcquire
<1>6. CASE ReadSale(self)
  <2>1. ASSUME tx' = [tx EXCEPT ![self].at = "limit", ![self].now = clock], UNCHANGED held
        PROVE  LocksInv'
    <3>1. /\ \A t \in Sessions \ {self} : tx'[t] = tx[t]
          /\ tx'[self].op = "reserve" /\ tx'[self].at = "limit"
      BY <1>0, <1>1, <2>1 DEF ReserveTx
    <3>2. \A l \in held[self] : MayHold(x, l) => MayHold(tx'[self], l)
      BY <1>1, <1>6, <3>1 DEF MayHold, ReadSale, At
    <3>. QED
      BY <1>1, <2>1, <3>1, <3>2, LocksQuiet
  <2>. QED
    BY <1>6, <2>1, LocksFinish DEF ReadSale, FinishReservationError
<1>7. CASE CheckLimit(self)
  <2>1. x.at = "limit" /\ "sale" \in Statements.reserve
    BY <1>7 DEF CheckLimit, At, Statements
  <2>. QED
    BY <1>3, <1>7, <2>1, LocksFinish DEF CheckLimit, FinishReservationError
<1>8. CASE DecrementSale(self)
  <2>1. ASSUME Acquire(self, "flash_sales", x.request.sale_id, "no key update"),
               Goto(self, "inventory")
        PROVE  LocksInv'
    <3>1. /\ \A t \in Sessions \ {self} : tx'[t] = tx[t]
          /\ tx'[self].op = "reserve" /\ tx'[self].at = "inventory"
      BY <1>2, <2>1 DEF Statements
    <3>2. \A l \in held[self] : MayHold(x, l) => MayHold(tx'[self], l)
      BY <1>1, <1>8, <3>1 DEF MayHold, DecrementSale, At
    <3>3. MayHold(tx'[self], <<"flash_sales", x.request.sale_id, "no key update">>)
      BY <3>1 DEF MayHold
    <3>. QED
      BY <1>1, <2>1, <3>1, <3>2, <3>3, LocksAcquire
  <2>. QED
    BY <1>8, <2>1, LocksFinish DEF DecrementSale, FinishReservationError
<1>9. CASE DecrementInventory(self)
  <2> DEFINE p == ProductOf[x.request.sale_id]
  <2>1. ASSUME Acquire(self, "inventory", p, "no key update"), Goto(self, "commit")
        PROVE  LocksInv'
    <3>1. /\ \A t \in Sessions \ {self} : tx'[t] = tx[t]
          /\ tx'[self].op = "reserve" /\ tx'[self].at = "commit"
      BY <1>2, <2>1 DEF Statements
    <3>2. \A l \in held[self] : MayHold(x, l) => MayHold(tx'[self], l)
      BY <1>1, <1>9, <3>1 DEF MayHold, DecrementInventory, At
    <3>3. MayHold(tx'[self], <<"inventory", p, "no key update">>)
      BY <3>1 DEF MayHold
    <3>. QED
      BY <1>1, <2>1, <3>1, <3>2, <3>3, LocksAcquire
  <2>. QED
    BY <1>9, <2>1, LocksFinish DEF DecrementInventory, FinishReservationError
<1>10. CASE ReplayReservation(self) \/ CommitReservation(self)
  BY <1>10, LocksFinish DEF ReplayReservation, CommitReservation
<1>. QED
  BY <1>4, <1>5, <1>6, <1>7, <1>8, <1>9, <1>10 DEF ReserveStep

\* Transition: reservation, order, inventory, sale; confirming stops at the order.
LEMMA TransitionLocks ==
  ASSUME LocksInv, SessionsInv, NEW self \in Sessions, TransitionStep(self)
  PROVE  LocksInv'
<1> DEFINE x == tx[self]
           s == reservations[x.id].sale_id
<1>0. DOMAIN tx = Sessions /\ DOMAIN held = Sessions
  BY DEF SessionsInv
<1>1. x \in TransitionTx /\ x.op = "transition"
  BY TxOf DEF TransitionStep, LockForTransition, UpdateOrder, UpdateInventory, UpdateSale,
              CommitTransition, At
<1>2. ASSUME NEW a \in Statements.transition, Goto(self, a)
      PROVE  /\ \A t \in Sessions \ {self} : tx'[t] = tx[t]
             /\ tx'[self].op = "transition" /\ tx'[self].at = a /\ tx'[self].id = x.id
  BY <1>0, <1>1, <1>2, GotoTransition, OpOf
<1>3. CASE LockForTransition(self)
  <2>1. ASSUME Acquire(self, "reservations", x.id, "update"),
               tx' = [tx EXCEPT ![self].at = "order",
                                ![self].current = reservations[x.id].state]
        PROVE  LocksInv'
    <3>1. /\ \A t \in Sessions \ {self} : tx'[t] = tx[t]
          /\ tx'[self].op = "transition" /\ tx'[self].at = "order" /\ tx'[self].id = x.id
      BY <1>0, <1>1, <2>1 DEF TransitionTx
    <3>2. \A l \in held[self] : MayHold(x, l) => MayHold(tx'[self], l)
      BY <1>1, <1>3, <3>1 DEF MayHold, LockForTransition, At
    <3>3. MayHold(tx'[self], <<"reservations", x.id, "update">>)
      BY <3>1 DEF MayHold
    <3>. QED
      BY <1>1, <2>1, <3>1, <3>2, <3>3, LocksAcquire
  <2>. QED
    BY <1>3, <2>1, LocksFinish DEF LockForTransition
<1>4. CASE UpdateOrder(self)
  <2>1. Acquire(self, "orders", x.id, "no key update") /\ x.at = "order"
    BY <1>4 DEF UpdateOrder, At
  <2>2. /\ \A t \in Sessions \ {self} : tx'[t] = tx[t]
        /\ tx'[self].op = "transition" /\ tx'[self].id = x.id
        /\ tx'[self].at \in {"inventory", "commit"}
    BY <1>2, <1>4 DEF UpdateOrder, Statements
  <2>3. \A l \in held[self] : MayHold(x, l) => MayHold(tx'[self], l)
    BY <1>1, <2>1, <2>2 DEF MayHold
  <2>4. MayHold(tx'[self], <<"orders", x.id, "no key update">>)
    BY <2>2 DEF MayHold
  <2>. QED
    BY <1>1, <2>1, <2>2, <2>3, <2>4, LocksAcquire
<1>5. CASE UpdateInventory(self)
  <2> DEFINE p == ProductOf[s]
             matches == ReservedCovers(x.id)
  <2>1. /\ x.at = "inventory"
        /\ held' = [held EXCEPT ![self] =
             @ \cup (IF matches THEN {<<"inventory", p, "no key update">>} ELSE {})]
        /\ tx' = [tx EXCEPT ![self].at = "sale", ![self].restored = matches]
    BY <1>5 DEF UpdateInventory, At
  <2>2. /\ \A t \in Sessions \ {self} : tx'[t] = tx[t]
        /\ tx'[self].op = "transition" /\ tx'[self].at = "sale" /\ tx'[self].id = x.id
    BY <1>0, <1>1, <2>1 DEF TransitionTx
  <2>3. \A l \in held[self] : MayHold(x, l) => MayHold(tx'[self], l)
    BY <1>1, <2>1, <2>2 DEF MayHold
  <2>4. MayHold(tx'[self], <<"inventory", p, "no key update">>)
    BY <2>2 DEF MayHold
  <2>5. CASE matches
    <3>1. Acquire(self, "inventory", p, "no key update")
      BY <1>5, <2>5 DEF UpdateInventory, Acquire
    <3>. QED
      BY <1>1, <2>2, <2>3, <2>4, <3>1, LocksAcquire
  <2>6. CASE ~ matches
    <3>1. \A t \in Sessions : held'[t] = held[t]
      BY <1>0, <2>1, <2>6
    <3>. QED
      BY <1>1, <2>2, <2>3, <3>1, LocksQuiet
  <2>. QED
    BY <2>5, <2>6
<1>6. CASE UpdateSale(self)
  <2>1. Acquire(self, "flash_sales", s, "no key update") /\ x.at = "sale"
    BY <1>6 DEF UpdateSale, At
  <2>2. /\ \A t \in Sessions \ {self} : tx'[t] = tx[t]
        /\ tx'[self].op = "transition" /\ tx'[self].at = "commit" /\ tx'[self].id = x.id
    BY <1>2, <1>6 DEF UpdateSale, Statements
  <2>3. \A l \in held[self] : MayHold(x, l) => MayHold(tx'[self], l)
    BY <1>1, <2>1, <2>2 DEF MayHold
  <2>4. MayHold(tx'[self], <<"flash_sales", s, "no key update">>)
    BY <2>2 DEF MayHold
  <2>. QED
    BY <1>1, <2>1, <2>2, <2>3, <2>4, LocksAcquire
<1>7. CASE CommitTransition(self)
  BY <1>7, LocksFinish DEF CommitTransition
<1>. QED
  BY <1>3, <1>4, <1>5, <1>6, <1>7 DEF TransitionStep

\* ExpireOnce: the reservations at once, then inventory, sale and order of each.
LEMMA ExpireLocks ==
  ASSUME LocksInv, SessionsInv, NEW self \in Sessions, ExpireStep(self)
  PROVE  LocksInv'
<1> DEFINE x == tx[self]
           s == reservations[x.current].sale_id
<1>0. DOMAIN tx = Sessions /\ DOMAIN held = Sessions
  BY DEF SessionsInv
<1>1. x \in ExpireTx /\ x.op = "expire" /\ ExpireInv(self, x)
  BY TxOf DEF ExpireStep, SelectBatch, RestoreInventory, RestoreSale, ExpireOrder,
              CommitExpire, At
<1>2. ASSUME NEW a \in Statements.expire, Goto(self, a)
      PROVE  /\ \A t \in Sessions \ {self} : tx'[t] = tx[t]
             /\ tx'[self].op = "expire" /\ tx'[self].at = a /\ tx'[self].batch = x.batch
  BY <1>0, <1>1, <1>2, GotoExpire, OpOf
<1>3. CASE SelectBatch(self)
  <2>1. ASSUME NEW S, NEW first,
               held' = [held EXCEPT ![self] = {<<"reservations", r, "update">> : r \in S}],
               tx' = [tx EXCEPT ![self].at = "inventory", ![self].batch = S,
                                ![self].todo = S, ![self].current = first]
        PROVE  LocksInv'
    <3>1. /\ \A t \in Sessions \ {self} : tx'[t] = tx[t] /\ held'[t] = held[t]
          /\ tx'[self].op = "expire" /\ tx'[self].at = "inventory" /\ tx'[self].batch = S
          /\ held'[self] = {<<"reservations", r, "update">> : r \in S}
      BY <1>0, <1>1, <2>1 DEF ExpireTx
    <3>2. \A l \in held'[self] : l[1] = "reservations" /\ l[2] \in S
      BY <3>1
    <3>3. LocksOk(held'[self], tx'[self])
      BY <3>1, <3>2 DEF LocksOk, MayHold
    <3>. QED
      BY <3>1, <3>3, LocksStep
  <2>. QED
    BY <1>3, <2>1, LocksFinish DEF SelectBatch
<1>4. CASE RestoreInventory(self)
  <2>1. Acquire(self, "inventory", ProductOf[s], "no key update") /\ x.at = "inventory"
    BY <1>4 DEF RestoreInventory, At
  <2>2. /\ \A t \in Sessions \ {self} : tx'[t] = tx[t]
        /\ tx'[self].op = "expire" /\ tx'[self].at = "sale" /\ tx'[self].batch = x.batch
    BY <1>2, <1>4 DEF RestoreInventory, Statements
  <2>3. \A l \in held[self] : MayHold(x, l) => MayHold(tx'[self], l)
    BY <1>1, <2>1, <2>2 DEF MayHold
  <2>4. MayHold(tx'[self], <<"inventory", ProductOf[s], "no key update">>)
    BY <2>2 DEF MayHold
  <2>. QED
    BY <1>1, <2>1, <2>2, <2>3, <2>4, LocksAcquire
<1>5. CASE RestoreSale(self)
  <2>1. Acquire(self, "flash_sales", s, "no key update") /\ x.at = "sale"
    BY <1>5 DEF RestoreSale, At
  <2>2. /\ \A t \in Sessions \ {self} : tx'[t] = tx[t]
        /\ tx'[self].op = "expire" /\ tx'[self].at = "order" /\ tx'[self].batch = x.batch
    BY <1>2, <1>5 DEF RestoreSale, Statements
  <2>3. \A l \in held[self] : MayHold(x, l) => MayHold(tx'[self], l)
    BY <1>1, <2>1, <2>2 DEF MayHold
  <2>4. MayHold(tx'[self], <<"flash_sales", s, "no key update">>)
    BY <2>2 DEF MayHold
  <2>5. \E m \in held[self] : m[1] = "inventory"
    <3>1. Owns(self, "inventory", ProductOf[s])
      BY <1>1, <2>1 DEF ExpireInv
    <3>. QED
      BY <3>1 DEF Owns
  <2>. QED
    BY <1>1, <2>1, <2>2, <2>3, <2>4, <2>5, LocksAcquire
<1>6. CASE ExpireOrder(self)
  <2>1. Acquire(self, "orders", x.current, "no key update") /\ x.at = "order"
    BY <1>6 DEF ExpireOrder, At
  <2>2. PICK a \in {"inventory", "commit"} : \E T, row :
          tx' = [tx EXCEPT ![self].at = a, ![self].todo = T, ![self].current = row]
    BY <1>6, Zenon DEF ExpireOrder
  <2>3. /\ \A t \in Sessions \ {self} : tx'[t] = tx[t]
        /\ tx'[self].op = "expire" /\ tx'[self].at = a /\ tx'[self].batch = x.batch
    BY <1>0, <1>1, <2>2 DEF ExpireTx
  <2>4. \A l \in held[self] : MayHold(x, l) => MayHold(tx'[self], l)
    BY <1>1, <2>1, <2>3 DEF MayHold
  <2>5. x.current \in x.batch
    BY <1>1, <2>1 DEF ExpireInv
  <2>6. MayHold(tx'[self], <<"orders", x.current, "no key update">>)
    BY <2>3, <2>5 DEF MayHold
  <2>. QED
    BY <1>1, <2>1, <2>3, <2>4, <2>6, LocksAcquire
<1>7. CASE CommitExpire(self)
  BY <1>7, LocksFinish DEF CommitExpire
<1>. QED
  BY <1>3, <1>4, <1>5, <1>6, <1>7 DEF ExpireStep

\* SimulatePayment: payment, order, reservation, inventory.
LEMMA PaymentLocks ==
  ASSUME LocksInv, SessionsInv, NEW self \in Sessions, PaymentStep(self)
  PROVE  LocksInv'
<1> DEFINE x == tx[self]
           o == x.request.order_id
           p == ProductOf[reservations[o].sale_id]
<1>0. DOMAIN tx = Sessions
  BY DEF SessionsInv
<1>1. x \in PaymentTx /\ x.op = "payment"
  BY TxOf DEF PaymentStep, InsertPayment, ReplayPayment, CheckForeignKey, LockOrder,
              LockReservation, SellInventory, CommitPayment, At
<1>2. ASSUME NEW a \in Statements.payment, Goto(self, a)
      PROVE  /\ \A t \in Sessions \ {self} : tx'[t] = tx[t]
             /\ tx'[self].op = "payment" /\ tx'[self].at = a
             /\ tx'[self].request = x.request
  BY <1>0, <1>1, <1>2, GotoPayment, OpOf
\* Every statement that goes on takes one lock; what it may hold only grows.
<1>3. ASSUME NEW table, NEW id, NEW mode, NEW a \in Statements.payment,
             Acquire(self, table, id, mode), Goto(self, a),
             \/ x.at = "insert" /\ a = "foreign key" /\ table = "payments"
             \/ x.at = "foreign key" /\ a = "lock order" /\ table = "orders" /\ id = o
             \/ x.at = "lock order" /\ a = "lock reservation" /\ table = "orders" /\ id = o
             \/ /\ x.at = "lock reservation" /\ a \in {"inventory", "commit"}
                /\ table = "reservations" /\ id = o
             \/ x.at = "inventory" /\ a = "commit" /\ table = "inventory"
      PROVE  LocksInv'
  <2>1. /\ \A t \in Sessions \ {self} : tx'[t] = tx[t]
        /\ tx'[self].op = "payment" /\ tx'[self].at = a
        /\ tx'[self].request = x.request
    BY <1>2, <1>3
  <2>2. \A l \in held[self] : MayHold(x, l) => MayHold(tx'[self], l)
    BY <1>1, <1>3, <2>1 DEF MayHold
  <2>3. MayHold(tx'[self], <<table, id, mode>>)
    BY <1>3, <2>1 DEF MayHold
  <2>. QED
    BY <1>1, <1>3, <2>1, <2>2, <2>3, LocksAcquire
<1>4. CASE InsertPayment(self)
  <2>1. ASSUME Goto(self, "replay"), UNCHANGED held
        PROVE  LocksInv'
    <3>1. /\ \A t \in Sessions \ {self} : tx'[t] = tx[t]
          /\ tx'[self].op = "payment" /\ tx'[self].at = "replay"
      BY <1>2, <2>1 DEF Statements
    <3>2. \A l \in held[self] : MayHold(x, l) => MayHold(tx'[self], l)
      BY <1>1, <1>4, <3>1 DEF MayHold, InsertPayment, At
    <3>. QED
      BY <1>1, <2>1, <3>1, <3>2, LocksQuiet
  <2>2. x.at = "insert" /\ "foreign key" \in Statements.payment
    BY <1>4 DEF InsertPayment, At, Statements
  <2>. QED
    BY <1>3, <1>4, <2>1, <2>2 DEF InsertPayment
<1>5. CASE CheckForeignKey(self)
  <2>1. x.at = "foreign key" /\ "lock order" \in Statements.payment
    BY <1>5 DEF CheckForeignKey, At, Statements
  <2>. QED
    BY <1>3, <1>5, <2>1, LocksFinish DEF CheckForeignKey, FailPayment
<1>6. CASE LockOrder(self)
  <2>1. x.at = "lock order" /\ "lock reservation" \in Statements.payment
    BY <1>6 DEF LockOrder, At, Statements
  <2>. QED
    BY <1>3, <1>6, <2>1 DEF LockOrder
<1>7. CASE LockReservation(self)
  <2>1. x.at = "lock reservation" /\ {"inventory", "commit"} \subseteq Statements.payment
    BY <1>7 DEF LockReservation, At, Statements
  <2>2. ASSUME NEW a \in {"inventory", "commit"}, Goto(self, a),
               Acquire(self, "reservations", o, "update")
        PROVE  LocksInv'
    BY <1>3, <2>1, <2>2
  <2>3. (IF x.request.outcome = "successful" THEN "inventory" ELSE "commit")
          \in {"inventory", "commit"}
    OBVIOUS
  <2>. QED
    BY <1>7, <2>2, <2>3, LocksFinish DEF LockReservation, FailPayment
<1>8. CASE SellInventory(self)
  <2>1. x.at = "inventory" /\ "commit" \in Statements.payment
    BY <1>8 DEF SellInventory, At, Statements
  <2>. QED
    BY <1>3, <1>8, <2>1 DEF SellInventory
<1>9. CASE ReplayPayment(self) \/ CommitPayment(self)
  BY <1>9, LocksFinish DEF ReplayPayment, CommitPayment
<1>. QED
  BY <1>4, <1>5, <1>6, <1>7, <1>8, <1>9 DEF PaymentStep

\* Locks are held in that order at every moment.
LEMMA LocksAlways == Spec => []LocksInv
<1>1. Init => LocksInv
  BY DEF Init, SessionsInit, LocksInv, LocksOk
<1>2. StoreInv /\ LocksInv /\ [Next]_vars => LocksInv'
  <2>. SUFFICES ASSUME SessionsInv, LocksInv, [Next]_vars PROVE LocksInv'
    BY DEF StoreInv
  <2>1. CASE UNCHANGED sessions
    BY <2>1 DEF LocksInv, sessions
  <2>2. ASSUME NEW self \in Sessions, Requests(self) PROVE LocksInv'
    <3>1. PICK x : Begin(self, x)
      BY <2>2 DEF Requests, BeginReserve, BeginTransition, BeginExpire, BeginPayment
    <3>2. DOMAIN tx = Sessions /\ TxInv(self, tx[self]) /\ tx[self] = Idle
      BY <3>1 DEF SessionsInv, Begin
    <3>3. held[self] = {}
      BY <3>2, OpOf DEF TxInv, Idle
    <3>4. \A t \in Sessions \ {self} : tx'[t] = tx[t] /\ held'[t] = held[t]
      BY <3>1, <3>2 DEF Begin
    <3>5. LocksOk(held'[self], tx'[self])
      BY <3>1, <3>3 DEF Begin, LocksOk
    <3>. QED
      BY <3>4, <3>5, LocksStep
  <2>3. ASSUME NEW self \in Sessions, Step(self) PROVE LocksInv'
    BY <2>3, ReserveLocks, TransitionLocks, ExpireLocks, PaymentLocks DEF Step
  <2>4. ASSUME NEW self \in Sessions, Abort(self) PROVE LocksInv'
    BY <2>4, LocksFinish DEF Abort
  <2>5. Administrator => UNCHANGED sessions
    BY DEF Administrator, CreateProduct, UpdateProduct, UpdateProductInventory, CreateSale,
           SetSaleState
  <2>. QED
    BY <2>1, <2>2, <2>3, <2>4, <2>5 DEF Next, vars, sessions
<1>. QED
  BY <1>1, <1>2, StoreCorrect, PTL DEF Spec

(***************************************************************************)
(* Deadlocks.  The lock that an operation wants, by its next statement.    *)
(***************************************************************************)
MayWant(x, table, id) ==
  \/ /\ x.op = "reserve"
     /\ \/ table = "idempotency_keys" /\ x.at = "claim"
        \/ table = "advisory" /\ x.at = "advisory"
        \/ table = "flash_sales" /\ x.at = "sale"
        \/ table = "inventory" /\ x.at = "inventory"
  \/ /\ x.op = "transition"
     /\ \/ table = "reservations" /\ id = x.id /\ x.at = "lock"
        \/ table = "orders" /\ id = x.id /\ x.at = "order"
        \/ table = "inventory" /\ x.at = "inventory"
        \/ table = "flash_sales" /\ x.at = "sale"
  \/ /\ x.op = "expire"
     /\ \/ table = "inventory" /\ x.at = "inventory"
        \/ table = "flash_sales" /\ x.at = "sale"
        \/ table = "orders" /\ x.at = "order"
  \/ /\ x.op = "payment"
     /\ \/ table = "payments" /\ x.at = "insert"
        \/ /\ table = "orders" /\ id = x.request.order_id
           /\ x.at \in {"foreign key", "lock order"}
        \/ table = "reservations" /\ id = x.request.order_id /\ x.at = "lock reservation"
        \/ table = "inventory" /\ x.at = "inventory"

\* A lock is known by its parts.
LEMMA Wanted ==
  ASSUME NEW x, NEW a, NEW b, NEW c, MayWant(x, a, b), NEW w, w = <<a, b, c>>
  PROVE  MayWant(x, w[1], w[2])
<1>1. w[1] = a /\ w[2] = b
  OBVIOUS
<1>. QED
  BY <1>1, Zenon

\* What Wants says, in terms of operation and statement.
LEMMA WantsOf ==
  ASSUME NEW self, NEW w \in Wants(self)
  PROVE  MayWant(tx[self], w[1], w[2])
<1> DEFINE x == tx[self]
           s == x.request.sale_id
           o == x.request.order_id
           t == reservations[x.id].sale_id
           u == reservations[x.current].sale_id
<1>1. ASSUME x.op = "reserve", w \in ReserveWants(x)
      PROVE  \/ x.at = "claim" /\ w = <<"idempotency_keys", x.key, "update">>
             \/ /\ x.at = "advisory"
                /\ w = <<"advisory", <<s, x.request.spelling, x.request.user_id>>, "update">>
             \/ x.at = "sale" /\ w = <<"flash_sales", s, "no key update">>
             \/ x.at = "inventory" /\ w = <<"inventory", ProductOf[s], "no key update">>
  BY <1>1 DEF ReserveWants
<1>2. ASSUME x.op = "transition", w \in TransitionWants(x)
      PROVE  \/ x.at = "lock" /\ w = <<"reservations", x.id, "update">>
             \/ x.at = "order" /\ w = <<"orders", x.id, "no key update">>
             \/ x.at = "inventory" /\ w = <<"inventory", ProductOf[t], "no key update">>
             \/ x.at = "sale" /\ w = <<"flash_sales", t, "no key update">>
  BY <1>2 DEF TransitionWants
<1>3. ASSUME x.op = "expire", w \in ExpireWants(x)
      PROVE  \/ x.at = "inventory" /\ w = <<"inventory", ProductOf[u], "no key update">>
             \/ x.at = "sale" /\ w = <<"flash_sales", u, "no key update">>
             \/ x.at = "order" /\ w = <<"orders", x.current, "no key update">>
  BY <1>3 DEF ExpireWants
<1>4. ASSUME x.op = "payment", w \in PaymentWants(x)
      PROVE  \/ x.at = "insert" /\ w = <<"payments", x.key, "update">>
             \/ x.at = "foreign key" /\ w = <<"orders", o, "key share">>
             \/ x.at = "lock order" /\ w = <<"orders", o, "update">>
             \/ x.at = "lock reservation" /\ w = <<"reservations", o, "update">>
             \/ /\ x.at = "inventory"
                /\ w = <<"inventory", ProductOf[reservations[o].sale_id], "no key update">>
  BY <1>4 DEF PaymentWants
<1>5. \/ x.op = "reserve" /\ w \in ReserveWants(x)
      \/ x.op = "transition" /\ w \in TransitionWants(x)
      \/ x.op = "expire" /\ w \in ExpireWants(x)
      \/ x.op = "payment" /\ w \in PaymentWants(x)
  BY DEF Wants
<1>6. /\ x.op = "reserve" => /\ x.at = "claim" => \A id : MayWant(x, "idempotency_keys", id)
                             /\ x.at = "advisory" => \A id : MayWant(x, "advisory", id)
                             /\ x.at = "sale" => \A id : MayWant(x, "flash_sales", id)
                             /\ x.at = "inventory" => \A id : MayWant(x, "inventory", id)
      /\ x.op = "transition" => /\ x.at = "lock" => MayWant(x, "reservations", x.id)
                                /\ x.at = "order" => MayWant(x, "orders", x.id)
                                /\ x.at = "inventory" => \A id : MayWant(x, "inventory", id)
                                /\ x.at = "sale" => \A id : MayWant(x, "flash_sales", id)
      /\ x.op = "expire" => /\ x.at = "inventory" => \A id : MayWant(x, "inventory", id)
                            /\ x.at = "sale" => \A id : MayWant(x, "flash_sales", id)
                            /\ x.at = "order" => \A id : MayWant(x, "orders", id)
      /\ x.op = "payment" => /\ x.at = "insert" => \A id : MayWant(x, "payments", id)
                             /\ x.at = "foreign key" => MayWant(x, "orders", o)
                             /\ x.at = "lock order" => MayWant(x, "orders", o)
                             /\ x.at = "lock reservation" => MayWant(x, "reservations", o)
                             /\ x.at = "inventory" => \A id : MayWant(x, "inventory", id)
  BY DEF MayWant
<1>7. CASE x.op = "reserve" /\ w \in ReserveWants(x)
  BY <1>1, <1>6, <1>7, Wanted, Zenon
<1>8. CASE x.op = "transition" /\ w \in TransitionWants(x)
  BY <1>2, <1>6, <1>8, Wanted, Zenon
<1>9. CASE x.op = "expire" /\ w \in ExpireWants(x)
  BY <1>3, <1>6, <1>9, Wanted, Zenon
<1>10. CASE x.op = "payment" /\ w \in PaymentWants(x)
  BY <1>4, <1>6, <1>10, Wanted, Zenon
<1>. QED
  BY <1>5, <1>7, <1>8, <1>9, <1>10

(***************************************************************************)
(* Session u wants a lock on a row that t holds; what each may then be     *)
(* doing follows from WantsOf and from LocksInv.                           *)
(***************************************************************************)
Blocks(u, t, table, id) ==
  /\ t # u
  /\ MayWant(tx[u], table, id)
  /\ \E l \in held[t] : l[1] = table /\ l[2] = id /\ MayHold(tx[t], l)

\* In a deadlock everyone is blocked by someone of it.
LEMMA AllBlocked ==
  ASSUME SessionsInv, LocksInv, NEW D \in SUBSET Sessions, Deadlock(D), NEW u \in D
  PROVE  \E t \in D : \E table, id : Blocks(u, t, table, id)
<1>1. PICK t \in Sessions : WaitsFor(u, t) /\ (t \in D \/ tx[t] = Idle)
  BY DEF Deadlock
<1>2. PICK w \in Wants(u), l \in held[t] : l[1] = w[1] /\ l[2] = w[2]
  BY <1>1 DEF WaitsFor
<1>3. MayHold(tx[t], l)
  BY <1>2 DEF LocksInv, LocksOk
<1>4. tx[t] # Idle
  BY <1>3 DEF MayHold, Idle
<1>5. Blocks(u, t, w[1], w[2]) /\ t \in D
  BY <1>1, <1>2, <1>3, <1>4, WantsOf DEF Blocks, WaitsFor
<1>. QED
  BY <1>5

(***************************************************************************)
(* The argument for NoDeadlock.  Without the two exceptions nobody in a    *)
(* deadlock waits for an inventory row, since whoever holds one has no     *)
(* lock left to want; hence nobody waits for a sale, hence nobody for a    *)
(* reservation or an order, hence nobody for an advisory lock or a key.    *)
(***************************************************************************)
LEMMA NoOtherDeadlock ==
  ASSUME SessionsInv, LocksInv, NEW D \in SUBSET Sessions, Deadlock(D),
         \A t \in D : ~ GivesBack(t),
         \A u, t \in D : u # t /\ tx[u].op = "payment" => ~ OnOrder(t, tx[u].request.order_id)
  PROVE  FALSE
<1> DEFINE Contended(table) == \E u, t \in D : \E id : Blocks(u, t, table, id)
<1>0. \A u \in D : \E table, id : MayWant(tx[u], table, id) /\ Contended(table)
  <2>. SUFFICES ASSUME NEW u \in D
                PROVE  \E table, id : MayWant(tx[u], table, id) /\ Contended(table)
    OBVIOUS
  <2>0. PICK t \in D : \E table, id : Blocks(u, t, table, id)
    BY AllBlocked
  <2>1. PICK table, id : Blocks(u, t, table, id)
    BY <2>0
  <2>2. Contended(table) /\ MayWant(tx[u], table, id)
    BY <2>1, Zenon DEF Blocks
  <2>. QED
    BY <2>2
<1>. HIDE DEF Contended
\* Whoever is at COMMIT, or at a SELECT without locks, is not in a deadlock.
<1>1. \A u \in D : tx[u].at \notin {"commit", "read", "limit", "replay"}
  BY <1>0 DEF MayWant
<1>2. ~ Contended("inventory")
  <2>. SUFFICES ASSUME NEW u \in D, NEW t \in D, NEW id, Blocks(u, t, "inventory", id)
                PROVE  FALSE
    BY DEF Contended
  <2>1. PICK l \in held[t] : l[1] = "inventory" /\ MayHold(tx[t], l)
    BY DEF Blocks
  <2>2. tx[t].op \notin {"transition", "expire"}
    BY <2>1 DEF GivesBack
  <2>3. tx[t].op \in {"reserve", "payment"} /\ tx[t].at = "commit"
    BY <2>1, <2>2 DEF MayHold
  <2>. QED
    BY <1>1, <2>3
<1>3. \A t \in D : tx[t].op \in {"reserve", "transition", "expire", "payment"} =>
                     tx[t].at # "inventory"
  BY <1>0, <1>2 DEF MayWant
<1>4. ~ Contended("flash_sales")
  <2>. SUFFICES ASSUME NEW u \in D, NEW t \in D, NEW id, Blocks(u, t, "flash_sales", id)
                PROVE  FALSE
    BY DEF Contended
  <2>1. PICK l \in held[t] : l[1] = "flash_sales" /\ MayHold(tx[t], l)
    BY DEF Blocks
  <2>2. tx[t].op # "expire"
    BY <2>1 DEF GivesBack, LocksInv, LocksOk
  <2>3. tx[t].op \in {"reserve", "transition"} /\ tx[t].at \in {"inventory", "commit"}
    BY <2>1, <2>2 DEF MayHold
  <2>. QED
    BY <1>1, <1>3, <2>3
<1>5. \A t \in D : tx[t].op \in {"reserve", "transition", "expire"} => tx[t].at # "sale"
  BY <1>0, <1>4 DEF MayWant
<1>6. \A t \in D : tx[t].op = "expire" => tx[t].at # "order"
  <2>. SUFFICES ASSUME NEW t \in D, tx[t].op = "expire", tx[t].at = "order" PROVE FALSE
    OBVIOUS
  <2>1. ExpireInv(t, tx[t])
    BY TxOf
  <2>2. \E id : Owns(t, "inventory", id)
    BY <2>1 DEF ExpireInv
  <2>. QED
    BY <2>2 DEF Owns, GivesBack
\* A transition that waits for the order has its reservation: only a payment
\* can have the order then.
<1>7. ~ Contended("orders")
  <2>. SUFFICES ASSUME NEW u \in D, NEW t \in D, NEW id, Blocks(u, t, "orders", id)
                PROVE  FALSE
    BY DEF Contended
  <2>1. MayWant(tx[u], "orders", id)
    BY DEF Blocks
  <2>2. PICK l \in held[t] : l[1] = "orders" /\ l[2] = id /\ MayHold(tx[t], l)
    BY DEF Blocks
  <2>3. u # t
    BY DEF Blocks
  <2>4. \/ tx[t].op = "transition" /\ id = tx[t].id /\ tx[t].at # "lock"
        \/ tx[t].op = "expire" /\ id \in tx[t].batch /\ tx[t].at # "select"
        \/ tx[t].op = "payment" /\ id = tx[t].request.order_id
    BY <2>2 DEF MayHold
  <2>5. tx[u].op # "payment"
    BY <2>1, <2>3, <2>4 DEF OnOrder, MayWant
  <2>6. tx[u].op = "transition" /\ id = tx[u].id /\ tx[u].at = "order"
    BY <1>6, <2>1, <2>5 DEF MayWant
  <2>7. tx[t].op # "payment"
    BY <2>3, <2>4, <2>6 DEF OnOrder
  <2>8. Owns(t, "reservations", id)
    BY <2>4, <2>7, TxOf DEF TransitionInv, ExpireInv
  <2>9. Owns(u, "reservations", id)
    BY <2>6, TxOf DEF TransitionInv
  <2>. QED
    BY <2>3, <2>8, <2>9, OwnerUnique DEF SessionsInv
<1>8. \A t \in D : /\ tx[t].op = "transition" => tx[t].at # "order"
                   /\ tx[t].op = "payment" => tx[t].at \notin {"foreign key", "lock order"}
  BY <1>0, <1>7 DEF MayWant
<1>9. ~ Contended("reservations")
  <2>. SUFFICES ASSUME NEW u \in D, NEW t \in D, NEW id, Blocks(u, t, "reservations", id)
                PROVE  FALSE
    BY DEF Contended
  <2>2. PICK l \in held[t] : l[1] = "reservations" /\ l[2] = id /\ MayHold(tx[t], l)
    BY DEF Blocks
  <2>3. \/ tx[t].op = "transition" /\ tx[t].at # "lock"
        \/ tx[t].op = "expire" /\ tx[t].at # "select"
        \/ tx[t].op = "payment" /\ tx[t].at \in {"inventory", "commit"}
    BY <2>2 DEF MayHold
  <2>4. /\ tx[t].op = "transition" => tx[t].at \in Statements.transition
        /\ tx[t].op = "expire" => tx[t].at \in Statements.expire
    BY TxOf, ZenonT(30) DEF TransitionTx, ExpireTx
  <2>. QED
    BY <1>1, <1>3, <1>5, <1>6, <1>8, <2>3, <2>4 DEF Statements
<1>10. \A t \in D : tx[t].op = "payment" => tx[t].at # "lock reservation"
  BY <1>0, <1>9 DEF MayWant
<1>11. ~ Contended("advisory")
  <2>. SUFFICES ASSUME NEW u \in D, NEW t \in D, NEW id, Blocks(u, t, "advisory", id)
                PROVE  FALSE
    BY DEF Contended
  <2>1. tx[t].op = "reserve" /\ tx[t].at \notin {"claim", "replay", "advisory"}
    BY DEF Blocks, MayHold
  <2>2. tx[t].at \in Statements.reserve
    BY <2>1, TxOf, ZenonT(30) DEF ReserveTx
  <2>. QED
    BY <1>1, <1>3, <1>5, <2>1, <2>2 DEF Statements
<1>12. \A t \in D : tx[t].op = "reserve" => tx[t].at # "advisory"
  BY <1>0, <1>11 DEF MayWant
<1>13. ~ Contended("idempotency_keys")
  <2>. SUFFICES ASSUME NEW u \in D, NEW t \in D, NEW id,
                       Blocks(u, t, "idempotency_keys", id)
                PROVE  FALSE
    BY DEF Contended
  <2>1. tx[t].op = "reserve" /\ tx[t].at \notin {"claim", "replay"}
    BY DEF Blocks, MayHold
  <2>2. tx[t].at \in Statements.reserve
    BY <2>1, TxOf, ZenonT(30) DEF ReserveTx
  <2>. QED
    BY <1>1, <1>3, <1>5, <1>12, <2>1, <2>2 DEF Statements
<1>14. ~ Contended("payments")
  <2>. SUFFICES ASSUME NEW u \in D, NEW t \in D, NEW id, Blocks(u, t, "payments", id)
                PROVE  FALSE
    BY DEF Contended
  <2>1. tx[t].op = "payment" /\ tx[t].at \notin {"insert", "replay"}
    BY DEF Blocks, MayHold
  <2>2. tx[t].at \in Statements.payment
    BY <2>1, TxOf, ZenonT(30) DEF PaymentTx
  <2>. QED
    BY <1>1, <1>3, <1>8, <1>10, <2>1, <2>2 DEF Statements
<1>15. PICK u \in D : TRUE
  BY DEF Deadlock
<1>. QED
  BY <1>0, <1>2, <1>4, <1>7, <1>9, <1>11, <1>13, <1>14, <1>15 DEF MayWant

(***************************************************************************)
(* Any number of sessions: whenever transactions are stuck, one of them    *)
(* gives units back and already has an inventory row, or a payment meets   *)
(* another transaction on its order.  No other lock order can deadlock.    *)
(***************************************************************************)
THEOREM DeadlocksKnown == Spec => []NoDeadlock
<1>1. StoreInv /\ LocksInv => NoDeadlock
  BY NoOtherDeadlock DEF StoreInv, NoDeadlock
<1>. QED
  BY <1>1, StoreCorrect, LocksAlways, PTL
=============================================================================
