-------------------------- MODULE StockLedgerProofs --------------------------
(***************************************************************************)
(* The promises of StockLedger, proved for any number of products, sales,  *)
(* users, keys and reservations and any stock.                             *)
(***************************************************************************)
EXTENDS StockLedger, TablesProofs

(***************************************************************************)
(* The inductive invariant.  The counters need one another: that reserved  *)
(* stays a natural number when units are released or sold follows from     *)
(* its being the sum over the reservations that hold units.                *)
(***************************************************************************)
LedgerInv ==
  /\ TablesTypeOK
  /\ InventoryReconciled
  /\ SaleNotOversold
  /\ SpelledLimitHeld
  /\ OrdersAgree
  /\ ChargedOnce
  /\ KeysAccount

-----------------------------------------------------------------------------
\* An UPDATE of inventory: the row keeps its type and the other columns.
LEMMA InventoryUpdate ==
  ASSUME NEW row \in InventoryRow, NEW a \in Nat, NEW b \in Nat
  PROVE  /\ [row EXCEPT !.available = a, !.reserved = b] \in InventoryRow
         /\ [row EXCEPT !.available = a, !.expected_total = b] \in InventoryRow
         /\ [row EXCEPT !.reserved = a, !.sold = b] \in InventoryRow
  BY DEF InventoryRow

-----------------------------------------------------------------------------
\* The seeded tables are well typed.
LEMMA InitType == TablesInit => TablesTypeOK
  BY SchemaAssumption
  DEF TablesInit, TablesTypeOK, IsTable, SeedProducts, NoRows, ProductRow, InventoryRow,
      SaleRow, SaleStates, ReservationRow, OrderStates, PaymentRow, KeyRow

\* Giving units back: the counters they are taken from hold them.
LEMMA ReleaseType ==
  ASSUME TablesTypeOK, InventoryReconciled,
         NEW S, NEW state \in {"cancelled", "expired"}, Release(S, state),
         \A r \in S : reservations[r].state = "pending"
  PROVE  TablesTypeOK'
<1>. USE SchemaAssumption
<1>0. /\ TablesTypeOK /\ InventoryReconciled /\ Release(S, state)
      /\ \A r \in S : reservations[r].state = "pending"
  OBVIOUS
<1> DEFINE OfP(p) == {r \in S : ProductOf[reservations[r].sale_id] = p}
           OfS(s) == {r \in S : reservations[r].sale_id = s}
<1>1. \A p \in DOMAIN inventory :
        /\ Sum(reservations, OfP(p)) \in Nat
        /\ Sum(reservations, OfP(p)) <= inventory[p].reserved
  <2>. TAKE p \in DOMAIN inventory
  <2>1. OfP(p) \subseteq OfProduct(reservations, p, Holding)
    BY <1>0 DEF Release, OfProduct, Holding
  <2>. QED
    BY <1>0, <2>1, HeldIsReserved
<1>2. \A s \in DOMAIN flash_sales : Sum(reservations, OfS(s)) \in Nat
  <2>. TAKE s \in DOMAIN flash_sales
  <2>1. OfS(s) \subseteq DOMAIN reservations
    BY <1>0 DEF Release
  <2>2. IsFiniteSet(OfS(s))
    BY <1>0, <2>1, RowsFinite
  <2>. QED
    BY <2>2, SumType
<1>3. IsTable(inventory', Products, InventoryRow) /\ DOMAIN inventory' = DOMAIN inventory
  <2>1. \A p \in DOMAIN inventory : inventory[p] \in InventoryRow
    BY <1>0 DEF TablesTypeOK, IsTable
  <2>2. \A p \in DOMAIN inventory :
          [inventory[p] EXCEPT !.available = @ + Sum(reservations, OfP(p)),
                               !.reserved = @ - Sum(reservations, OfP(p))] \in InventoryRow
    <3>. TAKE p \in DOMAIN inventory
    <3>. HIDE DEF OfP
    <3>1. /\ inventory[p].available + Sum(reservations, OfP(p)) \in Nat
          /\ inventory[p].reserved - Sum(reservations, OfP(p)) \in Nat
      BY <1>1, <2>1 DEF InventoryRow
    <3>. QED
      BY <2>1, <3>1, InventoryUpdate
  <2>3. inventory' = [p \in DOMAIN inventory |->
          [inventory[p] EXCEPT !.available = @ + Sum(reservations, OfP(p)),
                               !.reserved = @ - Sum(reservations, OfP(p))]]
    BY <1>0 DEF Release
  <2>. HIDE DEF OfP
  <2>. QED
    BY <1>0, <2>2, <2>3 DEF TablesTypeOK, IsTable
<1>4. IsTable(flash_sales', Sales, SaleRow) /\ DOMAIN flash_sales' = DOMAIN flash_sales
  <2>1. \A s \in DOMAIN flash_sales : flash_sales[s] \in SaleRow
    BY <1>0 DEF TablesTypeOK, IsTable
  <2>2. \A s \in DOMAIN flash_sales :
          [flash_sales[s] EXCEPT !.remaining_stock = @ + Sum(reservations, OfS(s))] \in SaleRow
    BY <1>2, <2>1 DEF SaleRow
  <2>3. flash_sales' = [s \in DOMAIN flash_sales |->
          [flash_sales[s] EXCEPT !.remaining_stock = @ + Sum(reservations, OfS(s))]]
    BY <1>0 DEF Release
  <2>. HIDE DEF OfS
  <2>. QED
    BY <1>0, <2>2, <2>3 DEF TablesTypeOK, IsTable
<1>5. /\ IsTable(reservations', ReservationIDs, ReservationRow)
      /\ DOMAIN reservations' = DOMAIN reservations
      /\ \A r \in DOMAIN reservations : reservations'[r].sale_id = reservations[r].sale_id
  <2>1. \A r \in DOMAIN reservations : reservations[r] \in ReservationRow
    BY <1>0 DEF TablesTypeOK, IsTable
  <2>2. \A r \in DOMAIN reservations :
          /\ [reservations[r] EXCEPT !.state = state] \in ReservationRow
          /\ [reservations[r] EXCEPT !.state = state].sale_id = reservations[r].sale_id
    BY <2>1 DEF ReservationRow, ReservationStates
  <2>3. reservations' = [r \in DOMAIN reservations |->
          IF r \in S THEN [reservations[r] EXCEPT !.state = state] ELSE reservations[r]]
    BY <1>0 DEF Release
  <2>. QED
    BY <1>0, <2>1, <2>2, <2>3 DEF TablesTypeOK, IsTable
<1>6. IsTable(orders', ReservationIDs, OrderStates) /\ DOMAIN orders' = DOMAIN orders
  BY <1>0 DEF Release, TablesTypeOK, IsTable, ReservationStates, OrderStates
<1>7. UNCHANGED <<clock, products, payments, idempotency_keys>>
  BY <1>0 DEF Release
<1>. QED
  BY <1>0, <1>3, <1>4, <1>5, <1>6, <1>7 DEF TablesTypeOK

(***************************************************************************)
(* Every transaction leaves rows of the schema, with no counter below zero *)
(* and no foreign key dangling.                                            *)
(***************************************************************************)
LEMMA StepType ==
  ASSUME TablesTypeOK, InventoryReconciled, [Next]_ledgerVars
  PROVE  TablesTypeOK'
<1>. USE SchemaAssumption
<1>0. TablesTypeOK /\ InventoryReconciled
  OBVIOUS
<1>1. CASE Tick
  BY <1>0, <1>1 DEF Tick, tables, TablesTypeOK
<1>2. ASSUME NEW p \in Products, NEW active \in BOOLEAN, CreateProduct(p, active)
      PROVE  TablesTypeOK'
  BY <1>0, <1>2 DEF CreateProduct, TablesTypeOK, IsTable, Insert, ProductRow, InventoryRow
<1>3. ASSUME NEW p \in Products, NEW active \in BOOLEAN, UpdateProduct(p, active)
      PROVE  TablesTypeOK'
  BY <1>0, <1>3 DEF UpdateProduct, TablesTypeOK, IsTable, ProductRow
<1>4. ASSUME NEW p \in Products, NEW active \in BOOLEAN, NEW n \in StockLevels,
             UpdateInventory(p, active, n)
      PROVE  TablesTypeOK'
  <2>1. n \in Nat /\ p \in DOMAIN inventory /\ inventory[p] \in InventoryRow
    BY <1>0, <1>4 DEF UpdateInventory, TablesTypeOK, IsTable
  <2>2. [inventory[p] EXCEPT !.available = n,
                             !.expected_total = n + inventory[p].reserved + inventory[p].sold]
          \in InventoryRow
    <3>1. n + inventory[p].reserved + inventory[p].sold \in Nat
      BY <2>1 DEF InventoryRow
    <3>. QED
      BY <2>1, <3>1, InventoryUpdate
  <2>3. IsTable(inventory', Products, InventoryRow) /\ DOMAIN inventory' = DOMAIN inventory
    BY <1>0, <1>4, <2>1, <2>2 DEF UpdateInventory, TablesTypeOK, IsTable
  <2>4. IsTable(products', Products, ProductRow) /\ DOMAIN products' = DOMAIN products
    BY <1>0, <1>4 DEF UpdateInventory, TablesTypeOK, IsTable, ProductRow
  <2>5. UNCHANGED <<clock, flash_sales, reservations, orders, payments, idempotency_keys>>
    BY <1>4 DEF UpdateInventory
  <2>. QED
    BY <1>0, <2>3, <2>4, <2>5 DEF TablesTypeOK
<1>5. ASSUME NEW s \in Sales, CreateSale(s)
      PROVE  TablesTypeOK'
  BY <1>0, <1>5 DEF CreateSale, TablesTypeOK, IsTable, Insert, SaleRow, SaleStates
<1>6. ASSUME NEW s \in Sales, NEW state \in {"active", "ended", "cancelled"},
             SetSaleState(s, state)
      PROVE  TablesTypeOK'
  BY <1>0, <1>6 DEF SetSaleState, TablesTypeOK, IsTable, SaleRow, SaleStates
<1>7. ASSUME NEW k \in Keys, NEW req \in Request, NEW r \in ReservationIDs, Grant(k, req, r)
      PROVE  TablesTypeOK'
  <2> DEFINE s == req.sale_id
             p == ProductOf[s]
             q == req.quantity
  <2>1. /\ s \in DOMAIN flash_sales /\ p \in DOMAIN inventory /\ s \in Sales
        /\ req.spelling \in Spellings /\ req.user_id \in Users /\ q \in 1..MaxQuantity /\ q \in Nat
        /\ flash_sales[s] \in SaleRow /\ inventory[p] \in InventoryRow
        /\ q <= flash_sales[s].remaining_stock /\ q <= inventory[p].available
    BY <1>0, <1>7 DEF Grant, TablesTypeOK, IsTable, Request, SaleRow, InventoryRow
  <2>2. [flash_sales[s] EXCEPT !.remaining_stock = @ - q] \in SaleRow
    BY <2>1 DEF SaleRow
  <2>3. IsTable(flash_sales', Sales, SaleRow) /\ DOMAIN flash_sales' = DOMAIN flash_sales
    BY <1>0, <1>7, <2>1, <2>2 DEF Grant, TablesTypeOK, IsTable
  <2>4. [inventory[p] EXCEPT !.available = @ - q, !.reserved = @ + q] \in InventoryRow
    <3>1. inventory[p].available - q \in Nat /\ inventory[p].reserved + q \in Nat
      BY <2>1 DEF InventoryRow
    <3>. QED
      BY <2>1, <3>1, InventoryUpdate
  <2>5. IsTable(inventory', Products, InventoryRow) /\ DOMAIN inventory' = DOMAIN inventory
    BY <1>0, <1>7, <2>1, <2>4 DEF Grant, TablesTypeOK, IsTable
  <2>6. PICK now \in StartsAt[s]..clock :
          reservations' = Insert(reservations, r,
            [sale_id |-> s, spelling |-> req.spelling, user_id |-> req.user_id, quantity |-> q,
             state |-> "pending", expires_at |-> now + TTL])
    BY <1>7 DEF Grant
  <2>7. now + TTL \in Nat
    BY <1>0, <2>1 DEF TablesTypeOK
  <2>8. [sale_id |-> s, spelling |-> req.spelling, user_id |-> req.user_id, quantity |-> q,
         state |-> "pending", expires_at |-> now + TTL] \in ReservationRow
    BY <2>1, <2>7 DEF ReservationRow, ReservationStates
  <2>9. /\ IsTable(reservations', ReservationIDs, ReservationRow)
        /\ DOMAIN reservations' = DOMAIN reservations \cup {r}
        /\ \A i \in DOMAIN reservations' : reservations'[i].sale_id \in DOMAIN flash_sales
    BY <1>0, <2>1, <2>6, <2>8 DEF TablesTypeOK, IsTable, Insert
  <2>10. /\ IsTable(orders', ReservationIDs, OrderStates)
         /\ DOMAIN orders' = DOMAIN orders \cup {r}
    BY <1>0, <1>7 DEF Grant, TablesTypeOK, IsTable, Insert, OrderStates, ReservationStates
  <2>11. [request |-> req, code |-> "CREATED", resource_id |-> r] \in KeyRow
    BY DEF KeyRow, ResponseCodes
  <2>12. IsTable(idempotency_keys', Keys, KeyRow)
    BY <1>0, <1>7, <2>11 DEF Grant, TablesTypeOK, IsTable, Insert
  <2>13. UNCHANGED <<clock, products, payments>>
    BY <1>7 DEF Grant
  <2>. QED
    BY <1>0, <2>3, <2>5, <2>9, <2>10, <2>12, <2>13 DEF TablesTypeOK
<1>8. ASSUME NEW k \in Keys, NEW req \in Request, NEW code \in ErrorCodes, Refuse(k, req, code)
      PROVE  TablesTypeOK'
  BY <1>0, <1>8 DEF Refuse, TablesTypeOK, IsTable, Insert, KeyRow, ResponseCodes
<1>9. ASSUME NEW k \in Keys, NEW req \in Request, RefuseShort(k, req)
      PROVE  TablesTypeOK'
  <2> DEFINE s == req.sale_id
             q == req.quantity
  <2>1. /\ s \in DOMAIN flash_sales /\ q \in Nat /\ flash_sales[s] \in SaleRow
        /\ q <= flash_sales[s].remaining_stock
    BY <1>0, <1>9 DEF RefuseShort, TablesTypeOK, IsTable, Request, SaleRow
  <2>2. [flash_sales[s] EXCEPT !.remaining_stock = @ - q] \in SaleRow
    BY <2>1 DEF SaleRow
  <2>3. IsTable(flash_sales', Sales, SaleRow) /\ DOMAIN flash_sales' = DOMAIN flash_sales
    BY <1>0, <1>9, <2>1, <2>2 DEF RefuseShort, TablesTypeOK, IsTable
  <2>4. [request |-> req, code |-> "INVENTORY_SOLD_OUT", resource_id |-> NULL] \in KeyRow
    BY DEF KeyRow, ResponseCodes, ErrorCodes
  <2>5. IsTable(idempotency_keys', Keys, KeyRow)
    BY <1>0, <1>9, <2>4 DEF RefuseShort, TablesTypeOK, IsTable, Insert
  <2>6. UNCHANGED <<clock, products, inventory, reservations, orders, payments>>
    BY <1>9 DEF RefuseShort
  <2>. QED
    BY <1>0, <2>3, <2>5, <2>6 DEF TablesTypeOK
<1>10. ASSUME NEW r \in ReservationIDs, Confirm(r)
       PROVE  TablesTypeOK'
  <2>1. /\ IsTable(reservations', ReservationIDs, ReservationRow)
        /\ DOMAIN reservations' = DOMAIN reservations
        /\ \A i \in DOMAIN reservations : reservations'[i].sale_id = reservations[i].sale_id
    BY <1>0, <1>10, SMTT(30) DEF Confirm, TablesTypeOK, IsTable, ReservationRow, ReservationStates
  <2>2. IsTable(orders', ReservationIDs, OrderStates) /\ DOMAIN orders' = DOMAIN orders
    BY <1>0, <1>10 DEF Confirm, TablesTypeOK, IsTable, OrderStates, ReservationStates
  <2>3. UNCHANGED <<clock, products, inventory, flash_sales, payments, idempotency_keys>>
    BY <1>10 DEF Confirm
  <2>. QED
    BY <1>0, <2>1, <2>2, <2>3 DEF TablesTypeOK
<1>12. ASSUME NEW k \in PaymentKeys, NEW r \in ReservationIDs, Charge(k, r)
       PROVE  TablesTypeOK'
  <2> DEFINE p == ProductOf[reservations[r].sale_id]
             q == reservations[r].quantity
  <2>1. r \in DOMAIN reservations /\ p \in DOMAIN inventory /\ q \in 1..MaxQuantity
    BY <1>0, <1>12 DEF Charge, TablesTypeOK, IsTable, ReservationRow
  <2>2. {r} \subseteq OfProduct(reservations, p, Holding)
    BY <1>12, <2>1 DEF Charge, OfProduct, Holding
  <2>3. q <= inventory[p].reserved
    BY <1>0, <2>1, <2>2, HeldIsReserved, SumOne, ZenonT(30)
  <2>4. IsTable(inventory', Products, InventoryRow) /\ DOMAIN inventory' = DOMAIN inventory
    <3>1. \A x \in DOMAIN inventory : inventory[x] \in InventoryRow
      BY <1>0 DEF TablesTypeOK, IsTable
    <3>2. inventory' = [inventory EXCEPT ![p].reserved = @ - q, ![p].sold = @ + q]
      BY <1>12 DEF Charge
    <3>3. inventory[p].reserved - q \in Nat /\ inventory[p].sold + q \in Nat
      BY <2>1, <2>3, <3>1, SchemaAssumption DEF InventoryRow
    <3>. HIDE DEF p, q
    <3>4. inventory'[p] = [inventory[p] EXCEPT !.reserved = @ - q, !.sold = @ + q]
      BY <2>1, <3>1, <3>2 DEF InventoryRow
    <3>5. inventory'[p] \in InventoryRow
      BY <2>1, <3>1, <3>3, <3>4 DEF InventoryRow
    <3>6. inventory' = [x \in DOMAIN inventory |->
                          IF x = p THEN inventory'[p] ELSE inventory[x]]
      BY <2>1, <3>2
    <3>7. DOMAIN inventory' = DOMAIN inventory
      BY <3>2
    <3>8. inventory' \in [DOMAIN inventory -> InventoryRow]
      BY <3>1, <3>5, <3>6, Zenon
    <3>. QED
      BY <1>0, <3>7, <3>8 DEF TablesTypeOK, IsTable
  <2>5. /\ IsTable(reservations', ReservationIDs, ReservationRow)
        /\ DOMAIN reservations' = DOMAIN reservations
        /\ \A i \in DOMAIN reservations : reservations'[i].sale_id = reservations[i].sale_id
    BY <1>0, <1>12, SMTT(30) DEF Charge, TablesTypeOK, IsTable, ReservationRow, ReservationStates
  <2>6. IsTable(orders', ReservationIDs, OrderStates) /\ DOMAIN orders' = DOMAIN orders
    BY <1>0, <1>12 DEF Charge, TablesTypeOK, IsTable, ReservationStates, OrderStates
  <2>7. /\ IsTable(payments', PaymentKeys, PaymentRow)
        /\ \A i \in DOMAIN payments' : payments'[i].order_id \in DOMAIN orders
    BY <1>0, <1>12
    DEF Charge, RecordPayment, TablesTypeOK, IsTable, Insert, PaymentRow, Outcomes,
        PaymentStatuses
  <2>8. UNCHANGED <<clock, products, flash_sales, idempotency_keys>>
    BY <1>12 DEF Charge
  <2>. QED
    BY <1>0, <2>4, <2>5, <2>6, <2>7, <2>8 DEF TablesTypeOK
<1>13. ASSUME NEW k \in PaymentKeys, NEW r \in ReservationIDs, Decline(k, r)
       PROVE  TablesTypeOK'
  BY <1>0, <1>13
  DEF Decline, RecordPayment, TablesTypeOK, IsTable, Insert, PaymentRow, Outcomes,
      PaymentStatuses, OrderStates
<1>14. ASSUME NEW k \in PaymentKeys, NEW r \in ReservationIDs, Delay(k, r)
       PROVE  TablesTypeOK'
  BY <1>0, <1>14
  DEF Delay, RecordPayment, TablesTypeOK, IsTable, Insert, PaymentRow, Outcomes,
      PaymentStatuses
<1>15. CASE UNCHANGED ledgerVars
  BY <1>0, <1>15 DEF ledgerVars, tables, TablesTypeOK
<1>16. ASSUME NEW r \in ReservationIDs, Cancel(r)
       PROVE  TablesTypeOK'
  BY <1>0, <1>16, ReleaseType DEF Cancel
<1>17. ASSUME NEW S \in SUBSET DOMAIN reservations, Expire(S)
       PROVE  TablesTypeOK'
  BY <1>0, <1>17, ReleaseType DEF Expire
<1>. QED
  BY <1>1, <1>2, <1>3, <1>4, <1>5, <1>6, <1>7, <1>8, <1>9, <1>10, <1>12, <1>13, <1>14,
     <1>15, <1>16, <1>17 DEF Next

-----------------------------------------------------------------------------
(***************************************************************************)
(* What the transactions do to the reservations table: Grant adds a row,   *)
(* the others change states only, and sums over old rows stay what they    *)
(* were.                                                                   *)
(***************************************************************************)
SameRows(u) ==
  /\ DOMAIN u = DOMAIN reservations
  /\ \A r \in DOMAIN reservations :
       /\ u[r].sale_id = reservations[r].sale_id
       /\ u[r].spelling = reservations[r].spelling
       /\ u[r].user_id = reservations[r].user_id
       /\ u[r].quantity = reservations[r].quantity

\* Confirm, Charge and Release update nothing but states.
LEMMA StateUpdates ==
  ASSUME TablesTypeOK
  PROVE  /\ \A r : Confirm(r) =>
              /\ SameRows(reservations')
              /\ \A i \in DOMAIN reservations :
                   reservations'[i].state = IF i = r THEN "confirmed" ELSE reservations[i].state
         /\ \A k, r : Charge(k, r) =>
              /\ SameRows(reservations')
              /\ \A i \in DOMAIN reservations :
                   reservations'[i].state = IF i = r THEN "paid" ELSE reservations[i].state
         /\ \A S, state : Release(S, state) =>
              /\ SameRows(reservations')
              /\ \A i \in DOMAIN reservations :
                   reservations'[i].state = IF i \in S THEN state ELSE reservations[i].state
<1>1. \A i \in DOMAIN reservations : reservations[i] \in ReservationRow
  BY DEF TablesTypeOK, IsTable
<1>2. ASSUME NEW r, Confirm(r)
      PROVE  /\ SameRows(reservations')
             /\ \A i \in DOMAIN reservations :
                  reservations'[i].state = IF i = r THEN "confirmed" ELSE reservations[i].state
  BY <1>1, <1>2 DEF Confirm, SameRows, ReservationRow
<1>3. ASSUME NEW k, NEW r, Charge(k, r)
      PROVE  /\ SameRows(reservations')
             /\ \A i \in DOMAIN reservations :
                  reservations'[i].state = IF i = r THEN "paid" ELSE reservations[i].state
  BY <1>1, <1>3 DEF Charge, SameRows, ReservationRow, TablesTypeOK
<1>4. ASSUME NEW S, NEW state, Release(S, state)
      PROVE  /\ SameRows(reservations')
             /\ \A i \in DOMAIN reservations :
                  reservations'[i].state = IF i \in S THEN state ELSE reservations[i].state
  BY <1>1, <1>4 DEF Release, SameRows, ReservationRow
<1>. QED
  BY <1>2, <1>3, <1>4

\* What Grant does: it adds its row and leaves the old ones untouched.
AddedRow(req, r) ==
  /\ DOMAIN reservations' = DOMAIN reservations \cup {r}
  /\ r \notin DOMAIN reservations
  /\ reservations'[r].sale_id = req.sale_id
  /\ reservations'[r].spelling = req.spelling
  /\ reservations'[r].user_id = req.user_id
  /\ reservations'[r].quantity = req.quantity
  /\ reservations'[r].state = "pending"
  /\ \A i \in DOMAIN reservations : reservations'[i] = reservations[i]

\* Sums over rows that were there before do not change.
LEMMA SumKept ==
  ASSUME NEW S, S \subseteq DOMAIN reservations,
         \/ SameRows(reservations')
         \/ \A i \in DOMAIN reservations : reservations'[i] = reservations[i]
  PROVE  Sum(reservations', S) = Sum(reservations, S)
<1>1. \A i \in S : reservations'[i].quantity = reservations[i].quantity
  BY DEF SameRows
<1>. QED
  BY <1>1, SumAgree

\* Confirming and charging leave the active reservations active.
SameActive ==
  /\ SameRows(reservations')
  /\ flash_sales' = flash_sales
  /\ \A i \in DOMAIN reservations :
       (reservations'[i].state \in Active) <=> (reservations[i].state \in Active)

LEMMA ActiveKept ==
  ASSUME TablesTypeOK, NEW r \in ReservationIDs,
         Confirm(r) \/ \E k \in PaymentKeys : Charge(k, r)
  PROVE  SameActive
<1>1. CASE Confirm(r)
  BY <1>1, StateUpdates DEF Confirm, SameActive, Active
<1>2. ASSUME NEW k \in PaymentKeys, Charge(k, r)
      PROVE  SameActive
  BY <1>2, StateUpdates, ZenonT(30) DEF Charge, SameActive, Active
<1>. QED
  BY <1>1, <1>2

-----------------------------------------------------------------------------
\* What is given back moves from reserved to available.
LEMMA ReleaseReconciled ==
  ASSUME TablesTypeOK, InventoryReconciled,
         NEW S, NEW state \in {"cancelled", "expired"}, Release(S, state),
         \A r \in S : reservations[r].state = "pending"
  PROVE  InventoryReconciled'
<1>. USE SchemaAssumption
<1>0. /\ TablesTypeOK /\ InventoryReconciled /\ Release(S, state)
      /\ \A r \in S : reservations[r].state = "pending"
  OBVIOUS
<1> DEFINE H(p) == OfProduct(reservations, p, Holding)
           P(p) == OfProduct(reservations, p, {"paid"})
<1>a. \A p : /\ H(p) \subseteq DOMAIN reservations /\ IsFiniteSet(H(p))
             /\ P(p) \subseteq DOMAIN reservations /\ IsFiniteSet(P(p))
  <2>1. \A p : H(p) \subseteq DOMAIN reservations /\ P(p) \subseteq DOMAIN reservations
    BY DEF OfProduct
  <2>. QED
    BY <1>0, <2>1, RowsFinite
<1>b. \A p \in DOMAIN inventory : inventory[p] \in InventoryRow
  BY <1>0 DEF TablesTypeOK, IsTable
<1> DEFINE R(x) == {r \in S : ProductOf[reservations[r].sale_id] = x}
<1>1. /\ SameRows(reservations')
      /\ \A i \in DOMAIN reservations :
           reservations'[i].state = IF i \in S THEN state ELSE reservations[i].state
  BY <1>0, StateUpdates
<1>2. \A x : /\ OfProduct(reservations', x, Holding) = H(x) \ R(x)
             /\ OfProduct(reservations', x, {"paid"}) = P(x)
             /\ R(x) \subseteq H(x)
  <2>1. /\ S \subseteq DOMAIN reservations /\ DOMAIN reservations' = DOMAIN reservations
        /\ \A i \in DOMAIN reservations : reservations'[i].sale_id = reservations[i].sale_id
    BY <1>0, <1>1 DEF Release, SameRows
  <2>2. \A i \in DOMAIN reservations :
          /\ reservations'[i].state \in Holding <=>
               reservations[i].state \in Holding /\ i \notin S
          /\ reservations'[i].state = "paid" <=> reservations[i].state = "paid"
    BY <1>0, <1>1 DEF Holding
  <2>3. \A i \in S : reservations[i].state \in Holding
    BY <1>0 DEF Holding
  <2>4. \A x : OfProduct(reservations', x, Holding) = H(x) \ R(x)
    BY <2>1, <2>2 DEF OfProduct
  <2>5. \A x : OfProduct(reservations', x, {"paid"}) = P(x)
    BY <2>1, <2>2 DEF OfProduct
  <2>6. \A x : R(x) \subseteq H(x)
    BY <2>1, <2>3 DEF OfProduct
  <2>. QED
    BY <2>4, <2>5, <2>6
<1>3. \A x : /\ Sum(reservations', H(x) \ R(x)) = Sum(reservations, H(x) \ R(x))
             /\ Sum(reservations', P(x)) = Sum(reservations, P(x))
  <2>1. \A x : H(x) \ R(x) \subseteq DOMAIN reservations
    BY <1>a
  <2>. QED
    BY <1>a, <1>1, <2>1, SumKept
<1>4. \A x : /\ Sum(reservations, H(x) \ R(x)) = Sum(reservations, H(x)) - Sum(reservations, R(x))
             /\ Sum(reservations, R(x)) \in Nat
  <2>1. \A x : IsFiniteSet(R(x))
    BY <1>a, <1>2, FS_Subset
  <2>2. \A x : IsFiniteSet(H(x)) /\ R(x) \subseteq H(x) /\ H(x) \subseteq DOMAIN reservations
    BY <1>a, <1>2
  <2>. HIDE DEF H, R
  <2>3. \A x : Sum(reservations, R(x)) \in Nat
    BY <1>a, <2>1, <2>2, SumType
  <2>4. \A x : Sum(reservations, H(x) \ R(x)) = Sum(reservations, H(x)) - Sum(reservations, R(x))
    BY <1>a, <2>2, SumMinus
  <2>. QED
    BY <2>3, <2>4
<1>5. /\ DOMAIN inventory' = DOMAIN inventory
      /\ \A x \in DOMAIN inventory :
           /\ inventory'[x].available = inventory[x].available + Sum(reservations, R(x))
           /\ inventory'[x].reserved = inventory[x].reserved - Sum(reservations, R(x))
           /\ inventory'[x].sold = inventory[x].sold
           /\ inventory'[x].expected_total = inventory[x].expected_total
  <2>1. inventory' = [x \in DOMAIN inventory |->
          [inventory[x] EXCEPT !.available = @ + Sum(reservations, R(x)),
                               !.reserved = @ - Sum(reservations, R(x))]]
    BY <1>0 DEF Release
  <2>. HIDE DEF R
  <2>. QED
    BY <1>b, <2>1 DEF InventoryRow
<1>. HIDE DEF H, P, R
<1>. QED
  BY <1>0, <1>b, <1>2, <1>3, <1>4, <1>5 DEF InventoryReconciled, InventoryRow, H, P

(***************************************************************************)
(* Reconciliation is preserved: each transaction moves in the inventory    *)
(* exactly the units of the reservations whose state it changes.           *)
(***************************************************************************)
LEMMA StepReconciled ==
  ASSUME TablesTypeOK, InventoryReconciled, [Next]_ledgerVars
  PROVE  InventoryReconciled'
<1>. USE SchemaAssumption
<1>0. TablesTypeOK /\ InventoryReconciled
  OBVIOUS
<1> DEFINE H(p) == OfProduct(reservations, p, Holding)
           P(p) == OfProduct(reservations, p, {"paid"})
<1>a. \A p : /\ H(p) \subseteq DOMAIN reservations /\ IsFiniteSet(H(p))
             /\ P(p) \subseteq DOMAIN reservations /\ IsFiniteSet(P(p))
  <2>1. \A p : H(p) \subseteq DOMAIN reservations /\ P(p) \subseteq DOMAIN reservations
    BY DEF OfProduct
  <2>. QED
    BY <1>0, <2>1, RowsFinite
<1>b. \A p \in DOMAIN inventory : inventory[p] \in InventoryRow
  BY <1>0 DEF TablesTypeOK, IsTable
<1>1. CASE UNCHANGED <<inventory, reservations>>
  BY <1>0, <1>1 DEF InventoryReconciled
<1>2. ASSUME NEW p \in Products, NEW active \in BOOLEAN, CreateProduct(p, active)
      PROVE  InventoryReconciled'
  <2>1. H(p) = {} /\ P(p) = {}
    BY <1>0, <1>2 DEF CreateProduct, OfProduct, TablesTypeOK
  <2>2. Sum(reservations, H(p)) = 0 /\ Sum(reservations, P(p)) = 0
    BY <2>1, SumEmpty
  <2>3. /\ DOMAIN inventory' = DOMAIN inventory \cup {p}
        /\ inventory'[p].available = Stock[p] /\ inventory'[p].expected_total = Stock[p]
        /\ inventory'[p].reserved = 0 /\ inventory'[p].sold = 0
        /\ \A x \in DOMAIN inventory : inventory'[x] = inventory[x]
        /\ reservations' = reservations
        /\ Stock[p] \in Nat
    BY <1>0, <1>2 DEF CreateProduct, Insert, TablesTypeOK
  <2>. QED
    BY <1>0, <2>2, <2>3 DEF InventoryReconciled
<1>3. ASSUME NEW p \in Products, NEW active \in BOOLEAN, NEW n \in StockLevels,
             UpdateInventory(p, active, n)
      PROVE  InventoryReconciled'
  BY <1>0, <1>3, <1>b DEF UpdateInventory, InventoryReconciled, InventoryRow
<1>4. ASSUME NEW k \in Keys, NEW req \in Request, NEW r \in ReservationIDs, Grant(k, req, r)
      PROVE  InventoryReconciled'
  <2> DEFINE p0 == ProductOf[req.sale_id]
             q == req.quantity
  <2>1. /\ p0 \in DOMAIN inventory /\ q \in 1..MaxQuantity /\ q \in Nat
        /\ DOMAIN inventory' = DOMAIN inventory
        /\ \A x \in DOMAIN inventory :
             /\ inventory'[x].available = inventory[x].available - (IF x = p0 THEN q ELSE 0)
             /\ inventory'[x].reserved = inventory[x].reserved + (IF x = p0 THEN q ELSE 0)
             /\ inventory'[x].sold = inventory[x].sold
             /\ inventory'[x].expected_total = inventory[x].expected_total
    <3>1. inventory' = [inventory EXCEPT ![p0].available = @ - q, ![p0].reserved = @ + q]
      BY <1>4 DEF Grant
    <3>2. p0 \in DOMAIN inventory
      BY <1>0, <1>4 DEF Grant, TablesTypeOK
    <3>3. q \in 1..MaxQuantity /\ q \in Nat
      BY <1>4 DEF Request
    <3>4. DOMAIN inventory' = DOMAIN inventory
      BY <3>1
    <3>5. ASSUME NEW x \in DOMAIN inventory, x # p0
          PROVE  inventory'[x] = inventory[x] /\ inventory[x] \in InventoryRow
      BY <1>b, <3>1, <3>5
    <3>6. inventory'[p0] = [inventory[p0] EXCEPT !.available = @ - q, !.reserved = @ + q]
      BY <3>1, <3>2
    <3>7. /\ inventory'[p0].available = inventory[p0].available - q
          /\ inventory'[p0].reserved = inventory[p0].reserved + q
          /\ inventory'[p0].sold = inventory[p0].sold
          /\ inventory'[p0].expected_total = inventory[p0].expected_total
      BY <1>b, <3>2, <3>6 DEF InventoryRow
    <3>8. ASSUME NEW x \in DOMAIN inventory
          PROVE  /\ inventory'[x].available = inventory[x].available - (IF x = p0 THEN q ELSE 0)
                 /\ inventory'[x].reserved = inventory[x].reserved + (IF x = p0 THEN q ELSE 0)
                 /\ inventory'[x].sold = inventory[x].sold
                 /\ inventory'[x].expected_total = inventory[x].expected_total
      BY <1>b, <3>5, <3>7 DEF InventoryRow
    <3>. QED
      BY <3>2, <3>3, <3>4, <3>8
  <2>2. /\ AddedRow(req, r)
        /\ \A i \in DOMAIN reservations : reservations'[i] = reservations[i]
    BY <1>4 DEF Grant, Insert, AddedRow
  <2>3. \A x : /\ OfProduct(reservations', x, Holding) = H(x) \cup (IF x = p0 THEN {r} ELSE {})
               /\ OfProduct(reservations', x, {"paid"}) = P(x)
    BY <2>2 DEF AddedRow, OfProduct, Holding
  <2>4. \A x : /\ Sum(reservations', H(x)) = Sum(reservations, H(x))
               /\ Sum(reservations', P(x)) = Sum(reservations, P(x))
    BY <1>a, <2>2, SumKept
  <2>5. Sum(reservations', H(p0) \cup {r}) = Sum(reservations', H(p0)) + q
    <3>1. r \notin H(p0)
      BY <2>2 DEF AddedRow, OfProduct
    <3>2. IsFiniteSet(H(p0)) /\ reservations'[r].quantity \in 1..MaxQuantity
      BY <1>a, <2>1, <2>2 DEF AddedRow
    <3>3. Sum(reservations', H(p0) \cup {r}) = Sum(reservations', H(p0)) + reservations'[r].quantity
      BY <3>1, <3>2, SumAdd, Zenon
    <3>. QED
      BY <2>2, <3>3 DEF AddedRow
  <2>6. \A x \in DOMAIN inventory :
          /\ Sum(reservations', OfProduct(reservations', x, Holding)) =
               Sum(reservations, H(x)) + (IF x = p0 THEN q ELSE 0)
          /\ Sum(reservations', OfProduct(reservations', x, {"paid"})) = Sum(reservations, P(x))
    <3>. TAKE x \in DOMAIN inventory
    <3>1. Sum(reservations, H(x)) \in Nat
      BY <1>a, SumType
    <3>2. CASE x = p0
      BY <2>3, <2>4, <2>5, <3>2, Zenon
    <3>3. CASE x # p0
      <4>1. OfProduct(reservations', x, Holding) = H(x)
        BY <2>3, <3>3
      <4>. QED
        BY <2>3, <2>4, <3>1, <3>3, <4>1
    <3>. QED
      BY <3>2, <3>3
  <2>. HIDE DEF H, P, p0, q
  <2>. QED
    BY <1>0, <1>b, <2>1, <2>6 DEF InventoryReconciled, InventoryRow, H, P
<1>5. ASSUME NEW r \in ReservationIDs, Confirm(r)
      PROVE  InventoryReconciled'
  <2>1. /\ SameRows(reservations')
        /\ \A i \in DOMAIN reservations :
             reservations'[i].state = IF i = r THEN "confirmed" ELSE reservations[i].state
    BY <1>0, <1>5, StateUpdates
  <2>2. \A x : /\ OfProduct(reservations', x, Holding) = H(x)
               /\ OfProduct(reservations', x, {"paid"}) = P(x)
    BY <1>5, <2>1 DEF Confirm, OfProduct, Holding, SameRows
  <2>3. \A x : /\ Sum(reservations', H(x)) = Sum(reservations, H(x))
               /\ Sum(reservations', P(x)) = Sum(reservations, P(x))
    BY <1>a, <2>1, SumKept
  <2>4. inventory' = inventory
    BY <1>5 DEF Confirm
  <2>. HIDE DEF H, P
  <2>. QED
    BY <1>0, <2>2, <2>3, <2>4 DEF InventoryReconciled, H, P
<1>7. ASSUME NEW k \in PaymentKeys, NEW r \in ReservationIDs, Charge(k, r)
      PROVE  InventoryReconciled'
  <2> DEFINE p0 == ProductOf[reservations[r].sale_id]
             q == reservations[r].quantity
  <2>1. /\ r \in DOMAIN reservations /\ p0 \in DOMAIN inventory
        /\ q \in 1..MaxQuantity /\ q \in Nat /\ reservations[r].state = "confirmed"
    BY <1>0, <1>7 DEF Charge, TablesTypeOK, IsTable, ReservationRow
  <2>2. /\ SameRows(reservations')
        /\ \A i \in DOMAIN reservations :
             reservations'[i].state = IF i = r THEN "paid" ELSE reservations[i].state
    BY <1>0, <1>7, StateUpdates
  <2>3. /\ OfProduct(reservations', p0, Holding) = H(p0) \ {r}
        /\ OfProduct(reservations', p0, {"paid"}) = P(p0) \cup {r}
        /\ r \in H(p0) /\ r \notin P(p0)
        /\ \A x : x # p0 => /\ OfProduct(reservations', x, Holding) = H(x)
                            /\ OfProduct(reservations', x, {"paid"}) = P(x)
    BY <2>1, <2>2 DEF OfProduct, Holding, SameRows
  <2>4. \A T : T \subseteq DOMAIN reservations =>
          Sum(reservations', T) = Sum(reservations, T)
    BY <2>2, SumKept
  <2>5. Sum(reservations, H(p0) \ {r}) = Sum(reservations, H(p0)) - q
    <3>1. {r} \subseteq H(p0) /\ IsFiniteSet(H(p0))
      BY <1>a, <2>3
    <3>2. Sum(reservations, H(p0) \ {r}) = Sum(reservations, H(p0)) - Sum(reservations, {r})
      BY <3>1, SumMinus
    <3>3. Sum(reservations, {r}) = q
      BY <2>1, SumOne
    <3>. QED
      BY <3>2, <3>3
  <2>6. Sum(reservations, P(p0) \cup {r}) = Sum(reservations, P(p0)) + q
    BY <1>a, <2>1, <2>3, SumAdd
  <2>7. /\ DOMAIN inventory' = DOMAIN inventory
        /\ \A x \in DOMAIN inventory :
             /\ inventory'[x].available = inventory[x].available
             /\ inventory'[x].reserved = inventory[x].reserved - (IF x = p0 THEN q ELSE 0)
             /\ inventory'[x].sold = inventory[x].sold + (IF x = p0 THEN q ELSE 0)
             /\ inventory'[x].expected_total = inventory[x].expected_total
    BY <1>7, <1>b, <2>1 DEF Charge, InventoryRow
  <2>8. /\ Sum(reservations', OfProduct(reservations', p0, Holding)) = Sum(reservations, H(p0)) - q
        /\ Sum(reservations', OfProduct(reservations', p0, {"paid"})) = Sum(reservations, P(p0)) + q
    <3>1. H(p0) \ {r} \subseteq DOMAIN reservations /\ P(p0) \cup {r} \subseteq DOMAIN reservations
      BY <1>a, <2>1
    <3>2. /\ Sum(reservations', H(p0) \ {r}) = Sum(reservations, H(p0) \ {r})
          /\ Sum(reservations', P(p0) \cup {r}) = Sum(reservations, P(p0) \cup {r})
      BY <2>4, <3>1
    <3>. QED
      BY <2>3, <2>5, <2>6, <3>2, Zenon
  <2>9. \A x : x # p0 =>
          /\ Sum(reservations', OfProduct(reservations', x, Holding)) = Sum(reservations, H(x))
          /\ Sum(reservations', OfProduct(reservations', x, {"paid"})) = Sum(reservations, P(x))
    BY <1>a, <2>3, <2>4, Zenon
  <2>. HIDE DEF H, P, p0, q
  <2>. QED
    BY <1>0, <1>b, <2>1, <2>7, <2>8, <2>9 DEF InventoryReconciled, InventoryRow, H, P
<1>8. ASSUME NEW r \in ReservationIDs, Cancel(r)
      PROVE  InventoryReconciled'
  BY <1>0, <1>8, ReleaseReconciled DEF Cancel
<1>9. ASSUME NEW S \in SUBSET DOMAIN reservations, Expire(S)
      PROVE  InventoryReconciled'
  BY <1>0, <1>9, ReleaseReconciled DEF Expire
<1>. QED
  BY <1>1, <1>2, <1>3, <1>4, <1>5, <1>7, <1>8, <1>9
  DEF Next, ledgerVars, tables, Tick, UpdateProduct, CreateSale, SetSaleState, Refuse,
      RefuseShort, Decline, Delay

-----------------------------------------------------------------------------
(***************************************************************************)
(* What a sale has left and what its active reservations took, together: a *)
(* grant takes from remaining_stock what it adds to the reservations, a    *)
(* release gives back what it ends, and only the refusal of a short        *)
(* inventory, which takes and adds nothing, changes the balance.           *)
(***************************************************************************)
Balance(s) ==
  flash_sales[s].remaining_stock + Sum(reservations, OfSale(reservations, s, Active))

BalanceKept ==
  /\ DOMAIN flash_sales \subseteq DOMAIN flash_sales'
  /\ \A s \in DOMAIN flash_sales : Balance(s)' = Balance(s)
  /\ \A s \in DOMAIN flash_sales' \ DOMAIN flash_sales :
       s \in Sales /\ Balance(s)' = Allocated[s]

LEMMA StepBalance ==
  ASSUME TablesTypeOK, [Next]_ledgerVars,
         ~ \E k \in Keys, req \in Request : RefuseShort(k, req)
  PROVE  BalanceKept
<1>. USE SchemaAssumption
<1>0. TablesTypeOK
  OBVIOUS
<1> DEFINE A(s) == OfSale(reservations, s, Active)
<1>a. \A s : A(s) \subseteq DOMAIN reservations /\ IsFiniteSet(A(s))
  <2>1. \A s : A(s) \subseteq DOMAIN reservations
    BY DEF OfSale
  <2>. QED
    BY <1>0, <2>1, RowsFinite
<1>b. \A s : Sum(reservations, A(s)) \in Nat
  BY <1>a, SumType
<1>c. \A s \in DOMAIN flash_sales :
        flash_sales[s] \in SaleRow /\ s \in Sales /\ Allocated[s] \in Nat
  BY <1>0 DEF TablesTypeOK, IsTable
<1>1. CASE UNCHANGED <<flash_sales, reservations>>
  BY <1>1 DEF BalanceKept, Balance
<1>2. ASSUME NEW s \in Sales, CreateSale(s)
      PROVE  BalanceKept
  <2>1. A(s) = {}
    BY <1>0, <1>2 DEF CreateSale, OfSale, TablesTypeOK
  <2>2. Sum(reservations, A(s)) = 0
    BY <2>1, SumEmpty
  <2>3. /\ DOMAIN flash_sales' = DOMAIN flash_sales \cup {s}
        /\ flash_sales'[s].remaining_stock = Allocated[s]
        /\ \A x \in DOMAIN flash_sales : flash_sales'[x] = flash_sales[x]
        /\ reservations' = reservations
        /\ Allocated[s] \in Nat
    BY <1>2 DEF CreateSale, Insert
  <2>. HIDE DEF A
  <2>. QED
    BY <2>2, <2>3 DEF BalanceKept, Balance, A
<1>3. ASSUME NEW s \in Sales, NEW state \in {"active", "ended", "cancelled"},
             SetSaleState(s, state)
      PROVE  BalanceKept
  BY <1>c, <1>3 DEF SetSaleState, BalanceKept, Balance, SaleRow
<1>4. ASSUME NEW k \in Keys, NEW req \in Request, NEW r \in ReservationIDs, Grant(k, req, r)
      PROVE  BalanceKept
  <2> DEFINE s0 == req.sale_id
             q == req.quantity
  <2>1. /\ s0 \in DOMAIN flash_sales /\ q \in 1..MaxQuantity /\ q \in Nat
        /\ DOMAIN flash_sales' = DOMAIN flash_sales
        /\ \A x \in DOMAIN flash_sales :
             flash_sales'[x].remaining_stock =
               flash_sales[x].remaining_stock - (IF x = s0 THEN q ELSE 0)
    BY <1>4, <1>c DEF Grant, Request, SaleRow
  <2>2. /\ AddedRow(req, r)
        /\ \A i \in DOMAIN reservations : reservations'[i] = reservations[i]
    BY <1>4 DEF Grant, Insert, AddedRow
  <2>3. /\ OfSale(reservations', s0, Active) = A(s0) \cup {r}
        /\ \A x : x # s0 => OfSale(reservations', x, Active) = A(x)
        /\ r \notin A(s0)
    BY <2>2 DEF AddedRow, OfSale, Active
  <2>4. \A x : Sum(reservations', A(x)) = Sum(reservations, A(x))
    BY <1>a, <2>2, SumKept
  <2>5. Sum(reservations', A(s0) \cup {r}) = Sum(reservations, A(s0)) + q
    <3>1. IsFiniteSet(A(s0)) /\ reservations'[r].quantity \in 1..MaxQuantity
      BY <1>a, <2>1, <2>2 DEF AddedRow
    <3>2. Sum(reservations', A(s0) \cup {r}) = Sum(reservations', A(s0)) + reservations'[r].quantity
      BY <2>3, <3>1, SumAdd, Zenon
    <3>. QED
      BY <2>2, <2>4, <3>2 DEF AddedRow
  <2>6. /\ Sum(reservations', OfSale(reservations', s0, Active)) = Sum(reservations, A(s0)) + q
        /\ \A x : x # s0 =>
             Sum(reservations', OfSale(reservations', x, Active)) = Sum(reservations, A(x))
    BY <2>3, <2>4, <2>5, Zenon
  <2>. HIDE DEF A, s0, q
  <2>. QED
    BY <1>b, <1>c, <2>1, <2>6 DEF BalanceKept, Balance, SaleRow, A
<1>5. ASSUME NEW r \in ReservationIDs, Confirm(r) \/ \E k \in PaymentKeys : Charge(k, r)
      PROVE  BalanceKept
  <2>1. SameActive /\ SameRows(reservations') /\ flash_sales' = flash_sales
    BY <1>0, <1>5, ActiveKept DEF SameActive
  <2>2. \A x : OfSale(reservations', x, Active) = A(x)
    BY <2>1 DEF OfSale, SameActive, SameRows
  <2>3. \A x : Sum(reservations', A(x)) = Sum(reservations, A(x))
    BY <1>a, <2>1, SumKept
  <2>. HIDE DEF A
  <2>. QED
    BY <2>1, <2>2, <2>3 DEF BalanceKept, Balance, A
<1>6. ASSUME NEW S, NEW state \in {"cancelled", "expired"}, Release(S, state),
             \A r \in S : reservations[r].state = "pending"
      PROVE  BalanceKept
  <2> DEFINE R(x) == {r \in S : reservations[r].sale_id = x}
  <2>1. /\ SameRows(reservations')
        /\ \A i \in DOMAIN reservations :
             reservations'[i].state = IF i \in S THEN state ELSE reservations[i].state
    BY <1>0, <1>6, StateUpdates
  <2>2. \A x : /\ OfSale(reservations', x, Active) = A(x) \ R(x)
               /\ R(x) \subseteq A(x)
    BY <1>6, <2>1, ZenonT(30) DEF Release, OfSale, Active, SameRows
  <2>3. \A x : Sum(reservations', A(x) \ R(x)) = Sum(reservations, A(x) \ R(x))
    <3>1. \A x : A(x) \ R(x) \subseteq DOMAIN reservations
      BY <1>a
    <3>. QED
      BY <2>1, <3>1, SumKept
  <2>4. \A x : /\ Sum(reservations, A(x) \ R(x)) = Sum(reservations, A(x)) - Sum(reservations, R(x))
               /\ Sum(reservations, R(x)) \in Nat
    <3>1. \A x : IsFiniteSet(R(x))
      BY <1>a, <2>2, FS_Subset
    <3>2. \A x : IsFiniteSet(A(x)) /\ R(x) \subseteq A(x) /\ A(x) \subseteq DOMAIN reservations
      BY <1>a, <2>2
    <3>. HIDE DEF A, R
    <3>3. \A x : Sum(reservations, R(x)) \in Nat
      BY <1>a, <3>1, <3>2, SumType
    <3>4. \A x : Sum(reservations, A(x) \ R(x)) = Sum(reservations, A(x)) - Sum(reservations, R(x))
      BY <1>a, <3>2, SumMinus
    <3>. QED
      BY <3>3, <3>4
  <2>5. /\ DOMAIN flash_sales' = DOMAIN flash_sales
        /\ \A x \in DOMAIN flash_sales :
             flash_sales'[x].remaining_stock =
               flash_sales[x].remaining_stock + Sum(reservations, R(x))
    <3>1. flash_sales' = [x \in DOMAIN flash_sales |->
            [flash_sales[x] EXCEPT !.remaining_stock = @ + Sum(reservations, R(x))]]
      BY <1>6 DEF Release
    <3>. HIDE DEF R
    <3>. QED
      BY <1>c, <3>1 DEF SaleRow
  <2>. HIDE DEF A, R
  <2>. QED
    BY <1>b, <1>c, <2>2, <2>3, <2>4, <2>5 DEF BalanceKept, Balance, SaleRow, A
<1>7. ASSUME NEW r \in ReservationIDs, Cancel(r)
      PROVE  BalanceKept
  BY <1>6, <1>7 DEF Cancel
<1>8. ASSUME NEW S \in SUBSET DOMAIN reservations, Expire(S)
      PROVE  BalanceKept
  BY <1>6, <1>8 DEF Expire
<1>. QED
  BY <1>1, <1>2, <1>3, <1>4, <1>5, <1>7, <1>8
  DEF Next, ledgerVars, tables, Tick, CreateProduct, UpdateProduct, UpdateInventory, Refuse,
      Decline, Delay

\* No sale is oversold: the balance never grows, for a short inventory only
\* ever takes.
LEMMA StepNotOversold ==
  ASSUME TablesTypeOK, SaleNotOversold, [Next]_ledgerVars
  PROVE  SaleNotOversold'
<1>. USE SchemaAssumption
<1>1. \A s \in DOMAIN flash_sales : flash_sales[s] \in SaleRow /\ Allocated[s] \in Nat
  BY DEF TablesTypeOK, IsTable
<1>2. \A s : Sum(reservations, OfSale(reservations, s, Active)) \in Nat
  <2>1. \A s : OfSale(reservations, s, Active) \subseteq DOMAIN reservations
    BY DEF OfSale
  <2>. QED
    BY <2>1, RowsFinite, SumType
<1>3. ASSUME NEW k \in Keys, NEW req \in Request, RefuseShort(k, req)
      PROVE  SaleNotOversold'
  <2>1. /\ req.quantity \in Nat
        /\ reservations' = reservations
        /\ DOMAIN flash_sales' = DOMAIN flash_sales
        /\ \A x \in DOMAIN flash_sales :
             \/ flash_sales'[x].remaining_stock = flash_sales[x].remaining_stock
             \/ flash_sales'[x].remaining_stock = flash_sales[x].remaining_stock - req.quantity
    BY <1>1, <1>3 DEF RefuseShort, Request, SaleRow
  <2>. QED
    BY <1>1, <1>2, <2>1 DEF SaleNotOversold, SaleRow
<1>4. ASSUME BalanceKept PROVE SaleNotOversold'
  <2>1. \A s \in DOMAIN flash_sales' \ DOMAIN flash_sales : Balance(s)' <= Allocated[s]
    BY <1>4 DEF BalanceKept
  <2>2. \A s \in DOMAIN flash_sales : Balance(s)' <= Allocated[s]
    BY <1>4 DEF BalanceKept, SaleNotOversold, Balance
  <2>. QED
    BY <2>1, <2>2 DEF SaleNotOversold, Balance
<1>. QED
  BY <1>3, <1>4, StepBalance

-----------------------------------------------------------------------------
(***************************************************************************)
(* The limit of a user and a spelling is preserved: only a grant adds to   *)
(* its active reservations, and it has summed them with its lock held.     *)
(***************************************************************************)
LEMMA StepLimit ==
  ASSUME TablesTypeOK, SpelledLimitHeld, [Next]_ledgerVars
  PROVE  SpelledLimitHeld'
<1>. USE SchemaAssumption
<1>0. TablesTypeOK /\ SpelledLimitHeld
  OBVIOUS
<1> DEFINE A(s, x, u) == OfUserAs(reservations, s, x, u, Active)
<1>a. \A s, x, u : A(s, x, u) \subseteq DOMAIN reservations /\ IsFiniteSet(A(s, x, u))
  <2>1. \A s, x, u : A(s, x, u) \subseteq DOMAIN reservations
    BY DEF OfUserAs, OfUser, OfSale
  <2>. QED
    BY <1>0, <2>1, RowsFinite
<1>b. \A s, x, u : Sum(reservations, A(s, x, u)) \in Nat
  BY <1>a, SumType
<1>c. \A s \in DOMAIN flash_sales : s \in Sales /\ MaxPerUser[s] \in Nat
  BY <1>0 DEF TablesTypeOK, IsTable
<1>d. \A s \in DOMAIN flash_sales, x \in Spellings, u \in Users :
        Sum(reservations, A(s, x, u)) <= MaxPerUser[s]
  BY <1>0 DEF SpelledLimitHeld
<1>1. CASE DOMAIN flash_sales' = DOMAIN flash_sales /\ reservations' = reservations
  BY <1>0, <1>1 DEF SpelledLimitHeld
<1>2. ASSUME NEW s \in Sales, CreateSale(s)
      PROVE  SpelledLimitHeld'
  <2>1. \A x, u : A(s, x, u) = {}
    BY <1>0, <1>2 DEF CreateSale, OfUserAs, OfUser, OfSale, TablesTypeOK
  <2>2. \A x, u : Sum(reservations, A(s, x, u)) = 0
    BY <2>1, SumEmpty
  <2>3. /\ DOMAIN flash_sales' = DOMAIN flash_sales \cup {s}
        /\ reservations' = reservations
        /\ MaxPerUser[s] \in Nat
    BY <1>2 DEF CreateSale, Insert
  <2>. HIDE DEF A
  <2>. QED
    BY <1>d, <2>2, <2>3 DEF SpelledLimitHeld, A
<1>3. ASSUME NEW s \in Sales, NEW state \in {"active", "ended", "cancelled"},
             SetSaleState(s, state)
      PROVE  SpelledLimitHeld'
  BY <1>1, <1>3 DEF SetSaleState
<1>4. ASSUME NEW k \in Keys, NEW req \in Request, NEW r \in ReservationIDs, Grant(k, req, r)
      PROVE  SpelledLimitHeld'
  <2> DEFINE s0 == req.sale_id
             x0 == req.spelling
             u0 == req.user_id
             q == req.quantity
  <2>1. /\ s0 \in DOMAIN flash_sales /\ q \in 1..MaxQuantity /\ q \in Nat
        /\ Sum(reservations, A(s0, x0, u0)) + q <= MaxPerUser[s0]
        /\ DOMAIN flash_sales' = DOMAIN flash_sales
    BY <1>4 DEF Grant, Request
  <2>2. /\ AddedRow(req, r)
        /\ \A i \in DOMAIN reservations : reservations'[i] = reservations[i]
    BY <1>4 DEF Grant, Insert, AddedRow
  <2>3. /\ OfUserAs(reservations', s0, x0, u0, Active) = A(s0, x0, u0) \cup {r}
        /\ \A s, x, u : s # s0 \/ x # x0 \/ u # u0 =>
             OfUserAs(reservations', s, x, u, Active) = A(s, x, u)
        /\ r \notin A(s0, x0, u0)
    BY <2>2 DEF AddedRow, OfUserAs, OfUser, OfSale, Active
  <2>4. \A s, x, u : Sum(reservations', A(s, x, u)) = Sum(reservations, A(s, x, u))
    BY <1>a, <2>2, SumKept
  <2>5. Sum(reservations', A(s0, x0, u0) \cup {r}) = Sum(reservations, A(s0, x0, u0)) + q
    <3>1. IsFiniteSet(A(s0, x0, u0)) /\ reservations'[r].quantity \in 1..MaxQuantity
      BY <1>a, <2>1, <2>2 DEF AddedRow
    <3>2. Sum(reservations', A(s0, x0, u0) \cup {r}) =
            Sum(reservations', A(s0, x0, u0)) + reservations'[r].quantity
      BY <2>3, <3>1, SumAdd, Zenon
    <3>. QED
      BY <2>2, <2>4, <3>2 DEF AddedRow
  <2>6. /\ Sum(reservations', OfUserAs(reservations', s0, x0, u0, Active)) =
             Sum(reservations, A(s0, x0, u0)) + q
        /\ \A s, x, u : s # s0 \/ x # x0 \/ u # u0 =>
             Sum(reservations', OfUserAs(reservations', s, x, u, Active)) =
               Sum(reservations, A(s, x, u))
    BY <2>3, <2>4, <2>5, Zenon
  <2>. HIDE DEF A, s0, x0, u0, q
  <2>. QED
    BY <1>d, <2>1, <2>6 DEF SpelledLimitHeld
<1>5. ASSUME NEW r \in ReservationIDs, Confirm(r) \/ \E k \in PaymentKeys : Charge(k, r)
      PROVE  SpelledLimitHeld'
  <2>1. SameActive /\ SameRows(reservations') /\ flash_sales' = flash_sales
    BY <1>0, <1>5, ActiveKept DEF SameActive
  <2>2. \A s, x, u : OfUserAs(reservations', s, x, u, Active) = A(s, x, u)
    BY <2>1 DEF OfUserAs, OfUser, OfSale, SameActive, SameRows
  <2>3. \A s, x, u : Sum(reservations', A(s, x, u)) = Sum(reservations, A(s, x, u))
    BY <1>a, <2>1, SumKept
  <2>. HIDE DEF A
  <2>. QED
    BY <1>d, <2>1, <2>2, <2>3 DEF SpelledLimitHeld
<1>6. ASSUME NEW S, NEW state \in {"cancelled", "expired"}, Release(S, state)
      PROVE  SpelledLimitHeld'
  <2>1. /\ SameRows(reservations')
        /\ \A i \in DOMAIN reservations :
             reservations'[i].state = IF i \in S THEN state ELSE reservations[i].state
        /\ DOMAIN flash_sales' = DOMAIN flash_sales
    <3>1. DOMAIN flash_sales' = DOMAIN flash_sales
      BY <1>6 DEF Release
    <3>. QED
      BY <1>0, <1>6, <3>1, StateUpdates
  <2>2. \A s, x, u : OfUserAs(reservations', s, x, u, Active) \subseteq A(s, x, u)
    BY <1>6, <2>1 DEF OfUserAs, OfUser, OfSale, Active, SameRows
  <2>3. \A T : T \subseteq DOMAIN reservations => Sum(reservations', T) = Sum(reservations, T)
    BY <2>1, SumKept
  <2>4. \A s, x, u : Sum(reservations', OfUserAs(reservations', s, x, u, Active)) <=
                    Sum(reservations, A(s, x, u))
    <3>. TAKE s, x, u
    <3> DEFINE T == OfUserAs(reservations', s, x, u, Active)
    <3>1. T \subseteq A(s, x, u) /\ T \subseteq DOMAIN reservations /\ IsFiniteSet(A(s, x, u))
      BY <1>a, <2>2
    <3>2. Sum(reservations, T) <= Sum(reservations, A(s, x, u))
      BY <3>1, SumMinus
    <3>3. Sum(reservations', T) = Sum(reservations, T)
      BY <2>3, <3>1
    <3>. QED
      BY <3>2, <3>3
  <2>5. \A s, x, u : Sum(reservations', OfUserAs(reservations', s, x, u, Active)) \in Nat
    <3>1. \A s, x, u : IsFiniteSet(OfUserAs(reservations', s, x, u, Active))
      BY <1>a, <2>2, FS_Subset
    <3>. QED
      BY <3>1, SumType
  <2>. HIDE DEF A
  <2>. QED
    BY <1>b, <1>c, <1>d, <2>1, <2>4, <2>5 DEF SpelledLimitHeld
<1>7. ASSUME NEW r \in ReservationIDs, Cancel(r)
      PROVE  SpelledLimitHeld'
  BY <1>6, <1>7 DEF Cancel
<1>8. ASSUME NEW S \in SUBSET DOMAIN reservations, Expire(S)
      PROVE  SpelledLimitHeld'
  BY <1>6, <1>8 DEF Expire
<1>. QED
  BY <1>1, <1>2, <1>3, <1>4, <1>5, <1>7, <1>8
  DEF Next, ledgerVars, tables, Tick, CreateProduct, UpdateProduct, UpdateInventory, Refuse,
      RefuseShort, Decline, Delay

-----------------------------------------------------------------------------
(***************************************************************************)
(* Orders follow their reservations: the transaction that changes the one  *)
(* changes the other, except for a declined payment.                       *)
(***************************************************************************)
LEMMA StepOrders ==
  ASSUME LedgerInv, [Next]_ledgerVars
  PROVE  OrdersAgree'
<1>0. TablesTypeOK /\ OrdersAgree /\ DOMAIN orders = DOMAIN reservations
  BY DEF LedgerInv, TablesTypeOK
<1>1. CASE UNCHANGED <<orders, reservations>>
  BY <1>0, <1>1 DEF OrdersAgree
<1>2. ASSUME NEW k \in Keys, NEW req \in Request, NEW r \in ReservationIDs, Grant(k, req, r)
      PROVE  OrdersAgree'
  <2>1. AddedRow(req, r)
    BY <1>2 DEF Grant, Insert, AddedRow
  <2>2. orders' = Insert(orders, r, "pending")
    BY <1>2 DEF Grant
  <2>. QED
    BY <1>0, <2>1, <2>2 DEF AddedRow, OrdersAgree, Insert
<1>3. ASSUME NEW r \in ReservationIDs, Confirm(r)
      PROVE  OrdersAgree'
  BY <1>0, <1>3, StateUpdates DEF Confirm, OrdersAgree
<1>4. ASSUME NEW S, NEW state, Release(S, state)
      PROVE  OrdersAgree'
  <2>1. \A i \in DOMAIN reservations :
          reservations'[i].state = IF i \in S THEN state ELSE reservations[i].state
    BY <1>0, <1>4, StateUpdates
  <2>2. orders' = [r \in DOMAIN orders |-> IF r \in S THEN state ELSE orders[r]]
    BY <1>4 DEF Release
  <2>. QED
    BY <1>0, <2>1, <2>2 DEF OrdersAgree
<1>5. ASSUME NEW k \in PaymentKeys, NEW r \in ReservationIDs, Charge(k, r)
      PROVE  OrdersAgree'
  <2>1. \A i \in DOMAIN reservations :
          reservations'[i].state = IF i = r THEN "paid" ELSE reservations[i].state
    BY <1>0, <1>5, StateUpdates, Zenon
  <2>2. orders' = [orders EXCEPT ![r] = "paid"]
    BY <1>5 DEF Charge
  <2>. QED
    BY <1>0, <2>1, <2>2 DEF OrdersAgree
<1>6. ASSUME NEW k \in PaymentKeys, NEW r \in ReservationIDs, Decline(k, r)
      PROVE  OrdersAgree'
  BY <1>0, <1>6 DEF Decline, OrdersAgree
<1>. QED
  BY <1>1, <1>2, <1>3, <1>4, <1>5, <1>6
  DEF Next, ledgerVars, tables, Tick, CreateProduct, UpdateProduct, UpdateInventory, CreateSale,
      SetSaleState, Refuse, RefuseShort, Cancel, Expire, Delay

(***************************************************************************)
(* Nobody is charged twice, or for a reservation that is not paid: a       *)
(* succeeded payment is recorded by the transaction that takes the         *)
(* reservation from confirmed to paid, and paid is final.                  *)
(***************************************************************************)
LEMMA StepCharged ==
  ASSUME LedgerInv, [Next]_ledgerVars
  PROVE  ChargedOnce'
<1>0. /\ TablesTypeOK /\ ChargedOnce /\ DOMAIN orders = DOMAIN reservations
      /\ \A k \in DOMAIN payments : payments[k].order_id \in DOMAIN orders
  BY DEF LedgerInv, TablesTypeOK
<1>a. ASSUME payments' = payments
      PROVE  \A i : Charges(i)' = Charges(i)
  BY <1>a DEF Charges
<1>b. ASSUME NEW k \in PaymentKeys, NEW i, NEW outcome, NEW status,
             RecordPayment(k, i, outcome, status)
      PROVE  /\ status # "succeeded" => \A x : Charges(x)' = Charges(x)
             /\ status = "succeeded" =>
                  /\ Charges(i)' = Charges(i) \cup {k}
                  /\ \A x : x # i => Charges(x)' = Charges(x)
  BY <1>b DEF RecordPayment, Insert, Charges
<1>1. CASE UNCHANGED <<orders, payments, reservations>>
  BY <1>0, <1>1 DEF ChargedOnce, Charges
<1>2. ASSUME NEW k \in Keys, NEW req \in Request, NEW r \in ReservationIDs, Grant(k, req, r)
      PROVE  ChargedOnce'
  <2>1. AddedRow(req, r)
    BY <1>2 DEF Grant, Insert, AddedRow
  <2>2. payments' = payments /\ DOMAIN orders' = DOMAIN orders \cup {r}
    BY <1>2 DEF Grant, Insert
  <2>3. Charges(r) = {}
    BY <1>0, <2>1 DEF Charges, AddedRow
  <2>4. \A i : Charges(i)' = Charges(i)
    BY <1>a, <2>2
  <2>. QED
    BY <1>0, <2>1, <2>2, <2>3, <2>4 DEF AddedRow, ChargedOnce
<1>3. ASSUME NEW r \in ReservationIDs, Confirm(r)
      PROVE  ChargedOnce'
  <2>1. /\ DOMAIN orders' = DOMAIN orders /\ payments' = payments
        /\ \A i \in DOMAIN reservations :
             (reservations'[i].state = "paid") <=> (reservations[i].state = "paid")
    BY <1>0, <1>3, StateUpdates DEF Confirm
  <2>2. \A i : Charges(i)' = Charges(i)
    BY <1>a, <2>1
  <2>. QED
    BY <1>0, <2>1, <2>2 DEF ChargedOnce
<1>4. ASSUME NEW S, NEW state \in {"cancelled", "expired"}, Release(S, state),
             \A r \in S : reservations[r].state = "pending"
      PROVE  ChargedOnce'
  <2>1. /\ DOMAIN orders' = DOMAIN orders /\ payments' = payments
        /\ \A i \in DOMAIN reservations :
             (reservations'[i].state = "paid") <=> (reservations[i].state = "paid")
    <3>1. DOMAIN orders' = DOMAIN orders /\ payments' = payments
      BY <1>4 DEF Release
    <3>. QED
      BY <1>0, <1>4, <3>1, StateUpdates
  <2>2. \A i : Charges(i)' = Charges(i)
    BY <1>a, <2>1
  <2>. QED
    BY <1>0, <2>1, <2>2 DEF ChargedOnce
<1>5. ASSUME NEW k \in PaymentKeys, NEW r \in ReservationIDs, Charge(k, r)
      PROVE  ChargedOnce'
  <2>1. /\ RecordPayment(k, r, "successful", "succeeded")
        /\ r \in DOMAIN reservations /\ reservations[r].state = "confirmed"
        /\ DOMAIN orders' = DOMAIN orders
    BY <1>0, <1>5 DEF Charge
  <2>2. Charges(r)' = Charges(r) \cup {k} /\ \A x : x # r => Charges(x)' = Charges(x)
    BY <1>b, <2>1
  <2>3. Charges(r) = {}
    BY <1>0, <2>1 DEF ChargedOnce
  <2>4. \A i \in DOMAIN reservations :
          reservations'[i].state = IF i = r THEN "paid" ELSE reservations[i].state
    BY <1>0, <1>5, StateUpdates
  <2>. QED
    BY <1>0, <2>1, <2>2, <2>3, <2>4 DEF ChargedOnce
<1>6. ASSUME NEW k \in PaymentKeys, NEW r \in ReservationIDs, Decline(k, r) \/ Delay(k, r)
      PROVE  ChargedOnce'
  <2>1. \A i : Charges(i)' = Charges(i)
    BY <1>6, <1>b DEF Decline, Delay
  <2>2. DOMAIN orders' = DOMAIN orders /\ reservations' = reservations
    BY <1>6 DEF Decline, Delay
  <2>. QED
    BY <1>0, <2>1, <2>2 DEF ChargedOnce
<1>7. ASSUME NEW r \in ReservationIDs, Cancel(r)
      PROVE  ChargedOnce'
  BY <1>4, <1>7 DEF Cancel
<1>8. ASSUME NEW S \in SUBSET DOMAIN reservations, Expire(S)
      PROVE  ChargedOnce'
  BY <1>4, <1>8 DEF Expire
<1>. QED
  BY <1>1, <1>2, <1>3, <1>5, <1>6, <1>7, <1>8
  DEF Next, ledgerVars, tables, Tick, CreateProduct, UpdateProduct, UpdateInventory, CreateSale,
      SetSaleState, Refuse, RefuseShort

(***************************************************************************)
(* Keys keep accounting for the reservations: a key and the reservation it *)
(* names are inserted by the same transaction, and neither is rewritten.   *)
(***************************************************************************)
LEMMA StepKeys ==
  ASSUME LedgerInv, [Next]_ledgerVars
  PROVE  KeysAccount'
<1>. USE SchemaAssumption
<1>0. TablesTypeOK /\ KeysAccount /\ DOMAIN reservations \subseteq ReservationIDs
  BY DEF LedgerInv, TablesTypeOK, IsTable
<1>a. \A k \in DOMAIN idempotency_keys : Answered(k)
  BY <1>0 DEF KeysAccount
<1>b. \A r \in DOMAIN reservations : CreatedBy(r) # {} /\ \A k, l \in CreatedBy(r) : k = l
  BY <1>0 DEF KeysAccount
<1>2. ASSUME SameRows(reservations'), idempotency_keys' = idempotency_keys
      PROVE  KeysAccount'
  <2>1. \A i : CreatedBy(i)' = CreatedBy(i)
    BY <1>2 DEF CreatedBy
  <2>2. ASSUME NEW k \in DOMAIN idempotency_keys'
        PROVE  Answered(k)'
    <3>1. Answered(k) /\ idempotency_keys'[k] = idempotency_keys[k]
      BY <1>a, <1>2
    <3>2. \A r \in DOMAIN reservations :
            /\ r \in DOMAIN reservations'
            /\ reservations'[r].sale_id = reservations[r].sale_id
            /\ reservations'[r].spelling = reservations[r].spelling
            /\ reservations'[r].user_id = reservations[r].user_id
            /\ reservations'[r].quantity = reservations[r].quantity
      BY <1>2 DEF SameRows
    <3>. QED
      BY <3>1, <3>2 DEF Answered
  <2>. QED
    BY <1>b, <1>2, <2>1, <2>2 DEF KeysAccount, SameRows
<1>1. CASE UNCHANGED <<idempotency_keys, reservations>>
  BY <1>1, <1>2 DEF SameRows
<1>3. ASSUME NEW k \in Keys, NEW req \in Request, NEW r \in ReservationIDs, Grant(k, req, r)
      PROVE  KeysAccount'
  <2>1. AddedRow(req, r)
    BY <1>3 DEF Grant, Insert, AddedRow
  <2>2. /\ k \notin DOMAIN idempotency_keys
        /\ idempotency_keys' = Insert(idempotency_keys, k,
             [request |-> req, code |-> "CREATED", resource_id |-> r])
    BY <1>3 DEF Grant
  <2>3. r # NULL
    OBVIOUS
  <2>4. CreatedBy(r) = {}
    <3>. SUFFICES ASSUME NEW i \in CreatedBy(r) PROVE FALSE
      OBVIOUS
    <3>1. i \in DOMAIN idempotency_keys /\ idempotency_keys[i].resource_id = r
      BY DEF CreatedBy
    <3>2. Answered(i)
      BY <1>a, <3>1
    <3>. QED
      BY <2>1, <2>3, <3>1, <3>2 DEF Answered, AddedRow
  <2>5. CreatedBy(r)' = {k} /\ \A i : i # r => CreatedBy(i)' = CreatedBy(i)
    BY <2>2, <2>4 DEF CreatedBy, Insert
  <2>6. Answered(k)'
    BY <2>1, <2>2, <2>3 DEF Answered, AddedRow, Insert
  <2>7. \A i \in DOMAIN idempotency_keys : Answered(i)'
    <3>. TAKE i \in DOMAIN idempotency_keys
    <3>1. Answered(i) /\ idempotency_keys'[i] = idempotency_keys[i]
      BY <1>a, <2>2 DEF Insert
    <3>2. \A x \in DOMAIN reservations :
            x \in DOMAIN reservations' /\ reservations'[x] = reservations[x]
      BY <2>1 DEF AddedRow
    <3>. QED
      BY <3>1, <3>2 DEF Answered
  <2>8. DOMAIN idempotency_keys' = DOMAIN idempotency_keys \cup {k}
    BY <2>2 DEF Insert
  <2>9. \A i \in DOMAIN reservations' :
          CreatedBy(i)' # {} /\ \A x, y \in CreatedBy(i)' : x = y
    <3>. TAKE i \in DOMAIN reservations'
    <3>1. CASE i = r
      BY <2>5, <3>1
    <3>2. CASE i # r
      <4>1. i \in DOMAIN reservations /\ CreatedBy(i)' = CreatedBy(i)
        BY <2>1, <2>5, <3>2 DEF AddedRow
      <4>2. CreatedBy(i) # {} /\ \A x, y \in CreatedBy(i) : x = y
        BY <1>b, <4>1
      <4>. QED
        BY <4>1, <4>2
    <3>. QED
      BY <3>1, <3>2
  <2>. QED
    BY <2>6, <2>7, <2>8, <2>9 DEF KeysAccount
<1>4. ASSUME NEW k \in Keys, NEW req \in Request, NEW code \in ErrorCodes,
             k \notin DOMAIN idempotency_keys, reservations' = reservations,
             idempotency_keys' = Insert(idempotency_keys, k,
               [request |-> req, code |-> code, resource_id |-> NULL])
      PROVE  KeysAccount'
  <2>1. \A i \in DOMAIN reservations : CreatedBy(i)' = CreatedBy(i)
    BY <1>0, <1>4 DEF CreatedBy, Insert
  <2>2. code # "" /\ code # "CREATED"
    BY DEF ErrorCodes
  <2>3. Answered(k)'
    BY <1>4, <2>2 DEF Answered, Insert
  <2>4. /\ DOMAIN idempotency_keys' = DOMAIN idempotency_keys \cup {k}
        /\ \A i \in DOMAIN idempotency_keys : idempotency_keys'[i] = idempotency_keys[i]
    BY <1>4 DEF Insert
  <2>5. \A i \in DOMAIN idempotency_keys : Answered(i)'
    <3>. TAKE i \in DOMAIN idempotency_keys
    <3>1. Answered(i) /\ idempotency_keys'[i] = idempotency_keys[i]
      BY <1>a, <2>4
    <3>. QED
      BY <1>4, <3>1 DEF Answered
  <2>. QED
    BY <1>b, <1>4, <2>1, <2>3, <2>4, <2>5 DEF KeysAccount
<1>5. ASSUME NEW k \in Keys, NEW req \in Request, NEW code \in ErrorCodes, Refuse(k, req, code)
      PROVE  KeysAccount'
  BY <1>4, <1>5 DEF Refuse
<1>6. ASSUME NEW k \in Keys, NEW req \in Request, RefuseShort(k, req)
      PROVE  KeysAccount'
  <2>1. "INVENTORY_SOLD_OUT" \in ErrorCodes
    BY DEF ErrorCodes
  <2>. QED
    BY <1>4, <1>6, <2>1 DEF RefuseShort
<1>7. ASSUME NEW r \in ReservationIDs, Confirm(r)
      PROVE  KeysAccount'
  BY <1>0, <1>2, <1>7, StateUpdates DEF Confirm
<1>8. ASSUME NEW S, NEW state, Release(S, state)
      PROVE  KeysAccount'
  <2>1. idempotency_keys' = idempotency_keys
    BY <1>8 DEF Release
  <2>. QED
    BY <1>0, <1>2, <1>8, <2>1, StateUpdates
<1>9. ASSUME NEW k \in PaymentKeys, NEW r \in ReservationIDs, Charge(k, r)
      PROVE  KeysAccount'
  BY <1>0, <1>2, <1>9, StateUpdates DEF Charge
<1>. QED
  BY <1>1, <1>3, <1>5, <1>6, <1>7, <1>8, <1>9
  DEF Next, ledgerVars, tables, Tick, CreateProduct, UpdateProduct, UpdateInventory, CreateSale,
      SetSaleState, Cancel, Expire, Decline, Delay

-----------------------------------------------------------------------------
\* The seeded tables satisfy the invariant: nothing is reserved yet.
LEMMA InitLedgerInv == TablesInit => LedgerInv
<1>. SUFFICES ASSUME TablesInit PROVE LedgerInv
  OBVIOUS
<1>. USE SchemaAssumption
<1>1. TablesTypeOK
  BY InitType
<1>2. /\ DOMAIN reservations = {} /\ DOMAIN orders = {} /\ DOMAIN payments = {}
      /\ DOMAIN idempotency_keys = {}
  BY DEF TablesInit, NoRows
<1>3. \A p, s, u, states : /\ OfProduct(reservations, p, states) = {}
                           /\ OfSale(reservations, s, states) = {}
                           /\ \A x : OfUserAs(reservations, s, x, u, states) = {}
  BY <1>2 DEF OfProduct, OfSale, OfUser, OfUserAs
<1>4. Sum(reservations, {}) = 0
  BY SumEmpty
<1>5. \A p \in SeedProducts : Stock[p] \in Nat
  BY DEF SeedProducts
<1>a. \A p, s, u, states : /\ Sum(reservations, OfProduct(reservations, p, states)) = 0
                           /\ Sum(reservations, OfSale(reservations, s, states)) = 0
                           /\ \A x : Sum(reservations, OfUserAs(reservations, s, x, u, states)) = 0
  BY <1>3, <1>4, Zenon
<1>6. InventoryReconciled
  <2>1. /\ DOMAIN inventory = SeedProducts
        /\ \A p \in SeedProducts :
             /\ inventory[p].available = Stock[p] /\ inventory[p].expected_total = Stock[p]
             /\ inventory[p].reserved = 0 /\ inventory[p].sold = 0
    BY DEF TablesInit
  <2>. QED
    BY <1>a, <1>5, <2>1 DEF InventoryReconciled
<1>7. SaleNotOversold /\ SpelledLimitHeld
  <2>1. /\ DOMAIN flash_sales = SeedSales
        /\ \A s \in SeedSales : flash_sales[s].remaining_stock = Allocated[s]
    BY DEF TablesInit
  <2>2. \A s \in SeedSales : Allocated[s] \in Nat /\ MaxPerUser[s] \in Nat
    OBVIOUS
  <2>. QED
    BY <1>a, <2>1, <2>2 DEF SaleNotOversold, SpelledLimitHeld
<1>8. OrdersAgree /\ ChargedOnce /\ KeysAccount
  BY <1>2 DEF OrdersAgree, ChargedOnce, KeysAccount
<1>. QED
  BY <1>1, <1>6, <1>7, <1>8 DEF LedgerInv

(***************************************************************************)
(* Every reachable state of the ledger satisfies the whole invariant:      *)
(* types and foreign keys, reconciliation, allocation, per-user limit,     *)
(* orders, charges and keys.                                               *)
(***************************************************************************)
THEOREM LedgerCorrect == Spec => []LedgerInv
<1>1. TablesInit => LedgerInv
  BY InitLedgerInv
<1>2. LedgerInv /\ [Next]_ledgerVars => LedgerInv'
  BY StepType, StepReconciled, StepNotOversold, StepLimit, StepOrders, StepCharged, StepKeys
  DEF LedgerInv
<1>. QED
  BY <1>1, <1>2, PTL DEF Spec

\* The tables always hold rows of their schema and foreign keys resolve.
THEOREM TypeCorrect == Spec => []TablesTypeOK
<1>1. LedgerInv => TablesTypeOK
  BY DEF LedgerInv
<1>. QED
  BY <1>1, LedgerCorrect, PTL

(***************************************************************************)
(* No stock is lost or oversold: available + reserved + sold is the        *)
(* expected total of every product, reserved is what pending and confirmed *)
(* reservations hold, sold is what paid ones took.                         *)
(***************************************************************************)
THEOREM StockConserved == Spec => []InventoryReconciled
<1>1. LedgerInv => InventoryReconciled
  BY DEF LedgerInv
<1>. QED
  BY <1>1, LedgerCorrect, PTL

\* No sale hands out more than its allocation.
THEOREM NotOversold == Spec => []SaleNotOversold
<1>1. LedgerInv => SaleNotOversold
  BY DEF LedgerInv
<1>. QED
  BY <1>1, LedgerCorrect, PTL

\* Where every user writes a sale in one way, the limit of a spelling is the limit.
LEMMA OneWayLimit ==
  ASSUME TablesTypeOK, SpelledLimitHeld, WroteOneWay
  PROVE  PurchaseLimitHeld
<1> SUFFICES ASSUME NEW s \in DOMAIN flash_sales, NEW u \in Users
             PROVE  Sum(reservations, OfUser(reservations, s, u, Active)) <= MaxPerUser[s]
  BY DEF PurchaseLimitHeld
<1> DEFINE A == OfUser(reservations, s, u, Active)
<1>1. CASE A = {}
  <2>1. Sum(reservations, A) = 0
    BY <1>1, SumEmpty
  <2>2. MaxPerUser[s] \in Nat
    BY SchemaAssumption DEF TablesTypeOK, IsTable
  <2>. QED
    BY <2>1, <2>2
<1>2. ASSUME NEW r \in A
      PROVE  Sum(reservations, A) <= MaxPerUser[s]
  <2> DEFINE x == reservations[r].spelling
  <2>1. r \in DOMAIN reservations /\ x \in Spellings
    BY <1>2 DEF OfUser, OfSale, TablesTypeOK, IsTable, ReservationRow
  <2>2. A = OfUserAs(reservations, s, x, u, Active)
    BY <1>2 DEF WroteOneWay, OfUserAs, OfUser, OfSale
  <2>3. Sum(reservations, OfUserAs(reservations, s, x, u, Active)) <= MaxPerUser[s]
    BY <2>1 DEF SpelledLimitHeld
  <2>. QED
    BY <2>2, <2>3
<1>. QED
  BY <1>1, <1>2

(***************************************************************************)
(* No user holds more of a sale than its per-user limit by requests that   *)
(* wrote the sale in one way; nor at all, if all of them did.              *)
(***************************************************************************)
THEOREM LimitHeld == Spec => [](SpelledLimitHeld /\ (WroteOneWay => PurchaseLimitHeld))
<1>1. LedgerInv => SpelledLimitHeld /\ (WroteOneWay => PurchaseLimitHeld)
  BY OneWayLimit DEF LedgerInv
<1>. QED
  BY <1>1, LedgerCorrect, PTL

\* An order follows its reservation's state, but for a payment that failed.
THEOREM OrdersFollow == Spec => []OrdersAgree
<1>1. LedgerInv => OrdersAgree
  BY DEF LedgerInv
<1>. QED
  BY <1>1, LedgerCorrect, PTL

\* An order has one succeeded payment if its reservation is paid, else none.
THEOREM NeverChargedTwice == Spec => []ChargedOnce
<1>1. LedgerInv => ChargedOnce
  BY DEF LedgerInv
<1>. QED
  BY <1>1, LedgerCorrect, PTL

\* Each reservation was created under one key, and its key names it.
THEOREM CreatedOnce == Spec => []KeysAccount
<1>1. LedgerInv => KeysAccount
  BY DEF LedgerInv
<1>. QED
  BY <1>1, LedgerCorrect, PTL

(***************************************************************************)
(* The operator's check follows from the invariant, branch by branch; the  *)
(* one for the limit only where every user wrote a sale in one way.        *)
(***************************************************************************)
LEMMA CheckFollows ==
  ASSUME TablesTypeOK, InventoryReconciled, SpelledLimitHeld, OrdersAgree, ChargedOnce
  PROVE  InvariantCheckPasses
<1>1. ~ \E p \in DOMAIN inventory :
          inventory[p].available + inventory[p].reserved + inventory[p].sold
            # inventory[p].expected_total
  BY DEF InventoryReconciled
<1>2. ASSUME WroteOneWay,
             NEW s \in DOMAIN flash_sales, NEW u \in Users
      PROVE  ~ (Sum(reservations, OfUser(reservations, s, u, Active)) > MaxPerUser[s])
  <2> DEFINE A == OfUser(reservations, s, u, Active)
  <2>1. A \subseteq DOMAIN reservations
    BY DEF OfUser, OfSale
  <2>2. Sum(reservations, A) \in Nat
    BY <2>1, RowsFinite, SumType
  <2>3. MaxPerUser[s] \in Nat
    BY SchemaAssumption DEF TablesTypeOK, IsTable
  <2>4. Sum(reservations, A) <= MaxPerUser[s]
    BY <1>2, OneWayLimit DEF PurchaseLimitHeld
  <2>. QED
    BY <2>2, <2>3, <2>4
<1>3. ~ \E r \in DOMAIN orders :
          /\ reservations[r].state \in {"paid", "cancelled", "expired"}
          /\ orders[r] # reservations[r].state
  BY DEF OrdersAgree, Holding
<1>4. ~ \E k \in DOMAIN payments :
          /\ payments[k].status = "succeeded"
          /\ reservations[payments[k].order_id].state = "expired"
  BY DEF ChargedOnce, Charges, TablesTypeOK
<1>. QED
  BY <1>1, <1>2, <1>3, <1>4 DEF InvariantCheckPasses, CheckInvariants

(***************************************************************************)
(* store.CheckInvariants, the operator's own check, never reports a row    *)
(* but for the limit of a user who wrote a sale in two ways.               *)
(***************************************************************************)
THEOREM OperatorCheckPasses == Spec => []InvariantCheckPasses
<1>1. LedgerInv => InvariantCheckPasses
  BY CheckFollows DEF LedgerInv
<1>. QED
  BY <1>1, LedgerCorrect, PTL

-----------------------------------------------------------------------------
(***************************************************************************)
(* Every committed step keeps the life cycle of every reservation: no row  *)
(* is deleted or reassigned, final states are final, and only a due and    *)
(* still pending reservation expires.                                      *)
(***************************************************************************)
THEOREM LifecycleKept == Spec => LifecycleRespected
<1>1. LedgerInv /\ [Next]_ledgerVars => [LifecycleStep]_tables
  <2>. SUFFICES ASSUME LedgerInv, [Next]_ledgerVars
                PROVE  LifecycleStep \/ UNCHANGED tables
    OBVIOUS
  <2>0. \A i \in DOMAIN reservations : reservations[i] \in ReservationRow
    BY DEF LedgerInv, TablesTypeOK, IsTable
  <2>1. CASE UNCHANGED reservations
    BY <2>0, <2>1 DEF LifecycleStep, ReservationRow
  <2>2. ASSUME NEW k \in Keys, NEW req \in Request, NEW r \in ReservationIDs, Grant(k, req, r)
        PROVE  LifecycleStep
    <3>1. AddedRow(req, r)
      BY <2>2 DEF Grant, Insert, AddedRow
    <3>. QED
      BY <2>0, <3>1 DEF AddedRow, LifecycleStep, ReservationRow
  <2>3. ASSUME NEW r \in ReservationIDs, Confirm(r)
        PROVE  LifecycleStep
    BY <2>0, <2>3 DEF Confirm, LifecycleStep, ReservationRow
  <2>4. ASSUME NEW r \in ReservationIDs, Cancel(r)
        PROVE  LifecycleStep
    <3>1. /\ reservations[r].state = "pending"
          /\ reservations' = [i \in DOMAIN reservations |->
               IF i \in {r} THEN [reservations[i] EXCEPT !.state = "cancelled"]
                            ELSE reservations[i]]
      BY <2>4 DEF Cancel, Release
    <3>. QED
      BY <2>0, <3>1 DEF LifecycleStep, ReservationRow
  <2>5. ASSUME NEW S \in SUBSET DOMAIN reservations, Expire(S)
        PROVE  LifecycleStep
    <3>1. /\ \A i \in S : reservations[i].state = "pending" /\ reservations[i].expires_at <= clock
          /\ reservations' = [i \in DOMAIN reservations |->
               IF i \in S THEN [reservations[i] EXCEPT !.state = "expired"]
                          ELSE reservations[i]]
      BY <2>5 DEF Expire, Release
    <3>. QED
      BY <2>0, <3>1 DEF LifecycleStep, ReservationRow
  <2>6. ASSUME NEW k \in PaymentKeys, NEW r \in ReservationIDs, Charge(k, r)
        PROVE  LifecycleStep
    BY <2>0, <2>6 DEF Charge, LifecycleStep, ReservationRow
  <2>. QED
    BY <2>1, <2>2, <2>3, <2>4, <2>5, <2>6
    DEF Next, ledgerVars, tables, Tick, CreateProduct, UpdateProduct, UpdateInventory,
        CreateSale, SetSaleState, Refuse, RefuseShort, Decline, Delay
<1>. QED
  BY <1>1, LedgerCorrect, PTL DEF Spec, LifecycleRespected

(***************************************************************************)
(* What an Idempotency-Key was answered is never rewritten or forgotten by *)
(* the transactions of the core.                                           *)
(***************************************************************************)
THEOREM AnswersKept == Spec => ResponsesFinal
<1>1. [Next]_ledgerVars => [KeysKept]_tables
  <2>. SUFFICES ASSUME [Next]_ledgerVars
                PROVE  KeysKept \/ UNCHANGED tables
    OBVIOUS
  <2>1. ASSUME UNCHANGED idempotency_keys
        PROVE  KeysKept
    BY <2>1 DEF KeysKept
  <2>2. ASSUME NEW k \in Keys, NEW row, k \notin DOMAIN idempotency_keys,
               idempotency_keys' = Insert(idempotency_keys, k, row)
        PROVE  KeysKept
    BY <2>2 DEF KeysKept, Insert
  <2>3. ASSUME NEW k \in Keys, NEW req \in Request, NEW r \in ReservationIDs, Grant(k, req, r)
        PROVE  KeysKept
    <3>1. /\ k \notin DOMAIN idempotency_keys
          /\ idempotency_keys' = Insert(idempotency_keys, k,
               [request |-> req, code |-> "CREATED", resource_id |-> r])
      BY <2>3 DEF Grant
    <3>. QED
      BY <2>2, <3>1
  <2>4. ASSUME NEW k \in Keys, NEW req \in Request, NEW code \in ErrorCodes, Refuse(k, req, code)
        PROVE  KeysKept
    BY <2>2, <2>4 DEF Refuse
  <2>5. ASSUME NEW k \in Keys, NEW req \in Request, RefuseShort(k, req)
        PROVE  KeysKept
    BY <2>2, <2>5 DEF RefuseShort
  <2>6. ASSUME NEW S, NEW state, Release(S, state)
        PROVE  KeysKept
    <3>1. UNCHANGED idempotency_keys
      BY <2>6 DEF Release
    <3>. QED
      BY <2>1, <3>1
  <2>. QED
    BY <2>1, <2>3, <2>4, <2>5, <2>6
    DEF Next, ledgerVars, tables, Tick, CreateProduct, UpdateProduct, UpdateInventory,
        CreateSale, SetSaleState, Confirm, Cancel, Expire, Charge, Decline, Delay
<1>. QED
  BY <1>1, PTL DEF Spec, ResponsesFinal

-----------------------------------------------------------------------------
\* The rows of the audit log: a previous state, NULL at creation, and a new one.
Rows == (ReservationStates \cup {NULL}) \X ReservationStates

EventInv == domain_events \in [ReservationIDs -> Seq(Rows)] /\ EventsTrace

\* A story that ends in one state is continued by an event from that state.
LEMMA TraceExtended ==
  ASSUME NEW log \in Seq(Rows), NEW from \in ReservationStates, NEW to \in ReservationStates,
         Traces(log, from)
  PROVE  /\ Append(log, <<from, to>>) \in Seq(Rows)
         /\ Traces(Append(log, <<from, to>>), to)
<1>1. <<from, to>> \in Rows
  BY DEF Rows
<1>2. Len(log) \in Nat /\ Len(log) # 0
  BY DEF Traces
<1>3. log[Len(log)][2] = from /\ log[1][1] = NULL
  BY DEF Traces
<1> DEFINE new == Append(log, <<from, to>>)
<1>4. /\ new \in Seq(Rows) /\ Len(new) = Len(log) + 1 /\ new[Len(log) + 1] = <<from, to>>
      /\ \A i \in 1..Len(log) : new[i] = log[i]
  BY <1>1
<1>. HIDE DEF new
<1>5. \A i \in 2..Len(new) : new[i][1] = new[i - 1][2]
  <2>. TAKE i \in 2..Len(new)
  <2>1. CASE i = Len(log) + 1
    <3>1. i - 1 = Len(log) /\ Len(log) \in 1..Len(log)
      BY <1>2, <2>1
    <3>. QED
      BY <1>3, <1>4, <2>1, <3>1
  <2>2. CASE i # Len(log) + 1
    <3>1. i \in 2..Len(log) /\ i \in 1..Len(log) /\ i - 1 \in 1..Len(log)
      BY <1>2, <1>4, <2>2
    <3>. QED
      BY <1>4, <3>1 DEF Traces
  <2>. QED
    BY <2>1, <2>2
<1>6. new # <<>> /\ new[1][1] = NULL /\ new[Len(new)][2] = to
  BY <1>2, <1>3, <1>4
<1>. QED
  BY <1>4, <1>5, <1>6 DEF Traces, new

(***************************************************************************)
(* The audit log always tells each reservation's whole story: the literal  *)
(* previous states that payment and expiration write are the true ones.    *)
(***************************************************************************)
THEOREM AuditComplete == Spec => []EventsTrace
<1>1. TablesInit => EventInv
  BY DEF TablesInit, NoRows, EventInv, EventsTrace
<1>2. LedgerInv /\ EventInv /\ [Next]_ledgerVars => EventInv'
  <2>. SUFFICES ASSUME LedgerInv, EventInv, [Next]_ledgerVars
                PROVE  EventInv'
    OBVIOUS
  <2>0. /\ TablesTypeOK
        /\ domain_events \in [ReservationIDs -> Seq(Rows)]
        /\ DOMAIN reservations \subseteq ReservationIDs
        /\ DOMAIN orders = DOMAIN reservations
    BY DEF LedgerInv, EventInv, TablesTypeOK, IsTable
  <2>a. \A i \in DOMAIN reservations : Traces(domain_events[i], reservations[i].state)
    BY <2>0 DEF EventInv, EventsTrace
  <2>b. \A i \in ReservationIDs \ DOMAIN reservations : domain_events[i] = <<>>
    BY DEF EventInv, EventsTrace
  <2>1. CASE UNCHANGED <<domain_events, reservations>>
    BY <2>1 DEF EventInv, EventsTrace
  <2>2. ASSUME NEW k \in Keys, NEW req \in Request, NEW r \in ReservationIDs, Grant(k, req, r)
        PROVE  EventInv'
    <3>1. AddedRow(req, r) /\ Event({r}, NULL, "pending")
      BY <2>2 DEF Grant, Insert, AddedRow
    <3>2. <<NULL, "pending">> \in Rows
      BY DEF Rows, ReservationStates
    <3>3. domain_events' = [domain_events EXCEPT ![r] = << <<NULL, "pending">> >>]
      <4>1. domain_events[r] = <<>>
        BY <2>b, <3>1 DEF AddedRow
      <4>2. Append(<<>>, <<NULL, "pending">>) = << <<NULL, "pending">> >>
        BY <3>2
      <4>3. domain_events' = [i \in ReservationIDs |->
              IF i = r THEN << <<NULL, "pending">> >> ELSE domain_events[i]]
        BY <3>1, <4>1, <4>2, Zenon DEF Event
      <4>. QED
        BY <2>0, <4>3
    <3>4. domain_events' \in [ReservationIDs -> Seq(Rows)]
      BY <2>0, <3>2, <3>3
    <3>5. Traces(<< <<NULL, "pending">> >>, "pending")
      BY DEF Traces
    <3>. QED
      BY <2>0, <2>a, <2>b, <3>1, <3>3, <3>4, <3>5 DEF EventInv, EventsTrace, AddedRow
  <2>3. ASSUME NEW S \in SUBSET DOMAIN reservations,
               NEW from \in ReservationStates, NEW to \in ReservationStates,
               Event(S, from, to), \A i \in S : reservations[i].state = from,
               DOMAIN reservations' = DOMAIN reservations,
               \A i \in DOMAIN reservations :
                 reservations'[i].state = IF i \in S THEN to ELSE reservations[i].state
        PROVE  EventInv'
    <3>1. \A i \in S : /\ Append(domain_events[i], <<from, to>>) \in Seq(Rows)
                       /\ Traces(Append(domain_events[i], <<from, to>>), to)
      BY <2>0, <2>a, <2>3, TraceExtended
    <3>2. domain_events' = [i \in ReservationIDs |->
            IF i \in S THEN Append(domain_events[i], <<from, to>>) ELSE domain_events[i]]
      BY <2>3 DEF Event
    <3>3. domain_events' \in [ReservationIDs -> Seq(Rows)]
      BY <2>0, <3>1, <3>2
    <3>4. \A i \in DOMAIN reservations : Traces(domain_events'[i], reservations'[i].state)
      BY <2>0, <2>3, <2>a, <3>1, <3>2
    <3>5. \A i \in ReservationIDs \ DOMAIN reservations : domain_events'[i] = <<>>
      BY <2>b, <3>2
    <3>. QED
      BY <2>3, <3>3, <3>4, <3>5 DEF EventInv, EventsTrace
  <2>4. ASSUME NEW r \in ReservationIDs, Confirm(r)
        PROVE  EventInv'
    <3>1. /\ Event({r}, "pending", "confirmed") /\ reservations[r].state = "pending"
          /\ {r} \in SUBSET DOMAIN reservations
      BY <2>4 DEF Confirm
    <3>2. /\ DOMAIN reservations' = DOMAIN reservations
          /\ \A i \in DOMAIN reservations :
               reservations'[i].state = IF i \in {r} THEN "confirmed" ELSE reservations[i].state
      BY <2>0, <2>4, StateUpdates DEF SameRows
    <3>3. "pending" \in ReservationStates /\ "confirmed" \in ReservationStates
      BY DEF ReservationStates
    <3>. QED
      BY <2>3, <3>1, <3>2, <3>3
  <2>5. ASSUME NEW S \in SUBSET DOMAIN reservations, NEW state \in {"cancelled", "expired"},
               Release(S, state), \A i \in S : reservations[i].state = "pending"
        PROVE  EventInv'
    <3>1. Event(S, "pending", state)
      BY <2>5 DEF Release
    <3>2. /\ DOMAIN reservations' = DOMAIN reservations
          /\ \A i \in DOMAIN reservations :
               reservations'[i].state = IF i \in S THEN state ELSE reservations[i].state
      BY <2>0, <2>5, StateUpdates DEF SameRows
    <3>3. "pending" \in ReservationStates /\ state \in ReservationStates
      BY DEF ReservationStates
    <3>. QED
      BY <2>3, <2>5, <3>1, <3>2, <3>3
  <2>6. ASSUME NEW k \in PaymentKeys, NEW r \in ReservationIDs, Charge(k, r)
        PROVE  EventInv'
    <3>1. /\ Event({r}, "confirmed", "paid") /\ reservations[r].state = "confirmed"
          /\ {r} \in SUBSET DOMAIN reservations
      BY <2>0, <2>6 DEF Charge
    <3>2. /\ DOMAIN reservations' = DOMAIN reservations
          /\ \A i \in DOMAIN reservations :
               reservations'[i].state = IF i \in {r} THEN "paid" ELSE reservations[i].state
      BY <2>0, <2>6, StateUpdates DEF SameRows
    <3>3. "confirmed" \in ReservationStates /\ "paid" \in ReservationStates
      BY DEF ReservationStates
    <3>. QED
      BY <2>3, <3>1, <3>2, <3>3
  <2>7. ASSUME NEW r \in ReservationIDs, Cancel(r)
        PROVE  EventInv'
    BY <2>5, <2>7 DEF Cancel
  <2>8. ASSUME NEW S \in SUBSET DOMAIN reservations, Expire(S)
        PROVE  EventInv'
    BY <2>5, <2>8 DEF Expire
  <2>. QED
    BY <2>1, <2>2, <2>4, <2>6, <2>7, <2>8
    DEF Next, ledgerVars, tables, Tick, CreateProduct, UpdateProduct, UpdateInventory,
        CreateSale, SetSaleState, Refuse, RefuseShort, Decline, Delay
<1>3. EventInv => EventsTrace
  BY DEF EventInv
<1>. QED
  BY <1>1, <1>2, <1>3, LedgerCorrect, PTL DEF Spec

-----------------------------------------------------------------------------
(***************************************************************************)
(* No stock promised twice, no unit lost.  The active units of a product   *)
(* find room among the units its sales were allocated, sale by sale, and   *)
(* leave the remaining ones of any sale free; so the inventory always has  *)
(* what a sale has left, and Reserve never refuses a request after taking  *)
(* from the sale.                                                          *)
(***************************************************************************)
\* Finitely many things can be numbered.
LEMMA Numbered ==
  ASSUME NEW S, IsFiniteSet(S), NEW n, n = Cardinality(S)
  PROVE  \E f : f \in [S -> 1..n] /\ \A a, b \in S : f[a] = f[b] => a = b
<1>1. n \in Nat
  BY FS_CardinalityType
<1>2. IsFiniteSet(1..n) /\ Cardinality(1..n) = n
  <2>1. 1 \in Int /\ n \in Int /\ (IF 1 > n THEN 0 ELSE n - 1 + 1) = n
    BY <1>1
  <2>. QED
    BY <2>1, FS_Interval, Zenon
<1>3. ExistsBijection(S, 1..n)
  BY <1>2, FS_SameCardinalityBij
<1>. QED
  BY <1>3 DEF ExistsBijection, Bijection, Injection, IsInjective

\* An injective function cannot lose elements.
LEMMA Fits ==
  ASSUME NEW S, NEW T, IsFiniteSet(T), NEW f \in [S -> T],
         \A a, b \in S : f[a] = f[b] => a = b
  PROVE  Cardinality(S) <= Cardinality(T)
<1>1. f \in Injection(S, T)
  BY DEF Injection, IsInjective
<1>. QED
  BY <1>1, FS_Injection

\* The numbers above a, up to b.
LEMMA Span ==
  ASSUME NEW a \in Nat, NEW b \in Nat, a <= b
  PROVE  IsFiniteSet((a + 1)..b) /\ Cardinality((a + 1)..b) = b - a
<1>1. ASSUME NEW c \in Int, c = a + 1
      PROVE  IsFiniteSet(c..b) /\ Cardinality(c..b) = b - a
  <2>1. IsFiniteSet(c..b) /\ Cardinality(c..b) = IF c > b THEN 0 ELSE b - c + 1
    BY FS_Interval
  <2>. QED
    BY <1>1, <2>1
<1>. QED
  BY <1>1

LEMMA Column ==
  ASSUME NEW a, NEW T, IsFiniteSet(T)
  PROVE  IsFiniteSet({a} \X T) /\ Cardinality({a} \X T) = Cardinality(T)
<1>1. IsFiniteSet({a}) /\ Cardinality({a}) = 1
  BY FS_Singleton, Zenon
<1>2. IsFiniteSet({a} \X T) /\ Cardinality({a} \X T) = Cardinality({a}) * Cardinality(T)
  BY <1>1, FS_Product, Zenon
<1>3. Cardinality(T) \in Nat
  BY FS_CardinalityType
<1>4. Cardinality({a} \X T) = 1 * Cardinality(T)
  BY <1>1, <1>2, Zenon
<1>. QED
  BY <1>2, <1>3, <1>4

LEMMA Without ==
  ASSUME NEW S, NEW T, IsFiniteSet(S), T \subseteq S
  PROVE  IsFiniteSet(S \ T) /\ Cardinality(S \ T) = Cardinality(S) - Cardinality(T)
<1>1. S \cap T = T
  OBVIOUS
<1>2. IsFiniteSet(S \ T) /\ Cardinality(S \ T) = Cardinality(S) - Cardinality(S \cap T)
  BY FS_Difference, Zenon
<1>. QED
  BY <1>1, <1>2, Zenon

\* The active units of a product are those its inventory has reserved or sold.
LEMMA HeldAndSold ==
  ASSUME TablesTypeOK, InventoryReconciled, NEW p \in DOMAIN inventory
  PROVE  Sum(reservations, OfProduct(reservations, p, Active))
           = inventory[p].reserved + inventory[p].sold
<1> DEFINE H == OfProduct(reservations, p, Holding)
           P == OfProduct(reservations, p, {"paid"})
<1>1. /\ H \cup P = OfProduct(reservations, p, Active) /\ H \cap P = {}
      /\ H \subseteq DOMAIN reservations /\ P \subseteq DOMAIN reservations
  BY DEF OfProduct, Holding, Active
<1>2. IsFiniteSet(H) /\ IsFiniteSet(P)
  BY <1>1, RowsFinite
<1>3. Sum(reservations, H \cup P) = Sum(reservations, H) + Sum(reservations, P)
  BY <1>1, <1>2, SumDisjoint
<1>4. inventory[p].reserved = Sum(reservations, H) /\ inventory[p].sold = Sum(reservations, P)
  BY DEF InventoryReconciled
<1>. QED
  BY <1>1, <1>3, <1>4

(***************************************************************************)
(* As long as the sales account for all their units and the stock is what  *)
(* the products were created with, a product has available at least what   *)
(* any one of its sales has left.                                          *)
(***************************************************************************)
LEMMA NeverShort ==
  ASSUME WithinStock, TablesTypeOK, InventoryReconciled, SaleFullyAccounted,
         \A p \in DOMAIN inventory : inventory[p].expected_total = Stock[p],
         NEW s \in DOMAIN flash_sales
  PROVE  flash_sales[s].remaining_stock <= inventory[ProductOf[s]].available
<1> DEFINE p == ProductOf[s]
           n(t) == Sum(reservations, OfSale(reservations, t, Active))
           U(t) == Units(reservations, OfSale(reservations, t, Active))
           All == Units(reservations, OfProduct(reservations, p, Active))
           SaleOf(u) == reservations[u[1]].sale_id
           Num == [t \in DOMAIN flash_sales |->
                     CHOOSE f : /\ f \in [U(t) -> 1..n(t)]
                                /\ \A a, b \in U(t) : f[a] = f[b] => a = b]
           Free == {s} \X ((n(s) + 1)..Allocated[s])
           Room == AllocatedUnits(p) \ Free
           place == [u \in All |-> <<SaleOf(u), Num[SaleOf(u)][u]>>]
<1>1. /\ s \in Sales /\ p \in Products /\ p \in DOMAIN inventory
      /\ inventory[p] \in InventoryRow /\ DOMAIN flash_sales \subseteq Sales
      /\ \A t \in DOMAIN flash_sales : flash_sales[t].remaining_stock \in Nat /\ Allocated[t] \in Nat
  BY SchemaAssumption DEF TablesTypeOK, IsTable, SaleRow
<1>2. \A t : n(t) \in Nat /\ IsFiniteSet(U(t)) /\ n(t) = Cardinality(U(t))
  <2>1. \A t : OfSale(reservations, t, Active) \subseteq DOMAIN reservations
    BY DEF OfSale
  <2>. QED
    BY <2>1, RowsFinite, SumType DEF Sum
<1>3. \A t \in DOMAIN flash_sales : n(t) <= Allocated[t]
  BY <1>1, <1>2 DEF SaleFullyAccounted
<1>4. flash_sales[s].remaining_stock = Allocated[s] - n(s)
  BY <1>1, <1>2 DEF SaleFullyAccounted
<1>5. \A t \in DOMAIN flash_sales :
        /\ Num[t] \in [U(t) -> 1..n(t)]
        /\ \A a, b \in U(t) : Num[t][a] = Num[t][b] => a = b
  <2>. TAKE t \in DOMAIN flash_sales
  <2>1. \E f : /\ f \in [U(t) -> 1..n(t)]
               /\ \A a, b \in U(t) : f[a] = f[b] => a = b
    BY <1>2, Numbered
  <2>. HIDE DEF U, n
  <2>. QED
    BY <2>1
<1>6. \A u \in All : /\ SaleOf(u) \in DOMAIN flash_sales /\ ProductOf[SaleOf(u)] = p
                     /\ u \in U(SaleOf(u))
  BY DEF Units, OfProduct, OfSale, TablesTypeOK
<1>. HIDE DEF U, n, All, Num, SaleOf
<1>7. place \in [All -> Room]
  <2>. SUFFICES ASSUME NEW u \in All PROVE place[u] \in Room
    OBVIOUS
  <2> DEFINE t == SaleOf(u)
             i == Num[t][u]
  <2>1. t \in DOMAIN flash_sales /\ t \in Sales /\ ProductOf[t] = p /\ u \in U(t)
    BY <1>1, <1>6
  <2>2. i \in 1..n(t)
    BY <1>5, <2>1
  <2>3. i \in 1..Allocated[t]
    BY <1>1, <1>2, <1>3, <2>1, <2>2
  <2>4. <<t, i>> \in AllocatedUnits(p)
    BY <2>1, <2>3 DEF AllocatedUnits
  <2>5. <<t, i>> \notin Free
    BY <1>1, <1>2, <2>2
  <2>. QED
    BY <2>4, <2>5
<1>8. \A a, b \in All : place[a] = place[b] => a = b
  <2>. SUFFICES ASSUME NEW a \in All, NEW b \in All, place[a] = place[b] PROVE a = b
    OBVIOUS
  <2>1. SaleOf(a) = SaleOf(b) /\ Num[SaleOf(a)][a] = Num[SaleOf(b)][b]
    OBVIOUS
  <2>. QED
    BY <1>5, <1>6, <2>1
<1>9. IsFiniteSet(AllocatedUnits(p)) /\ Cardinality(AllocatedUnits(p)) <= Stock[p]
  BY <1>1 DEF WithinStock
<1>10. Free \subseteq AllocatedUnits(p) /\ IsFiniteSet(Free)
       /\ Cardinality(Free) = flash_sales[s].remaining_stock
  <2>1. (n(s) + 1)..Allocated[s] \subseteq 1..Allocated[s]
    BY <1>1, <1>2
  <2>2. Free \subseteq AllocatedUnits(p)
    BY <1>1, <2>1 DEF AllocatedUnits
  <2>3. /\ IsFiniteSet((n(s) + 1)..Allocated[s])
        /\ Cardinality((n(s) + 1)..Allocated[s]) = Allocated[s] - n(s)
    BY <1>1, <1>2, <1>3, Span
  <2>4. IsFiniteSet(Free) /\ Cardinality(Free) = Allocated[s] - n(s)
    BY <2>3, Column, Zenon
  <2>. HIDE DEF Free
  <2>. QED
    BY <1>4, <2>2, <2>4
<1>. HIDE DEF Free
<1>11. /\ IsFiniteSet(Room)
       /\ Cardinality(Room) = Cardinality(AllocatedUnits(p)) - Cardinality(Free)
  BY <1>9, <1>10, Without, Zenon
<1>12. Cardinality(All) <= Cardinality(Room)
  BY <1>7, <1>8, <1>11, Fits
<1>13. Cardinality(All) = inventory[p].reserved + inventory[p].sold
  BY <1>1, HeldAndSold DEF All, Sum
<1>14. inventory[p].available + inventory[p].reserved + inventory[p].sold = Stock[p]
  BY <1>1 DEF InventoryReconciled
<1>15. /\ Cardinality(AllocatedUnits(p)) \in Nat
       /\ inventory[p].available \in Nat /\ inventory[p].reserved \in Nat
       /\ inventory[p].sold \in Nat /\ flash_sales[s].remaining_stock \in Nat
       /\ Stock[p] \in Nat
  BY <1>1, <1>9, FS_CardinalityType, SchemaAssumption DEF InventoryRow
<1>. HIDE DEF Room, p
<1>. QED
  BY <1>9, <1>10, <1>11, <1>12, <1>13, <1>14, <1>15 DEF p

\* Nobody recounts: the expected total of a product is the stock it was
\* created with.
TotalIsStock == \A p \in DOMAIN inventory : inventory[p].expected_total = Stock[p]

LEMMA StepTotal ==
  ASSUME StockLevels = {}, TablesTypeOK, TotalIsStock, [Next]_ledgerVars
  PROVE  TotalIsStock'
<1>. USE SchemaAssumption
<1>0. /\ DOMAIN inventory = DOMAIN products
      /\ \A p \in DOMAIN inventory : inventory[p] \in InventoryRow
  BY DEF TablesTypeOK, IsTable
<1>1. CASE UNCHANGED inventory
  BY <1>1 DEF TotalIsStock
<1>2. ASSUME NEW p \in Products, NEW active \in BOOLEAN, CreateProduct(p, active)
      PROVE  TotalIsStock'
  <2>1. /\ p \notin DOMAIN inventory /\ DOMAIN inventory' = DOMAIN inventory \cup {p}
        /\ \A i \in DOMAIN inventory : inventory'[i] = inventory[i]
        /\ inventory'[p].expected_total = Stock[p]
    BY <1>0, <1>2 DEF CreateProduct, Insert
  <2>. QED
    BY <2>1 DEF TotalIsStock
<1>3. ASSUME /\ DOMAIN inventory' = DOMAIN inventory
             /\ \A p \in DOMAIN inventory :
                  inventory'[p].expected_total = inventory[p].expected_total
      PROVE  TotalIsStock'
  BY <1>3 DEF TotalIsStock
<1>4. ASSUME NEW k \in Keys, NEW req \in Request, NEW r \in ReservationIDs, Grant(k, req, r)
      PROVE  TotalIsStock'
  BY <1>0, <1>3, <1>4 DEF Grant, InventoryRow
<1>5. ASSUME NEW S, NEW state, Release(S, state)
      PROVE  TotalIsStock'
  BY <1>0, <1>3, <1>5 DEF Release, InventoryRow
<1>6. ASSUME NEW k \in PaymentKeys, NEW r \in ReservationIDs, Charge(k, r)
      PROVE  TotalIsStock'
  BY <1>0, <1>3, <1>6 DEF Charge, InventoryRow
<1>7. CASE UNCHANGED ledgerVars \/ Tick
  BY <1>1, <1>7 DEF ledgerVars, tables, Tick
<1>8. ASSUME NEW p, NEW active, UpdateProduct(p, active)
      PROVE  TotalIsStock'
  BY <1>1, <1>8 DEF UpdateProduct
<1>9. ASSUME NEW s, NEW state, CreateSale(s) \/ SetSaleState(s, state)
      PROVE  TotalIsStock'
  BY <1>1, <1>9 DEF CreateSale, SetSaleState
<1>10. ASSUME NEW k, NEW req, NEW code, Refuse(k, req, code) \/ RefuseShort(k, req)
       PROVE  TotalIsStock'
  BY <1>1, <1>10 DEF Refuse, RefuseShort
<1>11. ASSUME NEW k, NEW r, Confirm(r) \/ Decline(k, r) \/ Delay(k, r)
       PROVE  TotalIsStock'
  BY <1>1, <1>11 DEF Confirm, Decline, Delay
<1>12. ASSUME NEW r, NEW S, Cancel(r) \/ Expire(S)
       PROVE  TotalIsStock'
  BY <1>5, <1>12 DEF Cancel, Expire
<1>. QED
  BY <1>2, <1>4, <1>6, <1>7, <1>8, <1>9, <1>10, <1>11, <1>12 DEF Next

LEMMA StepAccounted ==
  ASSUME WithinStock, LedgerInv, TotalIsStock, SaleFullyAccounted, [Next]_ledgerVars
  PROVE  SaleFullyAccounted'
<1>1. ASSUME NEW k \in Keys, NEW req \in Request, RefuseShort(k, req)
      PROVE  FALSE
  <2> DEFINE s == req.sale_id
  <2>1. /\ s \in DOMAIN flash_sales
        /\ flash_sales[s].remaining_stock >= req.quantity
        /\ inventory[ProductOf[s]].available < req.quantity
    BY <1>1 DEF RefuseShort
  <2>2. flash_sales[s].remaining_stock <= inventory[ProductOf[s]].available
    BY <2>1, NeverShort DEF LedgerInv, TotalIsStock
  <2>3. /\ flash_sales[s].remaining_stock \in Nat /\ req.quantity \in Nat
        /\ inventory[ProductOf[s]].available \in Nat
    BY <2>1, SchemaAssumption
    DEF LedgerInv, TablesTypeOK, IsTable, SaleRow, InventoryRow, Request
  <2>. HIDE DEF s
  <2>. QED
    BY <2>1, <2>2, <2>3
<1>2. BalanceKept
  BY <1>1, StepBalance DEF LedgerInv
<1>3. \A s \in DOMAIN flash_sales : Balance(s) = Allocated[s]
  BY DEF SaleFullyAccounted, Balance
<1>4. \A s \in DOMAIN flash_sales' : Balance(s)' = Allocated[s]
  BY <1>2, <1>3 DEF BalanceKept
<1>. QED
  BY <1>4 DEF SaleFullyAccounted, Balance

\* Under WithinStock no sale loses a unit, and no total is changed.
LeakInv == WithinStock => TotalIsStock /\ SaleFullyAccounted

LEMMA AccountedAlways == Spec => []LeakInv
<1>1. TablesInit => LeakInv
  <2>. SUFFICES ASSUME TablesInit PROVE TotalIsStock /\ SaleFullyAccounted
    BY DEF LeakInv
  <2>1. TotalIsStock
    BY DEF TablesInit, TotalIsStock
  <2>2. \A s : OfSale(reservations, s, Active) = {}
    BY DEF TablesInit, NoRows, OfSale
  <2>3. \A s : Sum(reservations, OfSale(reservations, s, Active)) = 0
    BY <2>2, SumEmpty, Zenon
  <2>4. \A s \in DOMAIN flash_sales :
          flash_sales[s].remaining_stock = Allocated[s] /\ Allocated[s] \in Nat
    BY SchemaAssumption DEF TablesInit
  <2>. QED
    BY <2>1, <2>3, <2>4 DEF SaleFullyAccounted
<1>2. LedgerInv /\ LeakInv /\ [Next]_ledgerVars => LeakInv'
  <2>. SUFFICES ASSUME LedgerInv, LeakInv, [Next]_ledgerVars, WithinStock
                PROVE  TotalIsStock' /\ SaleFullyAccounted'
    BY DEF LeakInv, WithinStock, AllocatedUnits
  <2>. QED
    BY StepTotal, StepAccounted DEF LeakInv, LedgerInv, WithinStock
<1>. QED
  BY <1>1, <1>2, LedgerCorrect, PTL DEF Spec

(***************************************************************************)
(* When the allocations of a product's sales do not exceed its stock and   *)
(* nobody recounts it, the refusal that takes from a sale never happens:   *)
(* what a sale has left is always its allocation less what its active      *)
(* reservations hold, for every number of sales, requests and users.       *)
(***************************************************************************)
THEOREM NoLeak == Spec => []NothingLeaks
<1>1. LeakInv => NothingLeaks
  BY DEF LeakInv, NothingLeaks
<1>. QED
  BY <1>1, AccountedAlways, PTL

-----------------------------------------------------------------------------
(***************************************************************************)
(* The seeded demo: each product has one sale, of its whole stock, and     *)
(* nobody recounts the inventory.                                          *)
(***************************************************************************)
WholeStockSales ==
  /\ \A s, t \in Sales : ProductOf[s] = ProductOf[t] => s = t
  /\ \A s \in Sales : Stock[ProductOf[s]] = Allocated[s]
  /\ StockLevels = {}

LEMMA WholeIsWithin == ASSUME WholeStockSales PROVE WithinStock
<1>. SUFFICES ASSUME NEW p \in Products
              PROVE  /\ IsFiniteSet(AllocatedUnits(p))
                     /\ Cardinality(AllocatedUnits(p)) <= Stock[p]
  BY DEF WholeStockSales, WithinStock
<1>1. Stock[p] \in Nat
  BY SchemaAssumption
<1>2. CASE \A s \in Sales : ProductOf[s] # p
  <2>1. AllocatedUnits(p) = {}
    BY <1>2 DEF AllocatedUnits
  <2>. QED
    BY <1>1, <2>1, FS_EmptySet
<1>3. ASSUME NEW s \in Sales, ProductOf[s] = p
      PROVE  /\ IsFiniteSet(AllocatedUnits(p))
             /\ Cardinality(AllocatedUnits(p)) <= Stock[p]
  <2>1. {x \in Sales : ProductOf[x] = p} = {s}
    BY <1>3 DEF WholeStockSales
  <2>2. AllocatedUnits(p) = {s} \X (1..Allocated[s])
    BY <2>1 DEF AllocatedUnits
  <2>3. Allocated[s] = Stock[p] /\ Allocated[s] \in Nat
    BY <1>1, <1>3 DEF WholeStockSales
  <2>4. IsFiniteSet(1..Allocated[s]) /\ Cardinality(1..Allocated[s]) = Allocated[s]
    <3>1. IsFiniteSet((0 + 1)..Allocated[s]) /\ Cardinality((0 + 1)..Allocated[s]) = Allocated[s] - 0
      BY <2>3, Span
    <3>. QED
      BY <2>3, <3>1
  <2>5. IsFiniteSet(AllocatedUnits(p)) /\ Cardinality(AllocatedUnits(p)) = Allocated[s]
    BY <2>2, <2>4, Column, Zenon
  <2>. QED
    BY <1>1, <2>3, <2>5
<1>. QED
  BY <1>2, <1>3

(***************************************************************************)
(* DemoStatus.InvariantPass: on a demo whose sales each sell the whole     *)
(* stock of a product of their own, the dashboard never shows a failed     *)
(* check, whatever the visitors do.                                        *)
(***************************************************************************)
THEOREM DemoCheckPasses == WholeStockSales => (Spec => []DemoInvariantPass)
<1>. SUFFICES ASSUME WholeStockSales PROVE Spec => []DemoInvariantPass
  OBVIOUS
<1>1. LedgerInv /\ LeakInv => DemoInvariantPass
  <2>. SUFFICES ASSUME LedgerInv, LeakInv, NEW s \in DOMAIN flash_sales
                PROVE  InvariantPass(ProductOf[s], s)
    BY DEF DemoInvariantPass
  <2> DEFINE p == ProductOf[s]
             row == inventory[p]
  <2>1. s \in Sales /\ p \in DOMAIN inventory /\ TablesTypeOK /\ InventoryReconciled
    BY DEF LedgerInv, TablesTypeOK, IsTable
  <2>2. TotalIsStock /\ SaleFullyAccounted
    BY WholeIsWithin DEF LeakInv
  <2>3. row.available + row.reserved + row.sold = Allocated[s]
    BY <2>1, <2>2 DEF InventoryReconciled, TotalIsStock, WholeStockSales
  <2>4. OfSale(reservations, s, Active) = OfProduct(reservations, p, Active)
    BY <2>1 DEF OfSale, OfProduct, TablesTypeOK, IsTable, ReservationRow, WholeStockSales
  <2>5. Sum(reservations, OfProduct(reservations, p, Active)) = row.reserved + row.sold
    BY <2>1, HeldAndSold
  <2>6. flash_sales[s].remaining_stock + (row.reserved + row.sold) = Allocated[s]
    BY <2>2, <2>4, <2>5 DEF SaleFullyAccounted
  <2>7. flash_sales[s].remaining_stock \in Nat /\ row.reserved \in Nat /\ row.sold \in Nat
    BY <2>1 DEF TablesTypeOK, IsTable, SaleRow, InventoryRow
  <2>8. flash_sales[s].remaining_stock + row.reserved + row.sold = Allocated[s]
    BY <2>6, <2>7
  <2>. QED
    BY <2>3, <2>8 DEF InvariantPass
<1>. QED
  BY <1>1, LedgerCorrect, AccountedAlways, PTL
=============================================================================
