------------------------------- MODULE Catalog -------------------------------
(***************************************************************************)
(* The administrator's operations on products and sales.  Each is a single *)
(* statement, or a transaction whose rows nobody else writes except for    *)
(* the one row it must wait for, and is one action enabled when that row   *)
(* is not locked.                                                          *)
(***************************************************************************)
EXTENDS Sessions

CreateProduct(p, active) ==
  /\ p \in Products \ DOMAIN products
  /\ products' = Insert(products, p, [active |-> active])
  /\ inventory' = Insert(inventory, p,
       [available |-> Stock[p], reserved |-> 0, sold |-> 0, expected_total |-> Stock[p]])
  /\ UNCHANGED <<clock, flash_sales, reservations, orders, payments, idempotency_keys,
                 domain_events, sessions>>

\* UpdateProduct without an inventory field.
UpdateProduct(p, active) ==
  /\ p \in DOMAIN products
  /\ products' = [products EXCEPT ![p].active = active]
  /\ UNCHANGED <<clock, inventory, flash_sales, reservations, orders, payments,
                 idempotency_keys, domain_events, sessions>>

\* A recount that forgets the units reserved and sold.
RecountedAvailableOnly(row, n) == [row EXCEPT !.available = n, !.expected_total = n]

\* UpdateProduct with one: available=$2, expected_total=$2+reserved+sold.
Recounted(row, n) ==
  [row EXCEPT !.available = n, !.expected_total = n + row.reserved + row.sold]

\* The recount overtaking a transaction that has the row locked.
RecountUnlocked(p, active, n) ==
  /\ p \in DOMAIN products
  /\ products' = [products EXCEPT ![p].active = active]
  /\ inventory' = [inventory EXCEPT ![p] = Recounted(@, n)]
  /\ UNCHANGED <<clock, flash_sales, reservations, orders, payments, idempotency_keys,
                 domain_events, sessions>>

UpdateProductInventory(p, active, n) ==
  /\ p \in DOMAIN products
  /\ Unlocked("inventory", p)
  /\ products' = [products EXCEPT ![p].active = active]
  /\ inventory' = [inventory EXCEPT ![p] = Recounted(@, n)]
  /\ UNCHANGED <<clock, flash_sales, reservations, orders, payments, idempotency_keys,
                 domain_events, sessions>>

\* The foreign key to products must resolve.
CreateSale(s) ==
  /\ s \in Sales \ DOMAIN flash_sales
  /\ ProductOf[s] \in DOMAIN products
  /\ flash_sales' = Insert(flash_sales, s,
       [state |-> IF StartsAt[s] > clock THEN "scheduled" ELSE "draft",
        remaining_stock |-> Allocated[s]])
  /\ UNCHANGED <<clock, products, inventory, reservations, orders, payments,
                 idempotency_keys, domain_events, sessions>>

\* From any state: no transition of a sale is refused.
SetSaleState(s, state) ==
  /\ s \in DOMAIN flash_sales
  /\ Unlocked("flash_sales", s)
  /\ flash_sales' = [flash_sales EXCEPT ![s].state = state]
  /\ UNCHANGED <<clock, products, inventory, reservations, orders, payments,
                 idempotency_keys, domain_events, sessions>>
=============================================================================
