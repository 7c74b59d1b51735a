----------------------------- MODULE Expiration -----------------------------
(***************************************************************************)
(* Store.ExpireBatch: one transaction that takes up to `limit` pending     *)
(* reservations that are due, oldest first and skipping rows another       *)
(* transaction has locked, marks them expired and then, one by one, gives  *)
(* their units back to inventory and sale and expires their orders.  The   *)
(* worker (expirationworker.Run) calls it at every tick with the tick's    *)
(* time, in as many processes as are deployed.                             *)
(***************************************************************************)
EXTENDS Sessions

\* A tick: `now` is the time the ticker delivered.
BeginExpire(self, limit) ==
  Begin(self, [limit |-> limit, at |-> "select", current |-> NULL, op |-> "expire",
               batch |-> {}, now |-> clock, todo |-> {}])

\* ExpirationResult.  The ids stand for the rows the batch expired.
ExpirationReply(ids) ==
  [op |-> "expire", code |-> "OK", restored |-> Cardinality(ids), ids |-> ids]

\* Due by time alone, whatever the reservation's state.
IsOverdue(r, now) == reservations[r].expires_at <= now

IsDue(r, now) == reservations[r].state = "pending" /\ reservations[r].expires_at <= now

\* The candidates query without row locks: a row being confirmed is taken too.
CandidatesUnlocked(self) == {r \in DOMAIN reservations : IsDue(r, tx[self].now)}

\* The rows the candidates query can lock without waiting.
Candidates(self) ==
  {r \in DOMAIN reservations :
     IsDue(r, tx[self].now) /\ Free(self, "reservations", r, "update")}

\* ORDER BY expires_at ... LIMIT over the candidates.
Oldest(S, due, limit) ==
  /\ S \subseteq due
  /\ Cardinality(S) = IF Cardinality(due) < limit THEN Cardinality(due) ELSE limit
  /\ \A r \in S, d \in due \ S : reservations[r].expires_at <= reservations[d].expires_at

SelectBatch(self) ==
  LET due == Candidates(self) IN
  /\ At(self, "expire", "select")
  /\ \/ /\ due = {}
        /\ Finish(self, ExpirationReply({}))
     \/ /\ due # {}
        /\ \E S \in SUBSET due, first \in due :
             /\ Oldest(S, due, tx[self].limit) /\ first \in S
             /\ held' = [held EXCEPT ![self] = {<<"reservations", r, "update">> : r \in S}]
             /\ tx' = [tx EXCEPT ![self].at = "inventory", ![self].batch = S,
                                 ![self].todo = S, ![self].current = first]
        /\ UNCHANGED reply
  /\ UNCHANGED <<clock, tables>>

(***************************************************************************)
(* The loop over the batch, in whatever order RETURNING gave the rows.     *)
(* The UPDATE of inventory sees the restorations this transaction has      *)
(* already made; when reserved is too small for it ExpireBatch returns an  *)
(* error, and the rollback is Abort.                                       *)
(***************************************************************************)
Done(self, p) ==
  {r \in tx[self].batch \ tx[self].todo : ProductOf[reservations[r].sale_id] = p}

\* reserved >= $2, as the transaction sees the row.
Restorable(self) ==
  LET row == reservations[tx[self].current]
      p == ProductOf[row.sale_id]
  IN inventory[p].reserved - Sum(reservations, Done(self, p)) >= row.quantity

RestoreInventory(self) ==
  LET p == ProductOf[reservations[tx[self].current].sale_id] IN
  /\ At(self, "expire", "inventory")
  /\ Restorable(self)
  /\ Acquire(self, "inventory", p, "no key update")
  /\ Goto(self, "sale")
  /\ UNCHANGED <<clock, tables, reply>>

RestoreSale(self) ==
  /\ At(self, "expire", "sale")
  /\ Acquire(self, "flash_sales", reservations[tx[self].current].sale_id, "no key update")
  /\ Goto(self, "order")
  /\ UNCHANGED <<clock, tables, reply>>

ExpireOrder(self) ==
  LET left == tx[self].todo \ {tx[self].current} IN
  /\ At(self, "expire", "order")
  /\ Acquire(self, "orders", tx[self].current, "no key update")
  /\ \/ left = {} /\ tx' = [tx EXCEPT ![self].at = "commit", ![self].todo = {},
                                      ![self].current = NULL]
     \/ \E next \in left : tx' = [tx EXCEPT ![self].at = "inventory", ![self].todo = left,
                                            ![self].current = next]
  /\ UNCHANGED <<clock, tables, reply>>

\* The units of the batch that go back to product p and to sale s.
BatchOfProduct(self, p) ==
  Sum(reservations, {r \in tx[self].batch : ProductOf[reservations[r].sale_id] = p})
BatchOfSale(self, s) ==
  Sum(reservations, {r \in tx[self].batch : reservations[r].sale_id = s})

\* A batch that leaves the orders as they are.
CommitExpireWithoutOrders(self) ==
  LET S == tx[self].batch IN
  /\ At(self, "expire", "commit")
  /\ reservations' = [r \in DOMAIN reservations |->
       IF r \in S THEN [reservations[r] EXCEPT !.state = "expired"] ELSE reservations[r]]
  /\ inventory' = [p \in DOMAIN inventory |->
       [inventory[p] EXCEPT !.available = @ + BatchOfProduct(self, p),
                            !.reserved = @ - BatchOfProduct(self, p)]]
  /\ flash_sales' = [s \in DOMAIN flash_sales |->
       [flash_sales[s] EXCEPT !.remaining_stock = @ + BatchOfSale(self, s)]]
  /\ Event(S, "pending", "expired")
  /\ Finish(self, ExpirationReply(S))
  /\ UNCHANGED <<clock, products, orders, payments, idempotency_keys>>

\* A batch that ends without COMMIT, so that the deferred rollback undoes it.
CommitExpireForgotten(self) ==
  /\ At(self, "expire", "commit")
  /\ Finish(self, ExpirationReply(tx[self].batch))
  /\ UNCHANGED <<clock, tables>>

CommitExpire(self) ==
  LET S == tx[self].batch IN
  /\ At(self, "expire", "commit")
  /\ reservations' = [r \in DOMAIN reservations |->
       IF r \in S THEN [reservations[r] EXCEPT !.state = "expired"] ELSE reservations[r]]
  /\ orders' = [r \in DOMAIN orders |-> IF r \in S THEN "expired" ELSE orders[r]]
  /\ inventory' = [p \in DOMAIN inventory |->
       [inventory[p] EXCEPT !.available = @ + BatchOfProduct(self, p),
                            !.reserved = @ - BatchOfProduct(self, p)]]
  /\ flash_sales' = [s \in DOMAIN flash_sales |->
       [flash_sales[s] EXCEPT !.remaining_stock = @ + BatchOfSale(self, s)]]
  /\ Event(S, "pending", "expired")
  /\ Finish(self, ExpirationReply(S))
  /\ UNCHANGED <<clock, products, payments, idempotency_keys>>

ExpireStep(self) ==
  \/ SelectBatch(self) \/ RestoreInventory(self) \/ RestoreSale(self)
  \/ ExpireOrder(self) \/ CommitExpire(self)
=============================================================================
