----------------------------- MODULE PublicDemo -----------------------------
(***************************************************************************)
(* POST /public-demo/reservations: anonymous visitors reserve one unit of  *)
(* the demo's sale.  Store.ReservePublicDemo runs three transactions: the  *)
(* first enters the Idempotency-Key in public_demo_actions, within a       *)
(* budget per minute over all processes, and deletes what is older than a  *)
(* day; the second finds the sale; the third is Store.Reserve, taken here  *)
(* as the whole transactions of StockLedger.                               *)
(***************************************************************************)
EXTENDS StockLedger, Functions

CONSTANTS
  Calls,          \* handler goroutines, of all API processes
  MaxPerMinute,   \* cfg.DemoMaxConcurrency
  Canonical,      \* how the database writes a sale's id
  Minute, Day     \* the two intervals of the SQL, in ticks of the clock

ASSUME DemoAssumption ==
  /\ MaxPerMinute \in 1..100
  /\ Minute \in Nat /\ Day \in Nat /\ Minute <= Day
  /\ Keys \subseteq Users
  /\ Canonical \in Spellings
  /\ MaxQuantity >= 1

\* ResetDemo seeds the demo product with one sale, of one unit to a user.
ASSUME DemoSaleAssumption == \E s \in Sales : SeedSales = {s} /\ MaxPerUser[s] = 1

VARIABLES
  public_demo_actions,   \* when each key was entered
  key_expires,           \* idempotency_keys.expires_at
  calls,                 \* the progress of each call
  grants                 \* history: when each key's reservations were begun and made

demo == <<public_demo_actions, key_expires, calls, grants>>
demoVars == <<ledgerVars, demo>>

Returned == [at |-> "none"]

Return(c) == calls' = [calls EXCEPT ![c] = Returned]

(***************************************************************************)
(* The first transaction.  now() is the time it began, however long it     *)
(* waits for the advisory lock.                                            *)
(***************************************************************************)
BeginPublic(c, k) ==
  /\ calls[c] = Returned
  /\ calls' = [calls EXCEPT ![c] = [at |-> "lock", key |-> k, now |-> clock, sale |-> NULL]]
  /\ UNCHANGED <<ledgerVars, public_demo_actions, key_expires, grants>>

\* The actions a purge at `now` leaves, and those of the minute before it.
KeptActions(now) == {k \in DOMAIN public_demo_actions : public_demo_actions[k] >= now - Day}
Recent(now) == {k \in DOMAIN public_demo_actions : public_demo_actions[k] > now - Minute}

\* A purge that counts a minute too many.
KeysWellFresh(now) == {k \in DOMAIN key_expires : key_expires[k] > now + Minute}

\* The keys a purge at `now` leaves.
KeptKeys(now) == {k \in DOMAIN key_expires : key_expires[k] >= now}

\* Counting without the advisory lock.
CountUnlocked(c) ==
  LET call == calls[c] IN
  /\ call.at = "lock"
  /\ call.key \in KeptActions(call.now) \/ Cardinality(Recent(call.now)) < MaxPerMinute
  /\ calls' = [calls EXCEPT ![c].at = "admit"]
  /\ UNCHANGED <<ledgerVars, public_demo_actions, key_expires, grants>>

\* The lock, the EXISTS and the count; a new key over the budget is turned away.
LockAndCount(c) ==
  LET call == calls[c]
      admitted == \/ call.key \in KeptActions(call.now)
                  \/ Cardinality(Recent(call.now)) < MaxPerMinute
  IN /\ call.at = "lock"
     /\ \A d \in Calls : calls[d].at # "admit"
     /\ \/ admitted /\ calls' = [calls EXCEPT ![c].at = "admit"]
        \/ ~ admitted /\ Return(c)
     /\ UNCHANGED <<ledgerVars, public_demo_actions, key_expires, grants>>

\* INSERT, unless the key is there already, and COMMIT of the purge with it.
CommitAdmission(c) ==
  LET call == calls[c]
      kept == Restrict(public_demo_actions, KeptActions(call.now))
  IN /\ call.at = "admit"
     /\ public_demo_actions' = IF call.key \in DOMAIN kept THEN kept
                               ELSE Insert(kept, call.key, call.now)
     /\ idempotency_keys' = Restrict(idempotency_keys, KeptKeys(call.now))
     /\ key_expires' = Restrict(key_expires, KeptKeys(call.now))
     /\ calls' = [calls EXCEPT ![c].at = "find"]
     /\ UNCHANGED <<clock, products, inventory, flash_sales, reservations, orders, payments,
                    domain_events, grants>>

Open(s, now) == flash_sales[s].state = "active" /\ StartsAt[s] <= now /\ now < EndsAt[s]

\* The demo's sale, if one is open: every sale of this model is the demo
\* product's.  Store.Reserve begins its transaction with what was found.
FindSale(c) ==
  LET open == {s \in DOMAIN flash_sales : Open(s, clock)} IN
  /\ calls[c].at = "find"
  /\ \/ open = {} /\ Return(c)
     \/ \E s \in open :
          calls' = [calls EXCEPT ![c].at = "reserve", ![c].sale = s, ![c].now = clock]
  /\ UNCHANGED <<ledgerVars, public_demo_actions, key_expires, grants>>

\* An identity that has nothing to do with the key.
StrangerFor(k) == CHOOSE u \in Users : \A r \in DOMAIN reservations : reservations[r].user_id # u

\* "public-" and a digest of the key.
UserFor(k) == k

\* The sale's id is passed on as the database wrote it.
DemoRequest(s, k) ==
  [sale_id |-> s, spelling |-> Canonical, user_id |-> UserFor(k), quantity |-> 1]

\* The refusals of Store.Reserve a visitor can meet while no administrator is at work.
Refused(k, req) ==
  LET s == req.sale_id IN
  \/ ~ Open(s, clock) /\ Refuse(k, req, "SALE_NOT_ACTIVE")
  \/ /\ Sum(reservations, OfUser(reservations, s, req.user_id, Active)) >= MaxPerUser[s]
     /\ Refuse(k, req, "PURCHASE_LIMIT_EXCEEDED")
  \/ flash_sales[s].remaining_stock = 0 /\ Refuse(k, req, "INVENTORY_SOLD_OUT")

\* Store.Reserve: replayed, granted or refused, and the key kept for a day.
ReserveDemo(c) ==
  LET k == calls[c].key
      req == DemoRequest(calls[c].sale, k)
  IN /\ calls[c].at = "reserve"
     /\ \/ /\ k \in DOMAIN idempotency_keys
           /\ UNCHANGED <<ledgerVars, key_expires, grants>>
        \/ \E r \in ReservationIDs :
           /\ Grant(k, req, r)
           /\ reservations'[r].expires_at >= calls[c].now + TTL
           /\ grants' = [grants EXCEPT ![k] =
                           Insert(@, r, [began |-> calls[c].now, made |-> clock])]
           /\ key_expires' = Insert(key_expires, k, calls[c].now + Day)
        \/ /\ Refused(k, req)
           /\ key_expires' = Insert(key_expires, k, calls[c].now + Day)
           /\ UNCHANGED grants
     /\ Return(c)
     /\ UNCHANGED public_demo_actions

\* The visitor or the process goes away: the open transaction is rolled back.
Lose(c) ==
  /\ calls[c] # Returned
  /\ Return(c)
  /\ UNCHANGED <<ledgerVars, public_demo_actions, key_expires, grants>>

\* Time passes, and the worker sweeps.
Elsewhere ==
  /\ Tick \/ \E r \in DOMAIN reservations : Expire({r})
  /\ UNCHANGED demo

DemoInit ==
  /\ TablesInit
  /\ public_demo_actions = NoRows
  /\ key_expires = NoRows
  /\ calls = [c \in Calls |-> Returned]
  /\ grants = [k \in Keys |-> NoRows]

DemoNext ==
  \/ Elsewhere
  \/ \E c \in Calls :
       \/ \E k \in Keys : BeginPublic(c, k)
       \/ LockAndCount(c) \/ CommitAdmission(c) \/ FindSale(c) \/ ReserveDemo(c) \/ Lose(c)

DemoSpec == DemoInit /\ [][DemoNext]_demoVars

-----------------------------------------------------------------------------
(***************************************************************************)
(* The global budget: no more than maxPerMinute actions were entered in    *)
(* any minute, although each transaction looks back from the time it began *)
(* and may have waited for the lock since.                                 *)
(***************************************************************************)
PublicBudgetHeld ==
  \A t \in 0..clock :
    Cardinality({k \in DOMAIN public_demo_actions :
                   t - Minute < public_demo_actions[k] /\ public_demo_actions[k] <= t})
      <= MaxPerMinute

(***************************************************************************)
(* A visitor may retry for a day: no second reservation is made under a    *)
(* key until more than a day after the one that made the first began, the  *)
(* purges run by other visitors' calls notwithstanding.                    *)
(***************************************************************************)
OneGrantADay ==
  \A k \in Keys : \A r, q \in DOMAIN grants[k] :
    r # q => \/ grants[k][q].made > grants[k][r].began + Day
             \/ grants[k][r].made > grants[k][q].began + Day

(***************************************************************************)
(* And a key never holds two units at once, even when its first response   *)
(* has been purged: the visitor's identity is derived from the key and the *)
(* demo's sale allows one unit per user.                                   *)
(***************************************************************************)
OneUnitPerKey ==
  \A k \in Keys : \A r, q \in DOMAIN grants[k] :
    reservations[r].state \in Active /\ reservations[q].state \in Active => r = q
=============================================================================
