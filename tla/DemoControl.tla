---------------------------- MODULE DemoControl ----------------------------
(***************************************************************************)
(* The demo's controls, at work on one database at the same time: the      *)
(* handlers for status, reset and load test, the seeding of cmd/seed and   *)
(* of an API's start, and cmd/loadgen.  Each of them is a driver.  Their   *)
(* transactions, Store.Reserve and Store.ExpireBatch among them, are the   *)
(* whole transactions of StockLedger; DemoStatus is no transaction but     *)
(* several statements, each of which sees the tables of its own moment.    *)
(***************************************************************************)
EXTENDS StockLedger

CONSTANTS
  Drivers,
  DriverKinds, \* what a driver may be
  RequestIDs,  \* X-Request-IDs of the client's, who may repeat one
  Buyers,      \* of a load test, and of loadgen (1000 of them)
  Proofs,      \* loadgen's concurrent retries of one key (100)
  DemoUnits,   \* inventory of a reset (100)
  DemoProducts,\* the products whose sku is FLASH-100, which their insert gives them
  Canonical    \* how the database writes a sale's id

Kinds == {"status", "reset", "seed", "loadtest", "loadgen"}

\* The key of loadgen's proof, and the user it reserves for.
ProofKey == <<"idempotency-proof", 0>>

\* The database starts empty, or with an administrator's one sale of the whole
\* stock of a product of its own.
ASSUME CatalogueAssumption ==
  SeedSales # {} =>
    \E s \in Sales : /\ SeedSales = {s}
                    /\ ProductOf[s] \notin DemoProducts
                    /\ Stock[ProductOf[s]] = Allocated[s]
                    /\ Allocated[s] <= DemoUnits

\* Ids are numbers, in the order in which they are drawn; a request that comes
\* without an id is given one of its own.
ASSUME ControlAssumption ==
  /\ DriverKinds \subseteq Kinds
  /\ IsFiniteSet(Buyers)
  /\ Proofs \in Nat /\ DemoUnits \in Nat \ {0}
  /\ MaxQuantity >= 1 /\ Canonical \in Spellings
  /\ DemoProducts \subseteq Products
  /\ Sales \subseteq Nat /\ NULL \notin Sales
  /\ Drivers \cap RequestIDs = {}
  /\ ProofKey \notin Drivers \X Buyers
  /\ {ProofKey} \cup (Kinds \X Buyers) \subseteq Users

VARIABLES
  driver,    \* the progress of each driver
  drawn      \* the ids NewID has drawn; it never draws one twice

controlVars == <<ledgerVars, driver, drawn>>

\* sale is what ResetDemo reported; next is what follows a DemoStatus; whole is
\* false when a transaction has committed since the first read of the status;
\* got counts the ids that loadgen's retries sent, same those equal to the first;
\* restored is what its ExpireBatch gave back.
Idle == [kind |-> NULL, id |-> NULL, at |-> "idle", next |-> "done", sale |-> NULL,
         whole |-> FALSE,
         status |-> [inventory |-> NULL, sale |-> NULL, remaining |-> 0, reservations |-> 0,
                     orders |-> 0],
         retries |-> 0, waiting |-> {}, first |-> NULL, got |-> 0, same |-> 0,
         until |-> 0, restored |-> 0,
         successful |-> 0, duplicate |-> 0, soldOut |-> 0, failed |-> 0]

\* An error returns no report.
Error == [Idle EXCEPT !.at = "error"]

Reading == {"sale", "reservations", "orders"}

\* A driver's next state, when its step reads, and when it has committed.
Read(d, state) == driver' = [driver EXCEPT ![d] = state] /\ UNCHANGED <<ledgerVars, drawn>>
Committed(d, state) ==
  driver' = [x \in Drivers |->
    IF x = d THEN state
    ELSE IF driver[x].at \in Reading THEN [driver[x] EXCEPT !.whole = FALSE] ELSE driver[x]]

\* NewID: ids are named in the order in which they are drawn.
NewID(ids) == CHOOSE x \in ids \ drawn : \A y \in ids \ drawn : x <= y

-----------------------------------------------------------------------------
Begin(d) ==
  /\ driver[d].at = "idle"
  /\ \E kind \in DriverKinds, id \in {d} \cup RequestIDs :
       /\ kind # "loadtest" => id = d
       /\ Read(d, [driver[d] EXCEPT
            !.kind = kind,
            !.id = id,
            !.at = CASE kind = "status" -> "product" [] kind = "seed" -> "look"
                     [] OTHER -> "reset",
            !.next = CASE kind = "loadtest" -> "buy" [] kind = "loadgen" -> "prove"
                       [] OTHER -> "done"])

\* A seed that is content with any product.
LookForAnyProduct(d) ==
  /\ driver[d].at = "look"
  /\ Read(d, [driver[d] EXCEPT !.at = IF DOMAIN products = {} THEN "reset" ELSE "product"])

\* EnsurePublicDemo: SELECT EXISTS (... WHERE sku='FLASH-100'), and then the
\* status, or the reset, over whatever catalogue there is.
Look(d) ==
  LET exists == DOMAIN products \cap DemoProducts # {} IN
  /\ driver[d].at = "look"
  /\ Read(d, [driver[d] EXCEPT !.at = IF exists THEN "product" ELSE "reset"])

\* TRUNCATE, and one product with one active sale of its n units.
Reset(d) ==
  LET n   == IF driver[d].next = "prove" THEN 1 ELSE DemoUnits
      ids == {s \in Sales : ProductOf[s] \in DemoProducts /\ Allocated[s] = n}
      s   == NewID(ids)
      p   == ProductOf[s]
  IN /\ driver[d].at = "reset"
     /\ ids \ drawn # {}
     /\ drawn' = drawn \cup {s}
     /\ products' = [x \in {p} |-> [active |-> TRUE]]
     /\ inventory' = [x \in {p} |->
          [available |-> n, reserved |-> 0, sold |-> 0, expected_total |-> n]]
     /\ flash_sales' = [x \in {s} |-> [state |-> "active", remaining_stock |-> n]]
     /\ reservations' = NoRows
     /\ orders' = NoRows
     /\ payments' = NoRows
     /\ idempotency_keys' = NoRows
     /\ domain_events' = [r \in ReservationIDs |-> <<>>]
     /\ UNCHANGED clock
     /\ Committed(d, [driver[d] EXCEPT !.at = "product", !.status = Idle.status])

\* The context ends, or the reset is the victim of a deadlock with a reservation,
\* which takes the locks on the tables in another order.
GiveUp(d) ==
  /\ driver[d].at \in {"look", "reset", "expire"}
  /\ Read(d, Error)

-----------------------------------------------------------------------------
\* The reads of DemoStatus: the oldest product, the oldest sale, and the counts.
ReadProduct(d) ==
  /\ driver[d].at = "product"
  /\ \/ DOMAIN products = {} /\ Read(d, Error)
     \/ \E p \in DOMAIN products :
          Read(d, [driver[d] EXCEPT !.at = "sale", !.status.inventory = inventory[p],
                                    !.whole = TRUE])

ReadSale(d) ==
  /\ driver[d].at = "sale"
  /\ \E s \in DOMAIN flash_sales :
       Read(d, [driver[d] EXCEPT !.at = "reservations", !.status.sale = s,
                                 !.status.remaining = flash_sales[s].remaining_stock])

ReadReservations(d) ==
  /\ driver[d].at = "reservations"
  /\ Read(d, [driver[d] EXCEPT !.at = "orders",
                               !.status.reservations = Cardinality(DOMAIN reservations)])

\* No order is there twice: orders.reservation_id is unique.  The driver goes on.
ReadOrders(d) ==
  LET next == driver[d].next IN
  /\ driver[d].at = "orders"
  /\ Read(d, [driver[d] EXCEPT !.at = next,
                               !.status.orders = Cardinality(DOMAIN orders),
                               !.sale = IF next = "done" THEN @ ELSE driver[d].status.sale,
                               !.retries = IF next = "prove" THEN Proofs ELSE 0,
                               !.waiting = IF next = "buy" THEN Buyers ELSE {}])

\* A sum that leaves the reserved units out.
PassesUnreserved(status) ==
  LET i == status.inventory IN
  /\ status.reservations = status.orders
  /\ i.available + i.sold = Allocated[status.sale]

\* status.InvariantPass.
Passes(status) ==
  LET i == status.inventory IN
  /\ status.reservations = status.orders
  /\ i.available + i.reserved + i.sold = Allocated[status.sale]
  /\ status.remaining + i.reserved + i.sold = Allocated[status.sale]

\* report.ZeroOverselling: the verdict of a load test, and loadgen's.
ZeroOverselling(d) ==
  /\ Passes(driver[d].status)
  /\ driver[d].successful <= DemoUnits
  /\ driver[d].kind = "loadgen" => driver[d].same = Proofs /\ driver[d].restored = 1

-----------------------------------------------------------------------------
(***************************************************************************)
(* Store.Reserve for one unit, as the demo meets it.  Its sales are open,  *)
(* and a sale and its inventory have the same units left, so that neither  *)
(* SALE_NOT_ACTIVE nor RefuseShort is met.                                 *)
(***************************************************************************)
ReserveRequest(u, s) ==
  [sale_id |-> s, spelling |-> Canonical, user_id |-> u, quantity |-> 1]

\* One unit is kept back.
SoldOutEarly(s) == flash_sales[s].remaining_stock <= 1

SoldOut(s) == flash_sales[s].remaining_stock < 1

Code(k, u, s) ==
  CASE k \in DOMAIN idempotency_keys ->
         IF idempotency_keys[k].request = ReserveRequest(u, s) THEN idempotency_keys[k].code
                                                               ELSE "IDEMPOTENCY_CONFLICT"
    [] k \notin DOMAIN idempotency_keys /\ s \notin DOMAIN flash_sales -> "SALE_NOT_FOUND"
    [] OTHER ->
         IF Sum(reservations, OfUser(reservations, s, u, Active)) + 1 > MaxPerUser[s]
         THEN "PURCHASE_LIMIT_EXCEEDED"
         ELSE IF SoldOut(s) THEN "INVENTORY_SOLD_OUT" ELSE "CREATED"

\* The reservation an answer of "CREATED" names.
Id(k) == IF k \in DOMAIN idempotency_keys THEN idempotency_keys[k].resource_id
                                          ELSE NewID(ReservationIDs)

Reserve(k, u, s) ==
  \/ k \in DOMAIN idempotency_keys /\ UNCHANGED <<ledgerVars, drawn>>
  \/ /\ k \notin DOMAIN idempotency_keys
     /\ Code(k, u, s) = "CREATED"
     /\ Grant(k, ReserveRequest(u, s), Id(k))
     /\ reservations'[Id(k)].expires_at = clock + TTL
     /\ drawn' = drawn \cup {Id(k)}
  \/ /\ k \notin DOMAIN idempotency_keys
     /\ Code(k, u, s) # "CREATED"
     /\ Refuse(k, ReserveRequest(u, s), Code(k, u, s))
     /\ UNCHANGED drawn

-----------------------------------------------------------------------------
\* loadgen's proof: goroutines that retry one key; those that fail send no id.
Prove(d) ==
  LET code == Code(ProofKey, ProofKey, driver[d].sale)
      id   == Id(ProofKey)
      me   == [driver[d] EXCEPT !.retries = @ - 1]
  IN /\ driver[d].at = "prove" /\ driver[d].retries > 0
     /\ Reserve(ProofKey, ProofKey, driver[d].sale)
     /\ Committed(d,
          IF code # "CREATED" THEN me
          ELSE [me EXCEPT !.got = @ + 1, !.first = IF @ = NULL THEN id ELSE @,
                          !.same = IF driver[d].first \in {NULL, id} THEN @ + 1 ELSE @])

ProveFails(d) ==
  /\ driver[d].at = "prove" /\ driver[d].retries > 0
  /\ \/ Reserve(ProofKey, ProofKey, driver[d].sale)
     \/ UNCHANGED <<ledgerVars, drawn>>
  /\ Committed(d, [driver[d] EXCEPT !.retries = @ - 1])

\* GetReservation of the first id.
GetProof(d) ==
  LET r == driver[d].first IN
  /\ driver[d].at = "prove" /\ driver[d].retries = 0
  /\ \/ /\ r \in DOMAIN reservations
        /\ Read(d, [driver[d] EXCEPT !.at = "expire", !.until = reservations[r].expires_at + 1])
     \/ /\ r \notin DOMAIN reservations
        /\ Read(d, Error)

\* ExpireBatch at a time to come: everything pending until then, whoever's it is.
\* A row that someone else has locked is skipped.
ExpireProof(d) ==
  \E S \in SUBSET {r \in DOMAIN reservations : /\ reservations[r].state = "pending"
                                               /\ reservations[r].expires_at <= driver[d].until} :
    /\ driver[d].at = "expire"
    /\ Release(S, "expired")
    /\ Committed(d, [driver[d] EXCEPT !.at = "reset", !.next = "buy",
                                   !.restored = Cardinality(S),
                                   !.first = NULL, !.until = 0])
    /\ UNCHANGED drawn

\* One buyer's attempt and what the report counts it as.  The keys contain the
\* request's id, or loadgen's start time.
Buyer(d, i) == <<driver[d].kind, i>>
BuyerKey(d, i) == <<driver[d].id, i>>

Attempt(d, i) ==
  LET code == Code(BuyerKey(d, i), Buyer(d, i), driver[d].sale)
      me   == [driver[d] EXCEPT !.waiting = @ \ {i}]
  IN /\ driver[d].at = "buy" /\ i \in driver[d].waiting
     /\ Reserve(BuyerKey(d, i), Buyer(d, i), driver[d].sale)
     /\ Committed(d, CASE code = "CREATED" ->
                            IF BuyerKey(d, i) \in DOMAIN idempotency_keys
                            THEN [me EXCEPT !.duplicate = @ + 1]
                            ELSE [me EXCEPT !.successful = @ + 1]
                       [] code = "INVENTORY_SOLD_OUT" -> [me EXCEPT !.soldOut = @ + 1]
                       [] OTHER -> [me EXCEPT !.failed = @ + 1])

\* An attempt that ends in an error, its COMMIT done or not.
AttemptFails(d, i) ==
  /\ driver[d].at = "buy" /\ i \in driver[d].waiting
  /\ \/ Reserve(BuyerKey(d, i), Buyer(d, i), driver[d].sale)
     \/ UNCHANGED <<ledgerVars, drawn>>
  /\ Committed(d, [driver[d] EXCEPT !.waiting = @ \ {i}, !.failed = @ + 1])

\* wg.Wait returns, and the final status is read.
Bought(d) ==
  /\ driver[d].at = "buy" /\ driver[d].waiting = {}
  /\ Read(d, [driver[d] EXCEPT !.at = "product", !.next = "done", !.status = Idle.status])

-----------------------------------------------------------------------------
ControlInit ==
  /\ TablesInit
  /\ driver = [d \in Drivers |-> Idle]
  /\ drawn = SeedSales

ControlNext ==
  \E d \in Drivers :
    \/ Begin(d) \/ Look(d) \/ Reset(d) \/ GiveUp(d)
    \/ ReadProduct(d) \/ ReadSale(d) \/ ReadReservations(d) \/ ReadOrders(d)
    \/ Prove(d) \/ ProveFails(d) \/ GetProof(d) \/ ExpireProof(d)
    \/ (\E i \in Buyers : Attempt(d, i) \/ AttemptFails(d, i)) \/ Bought(d)

ControlSpec == ControlInit /\ [][ControlNext]_controlVars

-----------------------------------------------------------------------------
\* The buyers that have a reservation under their keys.
Served(d) ==
  {i \in Buyers \ driver[d].waiting :
     /\ BuyerKey(d, i) \in DOMAIN idempotency_keys
     /\ idempotency_keys[BuyerKey(d, i)].request.sale_id = driver[d].sale
     /\ idempotency_keys[BuyerKey(d, i)].code = "CREATED"}

\* Nobody has reset the demo or given units back since the sale was made.
Undisturbed(s) ==
  /\ s \in DOMAIN flash_sales
  /\ \A r \in DOMAIN reservations : reservations[r].state # "expired"

(***************************************************************************)
(* README.md: "1,000 buyers. 100 items. Exactly 100 successful             *)
(* reservations."  Whatever else resets, seeds and tests on the same       *)
(* database: as long as a sale stands and none of its reservations was     *)
(* expired, a report on it counts the reservations its buyers got, and     *)
(* misses some only among the attempts it counts as failed; nobody is sold *)
(* out while there is a unit left; and loadgen's retries all get the one   *)
(* reservation.                                                            *)
(***************************************************************************)
ReportsExact ==
  \A d \in Drivers :
    LET me == driver[d] IN
    Undisturbed(me.sale) =>
       /\ Cardinality(Served(d)) - me.successful - me.duplicate \in 0..me.failed
       /\ me.soldOut > 0 =>
            Sum(reservations, OfSale(reservations, me.sale, Active)) = Allocated[me.sale]
       /\ me.same = me.got

(***************************************************************************)
(* The dashboard never reads "Broken" off sound tables, and no load test   *)
(* concludes that its sale was oversold, unless a transaction commits      *)
(* between the statements of the status or gives the test's units back, or *)
(* one of loadgen's retries failed or its batch did not find the one       *)
(* reservation to expire.                                                  *)
(***************************************************************************)
StatusHolds ==
  \A d \in Drivers :
    driver[d].at \in {"buy", "prove", "done"} /\ driver[d].whole =>
      /\ Passes(driver[d].status)
      /\ driver[d].at = "done" /\ Undisturbed(driver[d].sale) =>
           \/ ZeroOverselling(d)
           \/ driver[d].kind = "loadgen" /\ (driver[d].got < Proofs \/ driver[d].restored # 1)

(***************************************************************************)
(* EnsurePublicDemo answers a question with one statement and acts on the  *)
(* answer with later ones.  However many seeds, resets and tests are under *)
(* way, and over whatever catalogue: a seed that has returned leaves the   *)
(* demo's sale open for visitors (ReservePublicDemo asks for the same sku, *)
(* and is 503 without it), and what it reports is a sale of the demo.      *)
(***************************************************************************)
DemoThere ==
  /\ DOMAIN flash_sales # {}
  /\ \A s \in DOMAIN flash_sales :
       ProductOf[s] \in DemoProducts /\ flash_sales[s].state = "active"

SeedsTheDemo ==
  \A d \in Drivers :
    driver[d].kind = "seed" /\ driver[d].at = "done" =>
      DemoThere /\ ProductOf[driver[d].status.sale] \in DemoProducts
=============================================================================
