------------------------- MODULE DemoControlProofs -------------------------
(***************************************************************************)
(* Proofs about DemoControl, for any number of drivers of any kind, any    *)
(* number of buyers, retries and units, and an empty database or one with  *)
(* a sale of another sku: what the reports count, what the dashboard       *)
(* concludes and what a seed leaves behind.                                *)
(***************************************************************************)
EXTENDS DemoControl, StockLedgerProofs

Ats == {"idle", "look", "reset", "product", "sale", "reservations", "orders", "prove",
        "expire", "buy", "done", "error"}

StatusRow == [inventory : InventoryRow \cup {NULL}, sale : Sales \cup {NULL},
              remaining : Nat, reservations : Nat, orders : Nat]

DriverRow ==
  [kind : Kinds \cup {NULL}, id : Drivers \cup RequestIDs \cup {NULL}, at : Ats,
   next : {"done", "buy", "prove"}, sale : Sales \cup {NULL}, whole : BOOLEAN,
   status : StatusRow, retries : Nat, waiting : SUBSET Buyers,
   first : ReservationIDs \cup {NULL}, got : Nat, same : Nat, until : Nat, restored : Nat,
   successful : Nat, duplicate : Nat, soldOut : Nat, failed : Nat]

-----------------------------------------------------------------------------
(***************************************************************************)
(* The inductive invariant: of the tables, of each driver's progress, of   *)
(* what it has read, and of what it has counted.                           *)
(***************************************************************************)
\* One product, with one active sale of all its units; a key's answer is about it.
OneSale ==
  /\ DOMAIN products # {} => DOMAIN flash_sales # {}
  /\ \A s \in DOMAIN flash_sales :
       /\ DOMAIN flash_sales = {s}
       /\ flash_sales[s].state = "active"
       /\ DOMAIN products = {ProductOf[s]}
       /\ inventory[ProductOf[s]].expected_total = Allocated[s]
       /\ flash_sales[s].remaining_stock = inventory[ProductOf[s]].available
       /\ Allocated[s] <= DemoUnits

\* No unit is left of the sale, unless units were given back.
NoneLeft(s) == Undisturbed(s) => flash_sales[s].remaining_stock = 0

AnswersOfSale ==
  \A k \in DOMAIN idempotency_keys, s \in Sales :
    LET row == idempotency_keys[k] IN
    row.request.sale_id = s =>
      /\ row.code = "CREATED" => s \in DOMAIN flash_sales /\ row.resource_id \in ReservationIDs
      /\ row.code = "INVENTORY_SOLD_OUT" => NoneLeft(s)

ControlTables ==
  /\ TablesTypeOK
  /\ InventoryReconciled
  /\ OneSale
  /\ AnswersOfSale
  /\ DOMAIN flash_sales \subseteq drawn

\* The driver has not begun to buy, and will.
BeforeBuying(d) ==
  driver[d].next = "prove" \/ (driver[d].next = "buy" /\ driver[d].at # "buy")

Progress(d) ==
  LET me == driver[d] IN
  /\ me \in DriverRow
  /\ me.at = "idle" => me = Idle
  /\ me.sale \in drawn \cup {NULL} /\ me.status.sale \in drawn \cup {NULL}
  /\ me.at \in {"reservations", "orders"} => me.status.sale \in Sales
  /\ me.at \in {"prove", "expire", "buy"} => me.sale \in Sales
  /\ me.at \notin {"idle", "error"} => me.kind \in Kinds
  /\ me.at \in {"prove", "expire"} => me.next = "prove"
  /\ me.at = "buy" => me.next = "buy"
  /\ me.at \in {"look", "done", "error"} => me.next = "done"
  /\ me.kind = "seed" => me.next = "done"

\* Keys made of a driver's own name are used by it alone, when it buys.
OwnKeys(d) ==
  LET me == driver[d] IN
  /\ me.at \notin {"idle", "error"} => me.id \in {d} \cup RequestIDs
  /\ me.next = "prove" \/ (BeforeBuying(d) /\ me.sale # NULL) => me.id = d
  /\ me.at = "idle" \/ BeforeBuying(d) =>
       \A i \in Buyers : <<d, i>> \notin DOMAIN idempotency_keys

\* loadgen's retries so far got the reservation of the first.
Retried(d) ==
  LET me == driver[d] IN
  /\ me.same = me.got /\ me.got <= Proofs
  /\ me.next = "prove" /\ me.at \notin {"prove", "expire"} => me.got = 0
  /\ me.at \notin {"prove", "expire"} => me.first = NULL
  /\ me.at = "prove" => me.got + me.retries <= Proofs
  /\ me.at = "prove" /\ me.first = NULL => me.got = 0
  /\ me.at = "prove" /\ me.first # NULL /\ me.sale \in DOMAIN flash_sales =>
       /\ ProofKey \in DOMAIN idempotency_keys
       /\ idempotency_keys[ProofKey].resource_id = me.first

\* While no transaction commits, what was read is what there is.
ReadsStand(d) ==
  LET me == driver[d] IN
  me.whole =>
    /\ me.at \in Reading => \E p \in DOMAIN products : me.status.inventory = inventory[p]
    /\ me.at \in {"reservations", "orders"} =>
         /\ me.status.sale \in DOMAIN flash_sales
         /\ me.status.remaining = flash_sales[me.status.sale].remaining_stock
    /\ me.at = "orders" => me.status.reservations = Cardinality(DOMAIN reservations)
    /\ me.at \in {"buy", "prove", "done"} => Passes(me.status)

\* K are the buyers counted as served, F those counted as failed; the others
\* that are through have their answer stored, that the sale is sold out.
Counted(d, K, F) ==
  LET me == driver[d] IN
  /\ K \subseteq Buyers \ me.waiting /\ F \subseteq Buyers \ me.waiting /\ K \cap F = {}
  /\ Cardinality(K) = me.successful + me.duplicate
  /\ Cardinality(F) = me.failed
  /\ me.sale \in DOMAIN flash_sales =>
       /\ K \subseteq Served(d) /\ Served(d) \subseteq K \cup F
       /\ \A i \in Buyers \ (me.waiting \cup K \cup F) : BuyerKey(d, i) \in DOMAIN idempotency_keys

Counts(d) ==
  LET me == driver[d] IN
  /\ me.at # "buy" => me.waiting = {}
  /\ BeforeBuying(d) =>
       me.successful = 0 /\ me.duplicate = 0 /\ me.soldOut = 0 /\ me.failed = 0
  /\ ~ BeforeBuying(d) =>
       /\ \E K, F \in SUBSET Buyers : Counted(d, K, F)
       /\ me.soldOut > 0 => NoneLeft(me.sale)
       /\ Undisturbed(me.sale) =>
            me.successful + flash_sales[me.sale].remaining_stock <= Allocated[me.sale]

DriverInv(d) == Progress(d) /\ OwnKeys(d) /\ Retried(d) /\ ReadsStand(d) /\ Counts(d)

ControlInv ==
  /\ ControlTables
  /\ DOMAIN driver = Drivers
  /\ \A d \in Drivers : DriverInv(d)

-----------------------------------------------------------------------------
(***************************************************************************)
(* NewID draws an id nobody has drawn: a set of numbers has a least one.   *)
(***************************************************************************)
LEMMA Least ==
  ASSUME NEW S, S \subseteq Nat, S # {}
  PROVE  \E x \in S : \A y \in S : x <= y
<1> DEFINE R == {ss \in Nat \X Nat : ss[1] < ss[2]}
<1>1. IsWellFoundedOn(R, Nat)
  BY NatLessThanWellFounded, Zenon DEF OpToRel
<1>2. \A x, y \in Nat : (<<y, x>> \in R) <=> y < x
  OBVIOUS
<1>. HIDE DEF R
<1>3. PICK x \in S : \A y \in S : ~ (<<y, x>> \in R)
  BY <1>1, WFMin
<1>4. \A y \in S : ~ (y < x)
  BY <1>2, <1>3, Zenon
<1>5. \A y \in S : x <= y
  BY <1>4
<1>. QED
  BY <1>5

LEMMA Drawn ==
  ASSUME NEW ids, ids \subseteq Nat, ids \ drawn # {}
  PROVE  NewID(ids) \in ids \ drawn
<1>1. \E x \in ids \ drawn : \A y \in ids \ drawn : x <= y
  BY Least
<1>. QED
  BY <1>1 DEF NewID

-----------------------------------------------------------------------------
(***************************************************************************)
(* Steps, by what they do to the tables and to the other drivers.          *)
(***************************************************************************)
\* d reads: nothing but its own state changes.
Reads(d) ==
  /\ UNCHANGED <<ledgerVars, drawn>>
  /\ \A x \in Drivers \ {d} : driver'[x] = driver[x]

\* d commits: whoever is reading its status is no longer reading one state.
Aside(d) ==
  \A x \in Drivers \ {d} :
    driver'[x] = IF driver[x].at \in Reading THEN [driver[x] EXCEPT !.whole = FALSE]
                                             ELSE driver[x]

\* One request: the key and the user of loadgen's proof, or of a buyer.
RequestOf(d, k, u) ==
  \/ driver[d].at = "prove" /\ k = ProofKey /\ u = ProofKey
  \/ \E i \in Buyers : driver[d].at = "buy" /\ k = BuyerKey(d, i) /\ u = Buyer(d, i)

Requests(d) ==
  \E k, u : RequestOf(d, k, u) /\ Reserve(k, u, driver[d].sale)

LEMMA ReadStep ==
  ASSUME DOMAIN driver = Drivers, NEW d \in Drivers, NEW state, Read(d, state)
  PROVE  Reads(d) /\ driver'[d] = state /\ DOMAIN driver' = Drivers
  BY DEF Read, Reads

LEMMA CommitStep ==
  ASSUME NEW d \in Drivers, NEW state, Committed(d, state)
  PROVE  Aside(d) /\ driver'[d] = state /\ DOMAIN driver' = Drivers
  BY DEF Committed, Aside

LEMMA StepKinds ==
  ASSUME DOMAIN driver = Drivers, NEW d \in Drivers,
         \/ Begin(d) \/ Look(d) \/ Reset(d) \/ GiveUp(d)
         \/ ReadProduct(d) \/ ReadSale(d) \/ ReadReservations(d) \/ ReadOrders(d)
         \/ Prove(d) \/ ProveFails(d) \/ GetProof(d) \/ ExpireProof(d)
         \/ (\E i \in Buyers : Attempt(d, i) \/ AttemptFails(d, i)) \/ Bought(d)
  PROVE  /\ DOMAIN driver' = Drivers
         /\ \/ Reads(d)
            \/ /\ Aside(d)
               /\ \/ UNCHANGED <<ledgerVars, drawn>> \/ Requests(d)
                  \/ Reset(d) \/ ExpireProof(d)
<1>1. ASSUME NEW state, Read(d, state)
      PROVE  Reads(d) /\ DOMAIN driver' = Drivers
  BY <1>1, ReadStep
<1>2. CASE Begin(d) \/ Look(d) \/ GiveUp(d) \/ ReadProduct(d) \/ ReadSale(d)
  BY <1>1, <1>2 DEF Begin, Look, GiveUp, ReadProduct, ReadSale
<1>3. CASE ReadReservations(d) \/ ReadOrders(d) \/ GetProof(d) \/ Bought(d)
  BY <1>1, <1>3 DEF ReadReservations, ReadOrders, GetProof, Bought
<1>4. ASSUME NEW state, Committed(d, state)
      PROVE  Aside(d) /\ DOMAIN driver' = Drivers
  BY <1>4, CommitStep
<1>5. CASE Reset(d)
  BY <1>4, <1>5 DEF Reset
<1>6. CASE ExpireProof(d)
  BY <1>4, <1>6 DEF ExpireProof
<1>7. CASE Prove(d) \/ ProveFails(d)
  <2>1. \/ UNCHANGED <<ledgerVars, drawn>>
        \/ RequestOf(d, ProofKey, ProofKey) /\ Reserve(ProofKey, ProofKey, driver[d].sale)
    BY <1>7 DEF Prove, ProveFails, RequestOf
  <2>2. \E state : Committed(d, state)
    BY <1>7 DEF Prove, ProveFails
  <2>. QED
    BY <1>4, <2>1, <2>2 DEF Requests
<1>8. ASSUME NEW i \in Buyers, Attempt(d, i) \/ AttemptFails(d, i)
      PROVE  /\ DOMAIN driver' = Drivers
             /\ Aside(d)
             /\ UNCHANGED <<ledgerVars, drawn>> \/ Requests(d)
  <2>1. \/ UNCHANGED <<ledgerVars, drawn>>
        \/ /\ RequestOf(d, BuyerKey(d, i), Buyer(d, i))
           /\ Reserve(BuyerKey(d, i), Buyer(d, i), driver[d].sale)
    BY <1>8 DEF Attempt, AttemptFails, RequestOf
  <2>2. \E state : Committed(d, state)
    BY <1>8 DEF Attempt, AttemptFails
  <2>. QED
    BY <1>4, <2>1, <2>2 DEF Requests
<1>. QED
  BY <1>2, <1>3, <1>5, <1>6, <1>7, <1>8

-----------------------------------------------------------------------------
(***************************************************************************)
(* What a step may do to the tables, as far as drivers' counts can tell:   *)
(* add to them, or wipe them and make a sale of the demo nobody has seen.  *)
(***************************************************************************)
Grown ==
  /\ DOMAIN flash_sales' = DOMAIN flash_sales
  /\ \A k \in DOMAIN idempotency_keys :
       k \in DOMAIN idempotency_keys' /\ idempotency_keys'[k] = idempotency_keys[k]
  /\ \A s \in DOMAIN flash_sales :
       Undisturbed(s)' => /\ Undisturbed(s)
                          /\ flash_sales'[s].remaining_stock <= flash_sales[s].remaining_stock
  /\ drawn \subseteq drawn'

Wiped ==
  /\ DOMAIN flash_sales' # {}
  /\ \A s \in DOMAIN flash_sales' :
       s \notin drawn /\ s \in Sales /\ ProductOf[s] \in DemoProducts
  /\ DOMAIN idempotency_keys' = {}
  /\ drawn \subseteq drawn'

\* The answer to a request under a fresh key, and under a known one.
LEMMA CodeFresh ==
  ASSUME NEW k, NEW u, NEW s, k \notin DOMAIN idempotency_keys
  PROVE  /\ Code(k, u, s) \in ErrorCodes \cup {"CREATED"}
         /\ Code(k, u, s) = "INVENTORY_SOLD_OUT" => s \in DOMAIN flash_sales /\ SoldOut(s)
  BY DEF Code, ErrorCodes

LEMMA CodeStored ==
  ASSUME NEW k, NEW u, NEW s, k \in DOMAIN idempotency_keys,
         Code(k, u, s) # "IDEMPOTENCY_CONFLICT"
  PROVE  /\ idempotency_keys[k].request = ReserveRequest(u, s)
         /\ Code(k, u, s) = idempotency_keys[k].code
  BY DEF Code

\* The request of a driver is one of the schema's.
LEMMA RequestTyped ==
  ASSUME NEW d \in Drivers, Progress(d), NEW k, NEW u, RequestOf(d, k, u)
  PROVE  /\ driver[d].sale \in Sales /\ u \in Users
         /\ ReserveRequest(u, driver[d].sale) \in Request
<1>1. driver[d].at \in {"prove", "buy"}
  BY DEF RequestOf
<1>2. driver[d].sale \in Sales /\ driver[d].kind \in Kinds
  BY <1>1 DEF Progress
<1>3. u \in Users
  <2>1. ASSUME NEW i \in Buyers, u = Buyer(d, i)
        PROVE  u \in Users
    <3>1. <<driver[d].kind, i>> \in Kinds \X Buyers
      BY <1>2
    <3>. QED
      BY <2>1, <3>1, ControlAssumption DEF Buyer
  <2>. QED
    BY <2>1, ControlAssumption DEF RequestOf
<1>. QED
  BY <1>2, <1>3, ControlAssumption, SchemaAssumption DEF ReserveRequest, Request

UnitTaken(s) == flash_sales'[s].remaining_stock + 1 = flash_sales[s].remaining_stock

Stored(k, u, s, code, r) ==
  /\ DOMAIN idempotency_keys' = DOMAIN idempotency_keys \cup {k}
  /\ idempotency_keys'[k] = [request |-> ReserveRequest(u, s), code |-> code, resource_id |-> r]

\* A grant to a driver: one unit less, one answer more.
LEMMA GrantTables ==
  ASSUME ControlTables, NEW k, NEW u, NEW s, NEW r,
         ReserveRequest(u, s) \in Request, Grant(k, ReserveRequest(u, s), r), drawn \subseteq drawn'
  PROVE  /\ ControlTables' /\ Grown
         /\ Stored(k, u, s, "CREATED", r) /\ UnitTaken(s)
         /\ \A x : Undisturbed(x)' <=> Undisturbed(x)
<1> DEFINE req == ReserveRequest(u, s)
           p == ProductOf[s]
<1>0. req.sale_id = s /\ req.user_id = u /\ req.quantity = 1
  BY DEF ReserveRequest
<1>1. /\ k \in Keys \ DOMAIN idempotency_keys
      /\ r \in ReservationIDs \ DOMAIN reservations
      /\ s \in DOMAIN flash_sales
      /\ flash_sales[s].remaining_stock >= 1
      /\ flash_sales' = [flash_sales EXCEPT ![s].remaining_stock = @ - 1]
      /\ inventory' = [inventory EXCEPT ![p].available = @ - 1, ![p].reserved = @ + 1]
      /\ products' = products
      /\ idempotency_keys' = Insert(idempotency_keys, k,
           [request |-> req, code |-> "CREATED", resource_id |-> r])
  BY <1>0 DEF Grant
<1>2. Next
  BY <1>1 DEF Next
<1>3. TablesTypeOK' /\ InventoryReconciled'
  BY <1>2, StepType, StepReconciled DEF ControlTables
<1>4. /\ DOMAIN flash_sales = {s} /\ DOMAIN products = {p}
      /\ flash_sales[s].state = "active"
      /\ inventory[p].expected_total = Allocated[s]
      /\ flash_sales[s].remaining_stock = inventory[p].available
      /\ Allocated[s] <= DemoUnits
  BY <1>1 DEF ControlTables, OneSale
<1>5. /\ flash_sales[s] \in SaleRow
      /\ p \in DOMAIN inventory /\ inventory[p] \in InventoryRow
  BY <1>1, <1>4 DEF ControlTables, TablesTypeOK, IsTable
<1>6. /\ DOMAIN flash_sales' = DOMAIN flash_sales
      /\ flash_sales'[s].remaining_stock = flash_sales[s].remaining_stock - 1
      /\ flash_sales'[s].state = flash_sales[s].state
  BY <1>1, <1>5 DEF SaleRow
<1>7. /\ inventory'[p].available = inventory[p].available - 1
      /\ inventory'[p].expected_total = inventory[p].expected_total
  BY <1>1, <1>5 DEF InventoryRow
<1>8. flash_sales[s].remaining_stock \in Nat
  BY <1>5 DEF SaleRow
<1>9. OneSale'
  BY <1>1, <1>4, <1>6, <1>7 DEF OneSale
<1>10. \A x : Undisturbed(x)' <=> Undisturbed(x)
  <2>1. /\ DOMAIN reservations' = DOMAIN reservations \cup {r}
        /\ reservations'[r].state = "pending"
        /\ \A i \in DOMAIN reservations : reservations'[i] = reservations[i]
    BY <1>1 DEF Grant, Insert
  <2>. QED
    BY <1>6, <2>1 DEF Undisturbed
<1>. HIDE DEF req
<1>11. /\ DOMAIN idempotency_keys' = DOMAIN idempotency_keys \cup {k}
       /\ idempotency_keys'[k] = [request |-> req, code |-> "CREATED", resource_id |-> r]
       /\ \A j \in DOMAIN idempotency_keys : idempotency_keys'[j] = idempotency_keys[j]
  BY <1>1 DEF Insert
<1>12. Grown
  BY <1>4, <1>6, <1>8, <1>10, <1>11 DEF Grown
<1>13. AnswersOfSale'
  <2>1. SUFFICES ASSUME NEW j \in DOMAIN idempotency_keys', NEW x \in Sales,
                        idempotency_keys'[j].request.sale_id = x
                 PROVE  /\ idempotency_keys'[j].code = "CREATED" =>
                             /\ x \in DOMAIN flash_sales'
                             /\ idempotency_keys'[j].resource_id \in ReservationIDs
                        /\ idempotency_keys'[j].code = "INVENTORY_SOLD_OUT" => NoneLeft(x)'
    BY <2>1 DEF AnswersOfSale
  <2>2. CASE j = k
    BY <1>0, <1>1, <1>6, <1>11, <2>1, <2>2 DEF req
  <2>3. CASE j \in DOMAIN idempotency_keys
    <3>1. idempotency_keys'[j] = idempotency_keys[j]
      BY <1>11, <2>3
    <3>2. /\ idempotency_keys[j].code = "CREATED" =>
               /\ x \in DOMAIN flash_sales
               /\ idempotency_keys[j].resource_id \in ReservationIDs
          /\ idempotency_keys[j].code = "INVENTORY_SOLD_OUT" => NoneLeft(x)
      BY <2>1, <2>3, <3>1 DEF ControlTables, AnswersOfSale
    <3>3. ASSUME NoneLeft(x)
          PROVE  NoneLeft(x)'
      <4>1. SUFFICES ASSUME Undisturbed(x)'
                     PROVE  FALSE
        BY <4>1 DEF NoneLeft
      <4>2. Undisturbed(x)
        BY <1>10, <4>1
      <4>3. x = s
        BY <1>4, <4>2 DEF Undisturbed
      <4>. QED
        BY <1>1, <3>3, <4>2, <4>3 DEF NoneLeft
    <3>. QED
      BY <1>6, <3>1, <3>2, <3>3
  <2>. QED
    BY <1>11, <2>2, <2>3
<1>14. (DOMAIN flash_sales \subseteq drawn)'
  BY <1>6 DEF ControlTables
<1>. QED
  BY <1>1, <1>3, <1>6, <1>8, <1>9, <1>10, <1>11, <1>12, <1>13, <1>14
  DEF ControlTables, Stored, UnitTaken, req

-----------------------------------------------------------------------------
\* A refusal of a driver's request: one answer more.
LEMMA RefuseTables ==
  ASSUME ControlTables, NEW k, NEW u, NEW s, ReserveRequest(u, s) \in Request,
         Code(k, u, s) # "CREATED", Refuse(k, ReserveRequest(u, s), Code(k, u, s)),
         UNCHANGED drawn
  PROVE  /\ ControlTables' /\ Grown
         /\ Stored(k, u, s, Code(k, u, s), NULL)
         /\ UNCHANGED flash_sales
         /\ \A x : Undisturbed(x)' <=> Undisturbed(x)
<1> DEFINE req == ReserveRequest(u, s)
           code == Code(k, u, s)
<1>0. req.sale_id = s
  BY DEF ReserveRequest
<1>1. /\ k \in Keys \ DOMAIN idempotency_keys
      /\ idempotency_keys' = Insert(idempotency_keys, k,
           [request |-> req, code |-> code, resource_id |-> NULL])
      /\ UNCHANGED <<products, inventory, flash_sales, reservations, drawn>>
  BY DEF Refuse
<1>2. code \in ErrorCodes /\ (code = "INVENTORY_SOLD_OUT" => s \in DOMAIN flash_sales /\ SoldOut(s))
  BY <1>1, CodeFresh
<1>3. Next
  BY <1>1, <1>2 DEF Next
<1>4. TablesTypeOK' /\ InventoryReconciled'
  BY <1>3, StepType, StepReconciled DEF ControlTables
<1>5. OneSale' /\ (DOMAIN flash_sales \subseteq drawn)'
  BY <1>1 DEF ControlTables, OneSale
<1>6. \A x : Undisturbed(x)' <=> Undisturbed(x)
  BY <1>1 DEF Undisturbed
<1>7. \A x : NoneLeft(x)' <=> NoneLeft(x)
  BY <1>1, <1>6 DEF NoneLeft
<1>. HIDE DEF req, code
<1>8. /\ DOMAIN idempotency_keys' = DOMAIN idempotency_keys \cup {k}
      /\ idempotency_keys'[k] = [request |-> req, code |-> code, resource_id |-> NULL]
      /\ \A j \in DOMAIN idempotency_keys : idempotency_keys'[j] = idempotency_keys[j]
  BY <1>1 DEF Insert
<1>9. ASSUME s \in DOMAIN flash_sales, SoldOut(s)
      PROVE  NoneLeft(s)
  <2>1. flash_sales[s].remaining_stock \in Nat
    BY <1>9 DEF ControlTables, TablesTypeOK, IsTable, SaleRow
  <2>. QED
    BY <1>9, <2>1 DEF SoldOut, NoneLeft
<1>10. AnswersOfSale'
  <2>1. SUFFICES ASSUME NEW j \in DOMAIN idempotency_keys', NEW x \in Sales,
                        idempotency_keys'[j].request.sale_id = x
                 PROVE  /\ idempotency_keys'[j].code = "CREATED" =>
                             /\ x \in DOMAIN flash_sales'
                             /\ idempotency_keys'[j].resource_id \in ReservationIDs
                        /\ idempotency_keys'[j].code = "INVENTORY_SOLD_OUT" => NoneLeft(x)'
    BY <2>1 DEF AnswersOfSale
  <2>2. CASE j = k
    <3>1. idempotency_keys'[j].code = code /\ x = s /\ code # "CREATED"
      BY <1>0, <1>8, <2>1, <2>2 DEF code
    <3>2. code = "INVENTORY_SOLD_OUT" => NoneLeft(s)'
      BY <1>2, <1>7, <1>9
    <3>. QED
      BY <3>1, <3>2
  <2>3. CASE j \in DOMAIN idempotency_keys
    <3>1. idempotency_keys'[j] = idempotency_keys[j]
      BY <1>8, <2>3
    <3>2. /\ idempotency_keys[j].code = "CREATED" =>
               /\ x \in DOMAIN flash_sales
               /\ idempotency_keys[j].resource_id \in ReservationIDs
          /\ idempotency_keys[j].code = "INVENTORY_SOLD_OUT" => NoneLeft(x)
      BY <2>1, <2>3, <3>1 DEF ControlTables, AnswersOfSale
    <3>. QED
      BY <1>1, <1>7, <3>1, <3>2
  <2>. QED
    BY <1>8, <2>2, <2>3
<1>11. Grown
  <2>1. \A x \in DOMAIN flash_sales : flash_sales[x].remaining_stock \in Nat
    BY DEF ControlTables, TablesTypeOK, IsTable, SaleRow
  <2>. QED
    BY <1>1, <1>6, <1>8, <2>1 DEF Grown
<1>. QED
  BY <1>1, <1>4, <1>5, <1>6, <1>8, <1>10, <1>11 DEF ControlTables, Stored, req, code

LEMMA SameTables ==
  ASSUME ControlTables, UNCHANGED <<ledgerVars, drawn>>
  PROVE  ControlTables' /\ Grown /\ \A x : Undisturbed(x)' <=> Undisturbed(x)
<1>1. UNCHANGED <<clock, products, inventory, flash_sales, reservations, orders, payments,
                  idempotency_keys, domain_events, drawn>>
  BY DEF ledgerVars, tables
<1>2. TablesTypeOK' /\ InventoryReconciled'
  BY StepType, StepReconciled DEF ControlTables
<1>3. \A x : Undisturbed(x)' <=> Undisturbed(x)
  BY <1>1 DEF Undisturbed
<1>4. \A x : NoneLeft(x)' <=> NoneLeft(x)
  BY <1>1, <1>3 DEF NoneLeft
<1>5. OneSale' /\ AnswersOfSale' /\ (DOMAIN flash_sales \subseteq drawn)'
  BY <1>1, <1>4 DEF ControlTables, OneSale, AnswersOfSale
<1>6. \A x \in DOMAIN flash_sales : flash_sales[x].remaining_stock \in Nat
  BY DEF ControlTables, TablesTypeOK, IsTable, SaleRow
<1>. QED
  BY <1>1, <1>2, <1>3, <1>5, <1>6 DEF ControlTables, Grown

\* Store.Reserve for a driver: the answer is stored, and what it says is so.
LEMMA ReserveTables ==
  ASSUME ControlTables, NEW k, NEW u, NEW s, ReserveRequest(u, s) \in Request,
         Reserve(k, u, s)
  PROVE  /\ ControlTables' /\ Grown
         /\ DOMAIN idempotency_keys' = DOMAIN idempotency_keys \cup {k}
         /\ k \in DOMAIN idempotency_keys => UNCHANGED <<ledgerVars, drawn>>
         /\ k \notin DOMAIN idempotency_keys =>
              /\ idempotency_keys'[k].request = ReserveRequest(u, s)
              /\ idempotency_keys'[k].code = Code(k, u, s)
              /\ Code(k, u, s) = "CREATED" =>
                   /\ idempotency_keys'[k].resource_id = Id(k)
                   /\ UnitTaken(s)
         /\ \A x : Undisturbed(x)' <=> Undisturbed(x)
<1>1. CASE k \in DOMAIN idempotency_keys
  <2>1. UNCHANGED <<ledgerVars, drawn>>
    BY <1>1 DEF Reserve
  <2>2. idempotency_keys' = idempotency_keys
    BY <2>1 DEF ledgerVars, tables
  <2>. QED
    BY <1>1, <2>1, <2>2, SameTables
<1>2. CASE k \notin DOMAIN idempotency_keys /\ Code(k, u, s) = "CREATED"
  <2>1. Grant(k, ReserveRequest(u, s), Id(k)) /\ drawn \subseteq drawn'
    BY <1>2 DEF Reserve
  <2>2. PICK r : r = Id(k)
    OBVIOUS
  <2>3. PICK code : code = Code(k, u, s)
    OBVIOUS
  <2>4. /\ ControlTables' /\ Grown
        /\ Stored(k, u, s, code, r) /\ UnitTaken(s)
        /\ \A x : Undisturbed(x)' <=> Undisturbed(x)
    <3>1. Grant(k, ReserveRequest(u, s), r)
      BY <2>1, <2>2
    <3>2. drawn \subseteq drawn'
      BY <2>1
    <3>. QED
      BY <1>2, <2>3, <3>1, <3>2, GrantTables
  <2>. QED
    BY <1>2, <2>2, <2>3, <2>4 DEF Stored
<1>3. CASE k \notin DOMAIN idempotency_keys /\ Code(k, u, s) # "CREATED"
  <2>1. Refuse(k, ReserveRequest(u, s), Code(k, u, s)) /\ UNCHANGED drawn
    BY <1>3 DEF Reserve
  <2>2. PICK code : code = Code(k, u, s)
    OBVIOUS
  <2>3. /\ ControlTables' /\ Grown
        /\ Stored(k, u, s, code, NULL)
        /\ \A x : Undisturbed(x)' <=> Undisturbed(x)
    BY <1>3, <2>1, <2>2, RefuseTables
  <2>. QED
    BY <1>3, <2>2, <2>3 DEF Stored
<1>. QED
  BY <1>1, <1>2, <1>3

-----------------------------------------------------------------------------
\* A reset leaves one product, one sale, no reservation and no answer.
LEMMA ResetTables ==
  ASSUME ControlTables, NEW d \in Drivers, driver[d].next \in {"done", "buy", "prove"}, Reset(d)
  PROVE  ControlTables' /\ Wiped
<1> DEFINE n   == IF driver[d].next = "prove" THEN 1 ELSE DemoUnits
           ids == {x \in Sales : ProductOf[x] \in DemoProducts /\ Allocated[x] = n}
<1>0. PICK s : s = NewID(ids)
  OBVIOUS
<1>1. PICK p : p = ProductOf[s]
  OBVIOUS
<1>2. /\ ids \ drawn # {}
      /\ drawn' = drawn \cup {s}
      /\ products' = [x \in {p} |-> [active |-> TRUE]]
      /\ inventory' = [x \in {p} |->
           [available |-> n, reserved |-> 0, sold |-> 0, expected_total |-> n]]
      /\ flash_sales' = [x \in {s} |-> [state |-> "active", remaining_stock |-> n]]
      /\ reservations' = NoRows
      /\ orders' = NoRows
      /\ payments' = NoRows
      /\ idempotency_keys' = NoRows
      /\ clock' = clock
  BY <1>0, <1>1 DEF Reset
<1>3. s \in ids \ drawn
  <2>1. ids \subseteq Nat
    BY ControlAssumption
  <2>. QED
    BY <1>0, <1>2, <2>1, Drawn
<1>4. n \in Nat /\ n <= DemoUnits
  BY ControlAssumption
<1>5. /\ s \in Sales /\ Allocated[s] = n /\ s \notin drawn
      /\ p \in DemoProducts /\ p \in Products
  BY <1>1, <1>3, SchemaAssumption
<1>. HIDE DEF n, ids
<1>6. /\ DOMAIN products' = {p} /\ DOMAIN inventory' = {p} /\ DOMAIN flash_sales' = {s}
      /\ inventory'[p] = [available |-> n, reserved |-> 0, sold |-> 0, expected_total |-> n]
      /\ products'[p] = [active |-> TRUE]
      /\ flash_sales'[s] = [state |-> "active", remaining_stock |-> n]
      /\ DOMAIN reservations' = {} /\ DOMAIN orders' = {} /\ DOMAIN payments' = {}
      /\ DOMAIN idempotency_keys' = {}
  BY <1>2 DEF NoRows
<1>7. TablesTypeOK'
  <2>1. IsTable(products, Products, ProductRow)'
    BY <1>2, <1>5 DEF IsTable, ProductRow
  <2>2. IsTable(inventory, Products, InventoryRow)'
    BY <1>2, <1>4, <1>5 DEF IsTable, InventoryRow
  <2>3. IsTable(flash_sales, Sales, SaleRow)'
    BY <1>2, <1>4, <1>5 DEF IsTable, SaleRow, SaleStates
  <2>4. /\ IsTable(reservations, ReservationIDs, ReservationRow)'
        /\ IsTable(orders, ReservationIDs, OrderStates)'
        /\ IsTable(payments, PaymentKeys, PaymentRow)'
        /\ IsTable(idempotency_keys, Keys, KeyRow)'
    BY <1>2 DEF IsTable, NoRows
  <2>5. (clock \in Nat)'
    BY <1>2 DEF ControlTables, TablesTypeOK
  <2>. QED
    BY <1>1, <1>6, <2>1, <2>2, <2>3, <2>4, <2>5 DEF TablesTypeOK
<1>8. InventoryReconciled'
  <2>1. \A states : OfProduct(reservations', p, states) = {}
    BY <1>6 DEF OfProduct
  <2>2. Sum(reservations', {}) = 0
    BY SumEmpty
  <2>3. /\ Sum(reservations', OfProduct(reservations', p, Holding)) = 0
        /\ Sum(reservations', OfProduct(reservations', p, {"paid"})) = 0
    BY <2>1, <2>2
  <2>. QED
    BY <1>4, <1>6, <2>3 DEF InventoryReconciled
<1>9. OneSale'
  BY <1>1, <1>4, <1>5, <1>6 DEF OneSale
<1>10. AnswersOfSale'
  BY <1>6 DEF AnswersOfSale
<1>11. (DOMAIN flash_sales \subseteq drawn)'
  BY <1>2, <1>6
<1>. QED
  BY <1>1, <1>2, <1>5, <1>6, <1>7, <1>8, <1>9, <1>10, <1>11 DEF ControlTables, Wiped

\* loadgen's batch gives the sale and the inventory the same units back.
LEMMA ExpireTables ==
  ASSUME ControlTables, NEW d \in Drivers, ExpireProof(d)
  PROVE  ControlTables' /\ Grown /\ UNCHANGED idempotency_keys
<1>1. PICK S : /\ S \subseteq DOMAIN reservations
               /\ \A r \in S : reservations[r].state = "pending"
               /\ Release(S, "expired")
               /\ drawn' = drawn
  BY DEF ExpireProof
<1>0. TablesTypeOK /\ InventoryReconciled
  BY DEF ControlTables
<1>2. TablesTypeOK' /\ InventoryReconciled'
  BY <1>0, <1>1, ReleaseType, ReleaseReconciled
<1>3. /\ reservations' = [r \in DOMAIN reservations |->
           IF r \in S THEN [reservations[r] EXCEPT !.state = "expired"] ELSE reservations[r]]
      /\ inventory' = [p \in DOMAIN inventory |->
           LET n == Sum(reservations, {r \in S : ProductOf[reservations[r].sale_id] = p}) IN
           [inventory[p] EXCEPT !.available = @ + n, !.reserved = @ - n]]
      /\ flash_sales' = [s \in DOMAIN flash_sales |->
           [flash_sales[s] EXCEPT !.remaining_stock =
              @ + Sum(reservations, {r \in S : reservations[r].sale_id = s})]]
      /\ products' = products /\ idempotency_keys' = idempotency_keys
  BY <1>1 DEF Release
<1>4. /\ \A r \in DOMAIN reservations :
           reservations[r] \in ReservationRow /\ reservations[r].sale_id \in DOMAIN flash_sales
      /\ \A s \in DOMAIN flash_sales : flash_sales[s] \in SaleRow /\ ProductOf[s] \in DOMAIN inventory
      /\ \A p \in DOMAIN inventory : inventory[p] \in InventoryRow
      /\ DOMAIN inventory = DOMAIN products
  BY <1>0 DEF TablesTypeOK, IsTable
<1>5. \A r \in S : r \in DOMAIN reservations' /\ reservations'[r].state = "expired"
  BY <1>1, <1>3, <1>4 DEF ReservationRow
<1>6. DOMAIN flash_sales' = DOMAIN flash_sales
  BY <1>3
<1>7. ASSUME NEW s \in DOMAIN flash_sales
      PROVE  /\ flash_sales'[s].state = flash_sales[s].state
             /\ flash_sales'[s].remaining_stock = flash_sales[s].remaining_stock + Sum(reservations, S)
             /\ inventory'[ProductOf[s]].available =
                  inventory[ProductOf[s]].available + Sum(reservations, S)
             /\ inventory'[ProductOf[s]].expected_total = inventory[ProductOf[s]].expected_total
  <2>1. PICK p : p = ProductOf[s]
    OBVIOUS
  <2>2. DOMAIN flash_sales = {s}
    BY <1>7 DEF ControlTables, OneSale
  <2>3. /\ {r \in S : reservations[r].sale_id = s} = S
        /\ {r \in S : ProductOf[reservations[r].sale_id] = p} = S
    BY <1>1, <1>4, <2>1, <2>2
  <2>4. flash_sales[s] \in SaleRow /\ p \in DOMAIN inventory /\ inventory[p] \in InventoryRow
    BY <1>4, <2>1
  <2>5. PICK n : n = Sum(reservations, S)
    OBVIOUS
  <2>6. /\ flash_sales'[s] = [flash_sales[s] EXCEPT !.remaining_stock = @ + n]
        /\ inventory'[p] = [inventory[p] EXCEPT !.available = @ + n, !.reserved = @ - n]
    BY <1>3, <2>3, <2>4, <2>5
  <2>. QED
    BY <2>1, <2>4, <2>5, <2>6 DEF SaleRow, InventoryRow
<1>8. OneSale'
  <2>1. SUFFICES ASSUME NEW s \in DOMAIN flash_sales'
                 PROVE  /\ DOMAIN flash_sales' = {s}
                        /\ flash_sales'[s].state = "active"
                        /\ DOMAIN products' = {ProductOf[s]}
                        /\ inventory'[ProductOf[s]].expected_total = Allocated[s]
                        /\ flash_sales'[s].remaining_stock = inventory'[ProductOf[s]].available
                        /\ Allocated[s] <= DemoUnits
    <3>1. DOMAIN products' # {} => DOMAIN flash_sales' # {}
      BY <1>3, <1>6 DEF ControlTables, OneSale
    <3>. QED
      BY <2>1, <3>1 DEF OneSale
  <2>2. /\ DOMAIN flash_sales = {s} /\ DOMAIN products = {ProductOf[s]}
        /\ flash_sales[s].state = "active"
        /\ inventory[ProductOf[s]].expected_total = Allocated[s]
        /\ flash_sales[s].remaining_stock = inventory[ProductOf[s]].available
        /\ Allocated[s] <= DemoUnits
    BY <1>6, <2>1 DEF ControlTables, OneSale
  <2>3. /\ flash_sales'[s].state = flash_sales[s].state
        /\ flash_sales'[s].remaining_stock = flash_sales[s].remaining_stock + Sum(reservations, S)
        /\ inventory'[ProductOf[s]].available =
             inventory[ProductOf[s]].available + Sum(reservations, S)
        /\ inventory'[ProductOf[s]].expected_total = inventory[ProductOf[s]].expected_total
    BY <1>6, <1>7, <2>1
  <2>. QED
    BY <1>3, <1>6, <2>2, <2>3, Zenon
<1>9. ASSUME NEW s, Undisturbed(s)'
      PROVE  /\ Undisturbed(s)
             /\ flash_sales'[s].remaining_stock = flash_sales[s].remaining_stock
  <2>1. S = {} /\ s \in DOMAIN flash_sales
    BY <1>5, <1>6, <1>9 DEF Undisturbed
  <2>2. /\ DOMAIN reservations' = DOMAIN reservations
        /\ \A r \in DOMAIN reservations : reservations'[r] = reservations[r]
    BY <1>3, <2>1
  <2>3. Sum(reservations, S) = 0 /\ flash_sales[s].remaining_stock \in Nat
    BY <1>4, <2>1, SumEmpty DEF SaleRow
  <2>. QED
    BY <1>6, <1>7, <1>9, <2>1, <2>2, <2>3 DEF Undisturbed
<1>10. AnswersOfSale'
  <2>1. \A x : NoneLeft(x) => NoneLeft(x)'
    BY <1>9 DEF NoneLeft
  <2>. QED
    BY <1>3, <1>6, <2>1 DEF ControlTables, AnswersOfSale
<1>11. Grown
  <2>1. \A x \in DOMAIN flash_sales : flash_sales[x].remaining_stock \in Nat
    BY <1>4 DEF SaleRow
  <2>2. \A x \in DOMAIN flash_sales : Undisturbed(x)' =>
          /\ Undisturbed(x)
          /\ flash_sales'[x].remaining_stock <= flash_sales[x].remaining_stock
    BY <1>9, <2>1
  <2>. QED
    BY <1>1, <1>3, <1>6, <2>2 DEF Grown
<1>12. (DOMAIN flash_sales \subseteq drawn)'
  BY <1>1, <1>6 DEF ControlTables
<1>. QED
  BY <1>2, <1>3, <1>8, <1>10, <1>11, <1>12 DEF ControlTables

-----------------------------------------------------------------------------
(***************************************************************************)
(* What a driver has counted stays true of a sale that grows, and a wipe   *)
(* puts another sale in its place.                                         *)
(***************************************************************************)
SameCounts(x) ==
  /\ driver'[x].sale = driver[x].sale
  /\ driver'[x].id = driver[x].id
  /\ driver'[x].waiting = driver[x].waiting
  /\ driver'[x].successful = driver[x].successful
  /\ driver'[x].duplicate = driver[x].duplicate
  /\ driver'[x].soldOut = driver[x].soldOut
  /\ driver'[x].failed = driver[x].failed

SameRetries(x) ==
  /\ driver'[x].sale = driver[x].sale
  /\ driver'[x].first = driver[x].first
  /\ driver'[x].got = driver[x].got
  /\ driver'[x].same = driver[x].same

\* A sale somebody works on is wiped by a reset: the new sale is another one.
LEMMA NotWiped ==
  ASSUME Wiped, NEW s, s \in drawn \cup {NULL}
  PROVE  s \notin DOMAIN flash_sales'
  BY ControlAssumption DEF Wiped

LEMMA NoneLeftKept ==
  ASSUME ControlTables, ControlTables', Grown, NEW s, NoneLeft(s)
  PROVE  NoneLeft(s)'
<1>1. SUFFICES ASSUME Undisturbed(s)'
               PROVE  flash_sales'[s].remaining_stock = 0
  BY DEF NoneLeft
<1>2. s \in DOMAIN flash_sales' /\ s \in DOMAIN flash_sales
  BY <1>1 DEF Undisturbed, Grown
<1>3. /\ Undisturbed(s)
      /\ flash_sales'[s].remaining_stock <= flash_sales[s].remaining_stock
  BY <1>1, <1>2 DEF Grown
<1>4. flash_sales'[s].remaining_stock \in Nat
  BY <1>2 DEF ControlTables, TablesTypeOK, IsTable, SaleRow
<1>. QED
  BY <1>3, <1>4 DEF NoneLeft

LEMMA CountedCarried ==
  ASSUME Grown, NEW x, SameCounts(x), NEW K, NEW F, Counted(x, K, F)
  PROVE  Counted(x, K, F)'
<1>1. SUFFICES ASSUME driver'[x].sale \in DOMAIN flash_sales'
               PROVE  /\ K \subseteq Served(x)' /\ Served(x)' \subseteq K \cup F
                      /\ \A i \in Buyers \ (driver'[x].waiting \cup K \cup F) :
                           BuyerKey(x, i)' \in DOMAIN idempotency_keys'
  BY DEF Counted, SameCounts
<1>2. /\ K \subseteq Served(x) /\ Served(x) \subseteq K \cup F
      /\ \A i \in Buyers \ (driver[x].waiting \cup K \cup F) :
           BuyerKey(x, i) \in DOMAIN idempotency_keys
  BY <1>1 DEF Counted, SameCounts, Grown
<1>3. \A i : BuyerKey(x, i)' = BuyerKey(x, i)
  BY DEF BuyerKey, SameCounts
<1>4. \A k \in DOMAIN idempotency_keys :
        k \in DOMAIN idempotency_keys' /\ idempotency_keys'[k] = idempotency_keys[k]
  BY DEF Grown
<1>5. ASSUME NEW i, BuyerKey(x, i) \in DOMAIN idempotency_keys
      PROVE  i \in Served(x)' <=> i \in Served(x)
  BY <1>3, <1>4, <1>5 DEF Served, SameCounts
<1>6. K \subseteq Served(x)'
  BY <1>2, <1>5 DEF Served
<1>7. Served(x)' \subseteq K \cup F
  <2>1. SUFFICES ASSUME NEW i \in Served(x)', i \notin K \cup F
                 PROVE  FALSE
    BY <2>1
  <2>2. i \in Buyers \ driver[x].waiting
    BY <2>1 DEF Served, SameCounts
  <2>. QED
    BY <1>2, <1>5, <2>1, <2>2
<1>. QED
  BY <1>2, <1>3, <1>4, <1>6, <1>7 DEF SameCounts

LEMMA CountedWiped ==
  ASSUME Wiped, NEW x, Progress(x), SameCounts(x), NEW K, NEW F, Counted(x, K, F)
  PROVE  Counted(x, K, F)'
<1>1. driver'[x].sale \notin DOMAIN flash_sales'
  <2>1. PICK s : s = driver[x].sale
    OBVIOUS
  <2>. QED
    BY <2>1, NotWiped DEF Progress, SameCounts
<1>. QED
  BY <1>1 DEF Counted, SameCounts

\* What is left of the sale, compared with what the driver has counted.
LEMMA SaleCarried ==
  ASSUME ControlTables, ControlTables', Grown \/ Wiped, NEW x, Progress(x), Counts(x),
         ~ BeforeBuying(x), NEW s, s = driver[x].sale
  PROVE  /\ driver[x].soldOut > 0 => NoneLeft(s)'
         /\ Undisturbed(s)' =>
              driver[x].successful + flash_sales'[s].remaining_stock <= Allocated[s]
<1>1. driver[x].soldOut > 0 => NoneLeft(s)'
  <2>1. SUFFICES ASSUME driver[x].soldOut > 0
                 PROVE  NoneLeft(s)'
    OBVIOUS
  <2>2. NoneLeft(s)
    BY <2>1 DEF Counts
  <2>3. CASE Grown
    BY <2>2, <2>3, NoneLeftKept
  <2>4. CASE Wiped
    BY <2>4, NotWiped DEF NoneLeft, Undisturbed, Progress
  <2>. QED
    BY <2>3, <2>4
<1>2. Undisturbed(s)' =>
        driver[x].successful + flash_sales'[s].remaining_stock <= Allocated[s]
  <2>1. SUFFICES ASSUME Undisturbed(s)'
                 PROVE  driver[x].successful + flash_sales'[s].remaining_stock <= Allocated[s]
    OBVIOUS
  <2>2. s \in DOMAIN flash_sales'
    BY <2>1 DEF Undisturbed
  <2>3. Grown
    BY <2>2, NotWiped DEF Progress
  <2>4. /\ Undisturbed(s) /\ s \in DOMAIN flash_sales
        /\ flash_sales'[s].remaining_stock <= flash_sales[s].remaining_stock
    BY <2>1, <2>2, <2>3 DEF Grown
  <2>5. driver[x].successful + flash_sales[s].remaining_stock <= Allocated[s]
    BY <2>4 DEF Counts
  <2>6. /\ flash_sales'[s].remaining_stock \in Nat /\ flash_sales[s].remaining_stock \in Nat
        /\ s \in Sales
    BY <2>2, <2>4 DEF ControlTables, TablesTypeOK, IsTable, SaleRow
  <2>7. driver[x].successful \in Nat /\ Allocated[s] \in Nat
    BY <2>6, SchemaAssumption DEF Progress, DriverRow
  <2>. QED
    BY <2>4, <2>5, <2>6, <2>7
<1>. QED
  BY <1>1, <1>2

LEMMA CountsCarried ==
  ASSUME ControlTables, ControlTables', Grown \/ Wiped, NEW x, Progress(x), Counts(x),
         SameCounts(x), BeforeBuying(x)' <=> BeforeBuying(x),
         driver'[x].at # "buy" => driver[x].waiting = {}
  PROVE  Counts(x)'
<1>1. ASSUME BeforeBuying(x)
      PROVE  Counts(x)'
  BY <1>1 DEF Counts, SameCounts
<1>2. ASSUME ~ BeforeBuying(x)
      PROVE  Counts(x)'
  <2>0. PICK s : s = driver[x].sale
    OBVIOUS
  <2>1. \E K, F \in SUBSET Buyers : Counted(x, K, F)'
    <3>1. PICK K \in SUBSET Buyers, F \in SUBSET Buyers : Counted(x, K, F)
      BY <1>2 DEF Counts
    <3>2. Counted(x, K, F)'
      BY <3>1, CountedCarried, CountedWiped
    <3>. QED
      BY <3>2
  <2>2. /\ driver[x].soldOut > 0 => NoneLeft(s)'
        /\ Undisturbed(s)' =>
             driver[x].successful + flash_sales'[s].remaining_stock <= Allocated[s]
    BY <1>2, <2>0, SaleCarried
  <2>3. driver'[x].sale = s
    BY <2>0 DEF SameCounts
  <2>4. /\ driver'[x].soldOut > 0 => NoneLeft(driver[x].sale)'
        /\ Undisturbed(driver[x].sale)' =>
             driver'[x].successful + flash_sales'[driver'[x].sale].remaining_stock
               <= Allocated[driver'[x].sale]
    BY <2>2, <2>3 DEF SameCounts, NoneLeft, Undisturbed
  <2>. QED
    BY <1>2, <2>1, <2>4 DEF Counts, SameCounts
<1>. QED
  BY <1>1, <1>2

LEMMA RetriedCarried ==
  ASSUME Grown \/ Wiped, NEW x, Progress(x), Retried(x), SameRetries(x),
         driver'[x].at = driver[x].at, driver'[x].next = driver[x].next,
         driver'[x].retries \in Nat, driver'[x].retries <= driver[x].retries
  PROVE  Retried(x)'
<1>1. /\ driver[x].got \in Nat /\ driver[x].retries \in Nat
      /\ driver[x].first \in ReservationIDs \cup {NULL}
  BY DEF Progress, DriverRow
<1>2. driver[x].got + driver[x].retries <= Proofs => driver[x].got + driver'[x].retries <= Proofs
  BY <1>1, ControlAssumption
<1>3. ASSUME driver[x].at = "prove", driver[x].first # NULL,
             driver[x].sale \in DOMAIN flash_sales'
      PROVE  /\ ProofKey \in DOMAIN idempotency_keys'
             /\ idempotency_keys'[ProofKey].resource_id = driver[x].first
  <2>1. PICK s : s = driver[x].sale
    OBVIOUS
  <2>2. Grown
    BY <1>3, <2>1, NotWiped DEF Progress
  <2>3. /\ ProofKey \in DOMAIN idempotency_keys
        /\ idempotency_keys[ProofKey].resource_id = driver[x].first
    BY <1>3, <2>2 DEF Retried, Grown
  <2>. QED
    BY <2>2, <2>3 DEF Grown
<1>. QED
  BY <1>2, <1>3 DEF Retried, SameRetries

\* Neither before nor after the step does the driver retry.
LEMMA RetriedApart ==
  ASSUME NEW x, Retried(x), SameRetries(x),
         driver[x].at \notin {"prove", "expire"}, driver'[x].at \notin {"prove", "expire"},
         driver'[x].next = "prove" => driver[x].next = "prove"
  PROVE  Retried(x)'
  BY DEF Retried, SameRetries

\* A step of d leaves x as it was; if x is reading, and something has been
\* committed, its reads are no longer of one state.
Kept(x) ==
  \/ driver'[x] = driver[x] /\ (driver[x].at \notin Reading \/ UNCHANGED ledgerVars)
  \/ driver[x].at \in Reading /\ driver'[x] = [driver[x] EXCEPT !.whole = FALSE]

\* What ReadsStand says of a driver that is not reading is about itself alone.
LEMMA StandsApart ==
  ASSUME NEW x, ReadsStand(x), driver'[x].at \notin Reading,
         driver'[x].whole => driver[x].whole, driver'[x].status = driver[x].status,
         driver'[x].at \in {"buy", "prove", "done"} => driver[x].at \in {"buy", "prove", "done"}
  PROVE  ReadsStand(x)'
<1>1. Passes(driver[x].status) => Passes(driver[x].status)'
  BY DEF Passes
<1>. QED
  BY DEF ReadsStand, Reading, Passes

LEMMA OtherDriver ==
  ASSUME ControlTables, ControlTables', Grown \/ Wiped, NEW x \in Drivers, DriverInv(x), Kept(x),
         \A i \in Buyers :
           <<x, i>> \in DOMAIN idempotency_keys' => <<x, i>> \in DOMAIN idempotency_keys
  PROVE  DriverInv(x)'
<1>0. driver[x] \in DriverRow /\ drawn \subseteq drawn'
  BY DEF DriverInv, Progress, Grown, Wiped
<1>1. /\ driver'[x].kind = driver[x].kind /\ driver'[x].id = driver[x].id
      /\ driver'[x].at = driver[x].at /\ driver'[x].next = driver[x].next
      /\ driver'[x].sale = driver[x].sale /\ driver'[x].status = driver[x].status
      /\ driver'[x].retries = driver[x].retries
      /\ driver'[x].waiting = driver[x].waiting /\ driver'[x].first = driver[x].first
      /\ driver'[x].got = driver[x].got /\ driver'[x].same = driver[x].same
      /\ driver'[x].successful = driver[x].successful
      /\ driver'[x].duplicate = driver[x].duplicate
      /\ driver'[x].soldOut = driver[x].soldOut /\ driver'[x].failed = driver[x].failed
      /\ driver'[x] \in DriverRow
  BY <1>0, ZenonT(30) DEF Kept, DriverRow
<1>2. Progress(x)'
  <2>1. driver[x].at = "idle" => driver'[x] = Idle
    BY DEF Kept, DriverInv, Progress, Reading
  <2>. QED
    BY <1>0, <1>1, <2>1 DEF DriverInv, Progress
<1>3. BeforeBuying(x)' <=> BeforeBuying(x)
  BY <1>1 DEF BeforeBuying
<1>4. OwnKeys(x)'
  BY <1>1, <1>3 DEF DriverInv, OwnKeys
<1>5. Retried(x)'
  <2>1. driver'[x].retries \in Nat /\ driver'[x].retries <= driver[x].retries
    BY <1>0, <1>1 DEF DriverRow
  <2>. QED
    BY <1>1, <2>1, RetriedCarried DEF DriverInv, SameRetries
<1>6. Counts(x)'
  <2>1. driver'[x].at # "buy" => driver[x].waiting = {}
    BY <1>1 DEF DriverInv, Counts
  <2>. QED
    BY <1>1, <1>3, <2>1, CountsCarried DEF DriverInv, SameCounts
<1>7. ReadsStand(x)'
  <2>1. CASE driver[x].at \notin Reading
    <3>1. driver'[x].whole = driver[x].whole
      BY <2>1 DEF Kept
    <3>. QED
      BY <1>1, <2>1, <3>1, StandsApart DEF DriverInv
  <2>2. CASE driver'[x] = [driver[x] EXCEPT !.whole = FALSE]
    BY <1>0, <2>2 DEF DriverRow, ReadsStand
  <2>3. CASE driver'[x] = driver[x] /\ UNCHANGED ledgerVars
    BY <2>3 DEF ledgerVars, tables, DriverInv, ReadsStand, Passes
  <2>. QED
    BY <2>1, <2>2, <2>3 DEF Kept
<1>. QED
  BY <1>2, <1>4, <1>5, <1>6, <1>7 DEF DriverInv

-----------------------------------------------------------------------------
\* A request's key is no key made of another driver's name.
LEMMA KeyOfRequest ==
  ASSUME NEW d \in Drivers, OwnKeys(d), NEW k, NEW u, RequestOf(d, k, u),
         NEW x \in Drivers, x # d, NEW i \in Buyers
  PROVE  k # <<x, i>>
<1>1. CASE k = ProofKey
  <2>1. <<x, i>> \in Drivers \X Buyers
    OBVIOUS
  <2>. QED
    BY <1>1, <2>1, ControlAssumption
<1>2. ASSUME NEW j \in Buyers, driver[d].at = "buy", k = BuyerKey(d, j)
      PROVE  k # <<x, i>>
  <2>1. driver[d].id \in {d} \cup RequestIDs
    BY <1>2 DEF OwnKeys
  <2>2. driver[d].id # x
    BY <2>1, ControlAssumption
  <2>. QED
    BY <1>2, <2>2 DEF BuyerKey
<1>. QED
  BY <1>1, <1>2 DEF RequestOf

LEMMA StepTables ==
  ASSUME ControlInv, NEW d \in Drivers,
         UNCHANGED <<ledgerVars, drawn>> \/ Requests(d) \/ Reset(d) \/ ExpireProof(d)
  PROVE  /\ ControlTables' /\ (Grown \/ Wiped)
         /\ \A x \in Drivers \ {d}, i \in Buyers :
              <<x, i>> \in DOMAIN idempotency_keys' => <<x, i>> \in DOMAIN idempotency_keys
<1>0. ControlTables /\ DriverInv(d)
  BY DEF ControlInv
<1>1. CASE UNCHANGED <<ledgerVars, drawn>>
  <2>1. idempotency_keys' = idempotency_keys
    BY <1>1 DEF ledgerVars, tables
  <2>. QED
    BY <1>0, <1>1, <2>1, SameTables
<1>2. CASE Requests(d)
  <2>1. PICK s : s = driver[d].sale
    OBVIOUS
  <2>2. PICK k, u : RequestOf(d, k, u) /\ Reserve(k, u, driver[d].sale)
    BY <1>2 DEF Requests
  <2>3. Reserve(k, u, s)
    BY <2>1, <2>2
  <2>4. ReserveRequest(u, s) \in Request
    BY <1>0, <2>1, <2>2, RequestTyped DEF DriverInv
  <2>5. ControlTables' /\ Grown /\ DOMAIN idempotency_keys' = DOMAIN idempotency_keys \cup {k}
    BY <1>0, <2>3, <2>4, ReserveTables
  <2>6. \A x \in Drivers \ {d}, i \in Buyers : k # <<x, i>>
    BY <1>0, <2>2, KeyOfRequest DEF DriverInv
  <2>. QED
    BY <2>5, <2>6
<1>3. CASE Reset(d)
  <2>1. driver[d].next \in {"done", "buy", "prove"}
    BY <1>0 DEF DriverInv, Progress, DriverRow
  <2>2. ControlTables' /\ Wiped
    BY <1>0, <1>3, <2>1, ResetTables
  <2>. QED
    BY <2>2 DEF Wiped
<1>4. CASE ExpireProof(d)
  BY <1>0, <1>4, ExpireTables
<1>. QED
  BY <1>1, <1>2, <1>3, <1>4

\* The tables and the other drivers, after a step of d.
LEMMA Others ==
  ASSUME ControlInv, NEW d \in Drivers,
         \/ Begin(d) \/ Look(d) \/ Reset(d) \/ GiveUp(d)
         \/ ReadProduct(d) \/ ReadSale(d) \/ ReadReservations(d) \/ ReadOrders(d)
         \/ Prove(d) \/ ProveFails(d) \/ GetProof(d) \/ ExpireProof(d)
         \/ (\E i \in Buyers : Attempt(d, i) \/ AttemptFails(d, i)) \/ Bought(d)
  PROVE  /\ ControlTables' /\ (Grown \/ Wiped)
         /\ DOMAIN driver' = Drivers
         /\ \A x \in Drivers \ {d} : DriverInv(x)'
<1>1. /\ DOMAIN driver' = Drivers
      /\ \/ Reads(d)
         \/ /\ Aside(d)
            /\ \/ UNCHANGED <<ledgerVars, drawn>> \/ Requests(d)
               \/ Reset(d) \/ ExpireProof(d)
  BY StepKinds DEF ControlInv
<1>2. UNCHANGED <<ledgerVars, drawn>> \/ Requests(d) \/ Reset(d) \/ ExpireProof(d)
  BY <1>1 DEF Reads
<1>3. /\ ControlTables' /\ (Grown \/ Wiped)
      /\ \A x \in Drivers \ {d}, i \in Buyers :
           <<x, i>> \in DOMAIN idempotency_keys' => <<x, i>> \in DOMAIN idempotency_keys
  BY <1>2, StepTables
<1>4. ASSUME NEW x \in Drivers \ {d}
      PROVE  DriverInv(x)'
  <2>1. Kept(x)
    BY <1>1 DEF Kept, Reads, Aside
  <2>2. ControlTables /\ DriverInv(x)
    BY DEF ControlInv
  <2>3. \A i \in Buyers :
          <<x, i>> \in DOMAIN idempotency_keys' => <<x, i>> \in DOMAIN idempotency_keys
    BY <1>3
  <2>. QED
    BY <1>3, <2>1, <2>2, <2>3, OtherDriver
<1>. QED
  BY <1>1, <1>3, <1>4

-----------------------------------------------------------------------------
(***************************************************************************)
(* The driver that takes the step: first the steps that only read.         *)
(***************************************************************************)
LEMMA IdleTyped == Idle \in DriverRow /\ Error \in DriverRow
<1>1. Idle.status \in StatusRow
  BY DEF Idle, StatusRow
<1>. QED
  BY <1>1 DEF Idle, Error, DriverRow, Ats

\* Updates that keep a driver's row of its type.
LEMMA RowTyped ==
  ASSUME NEW row \in DriverRow
  PROVE  /\ \A at \in Ats, status \in StatusRow :
              [row EXCEPT !.at = at, !.status = status] \in DriverRow
         /\ \A next \in {"done", "buy", "prove"} : [row EXCEPT !.next = next] \in DriverRow
         /\ \A s \in Sales \cup {NULL}, n \in Nat, w \in SUBSET Buyers :
              [row EXCEPT !.sale = s, !.retries = n, !.waiting = w] \in DriverRow
<1>1. ASSUME NEW at \in Ats, NEW status \in StatusRow
      PROVE  [row EXCEPT !.at = at, !.status = status] \in DriverRow
  BY DEF DriverRow
<1>2. ASSUME NEW next \in {"done", "buy", "prove"}
      PROVE  [row EXCEPT !.next = next] \in DriverRow
  BY DEF DriverRow
<1>3. ASSUME NEW s \in Sales \cup {NULL}, NEW n \in Nat, NEW w \in SUBSET Buyers
      PROVE  [row EXCEPT !.sale = s, !.retries = n, !.waiting = w] \in DriverRow
  BY DEF DriverRow
<1>. QED
  BY <1>1, <1>2, <1>3

\* A driver without a sale has nothing to count.
LEMMA NoSaleCounts ==
  ASSUME TablesTypeOK', NEW x, driver'[x].sale = NULL, driver'[x].waiting = {},
         driver'[x].successful = 0, driver'[x].duplicate = 0, driver'[x].soldOut = 0,
         driver'[x].failed = 0
  PROVE  Counts(x)'
<1>1. NULL \notin DOMAIN flash_sales'
  BY ControlAssumption DEF TablesTypeOK, IsTable
<1>2. Cardinality({}) = 0
  BY FS_EmptySet
<1>3. Counted(x, {}, {})'
  BY <1>1, <1>2 DEF Counted
<1>4. ~ Undisturbed(driver[x].sale)'
  BY <1>1 DEF Undisturbed
<1>. QED
  BY <1>3, <1>4 DEF Counts

LEMMA ErrorInv ==
  ASSUME TablesTypeOK', NEW d \in Drivers, driver'[d] = Error
  PROVE  DriverInv(d)'
<1>1. Counts(d)'
  BY NoSaleCounts DEF Error, Idle
<1>2. Progress(d)'
  BY IdleTyped DEF Progress, Error, Idle
<1>3. ~ BeforeBuying(d)'
  BY DEF BeforeBuying, Error, Idle
<1>4. OwnKeys(d)' /\ ReadsStand(d)'
  BY <1>3 DEF OwnKeys, ReadsStand, Error, Idle
<1>5. Retried(d)'
  BY ControlAssumption DEF Retried, Error, Idle
<1>. QED
  BY <1>1, <1>2, <1>4, <1>5 DEF DriverInv

LEMMA OwnBegin ==
  ASSUME ControlInv, ControlTables', NEW d \in Drivers, Begin(d)
  PROVE  DriverInv(d)'
<1>0. driver[d] = Idle /\ driver[d].at = "idle" /\ OwnKeys(d)
  BY DEF ControlInv, DriverInv, Progress, Begin
<1>1. PICK kind \in DriverKinds, id \in {d} \cup RequestIDs :
        /\ kind # "loadtest" => id = d
        /\ Read(d, [driver[d] EXCEPT
             !.kind = kind,
             !.id = id,
             !.at = CASE kind = "status" -> "product" [] kind = "seed" -> "look"
                      [] OTHER -> "reset",
             !.next = CASE kind = "loadtest" -> "buy" [] kind = "loadgen" -> "prove"
                        [] OTHER -> "done"])
  BY DEF Begin
<1>2. PICK at : at = CASE kind = "status" -> "product" [] kind = "seed" -> "look"
                       [] OTHER -> "reset"
  OBVIOUS
<1>3. PICK next : next = CASE kind = "loadtest" -> "buy" [] kind = "loadgen" -> "prove"
                           [] OTHER -> "done"
  OBVIOUS
<1>4. /\ driver'[d] = [Idle EXCEPT !.kind = kind, !.id = id, !.at = at, !.next = next]
      /\ UNCHANGED <<ledgerVars, drawn>>
  <2>1. DOMAIN driver = Drivers
    BY DEF ControlInv
  <2>. QED
    BY <1>0, <1>1, <1>2, <1>3, <2>1 DEF Read
<1>5. /\ driver'[d].kind = kind /\ driver'[d].id = id /\ driver'[d].at = at
      /\ driver'[d].next = next /\ driver'[d].sale = NULL /\ driver'[d].whole = FALSE
      /\ driver'[d].status.sale = NULL /\ driver'[d].waiting = {}
      /\ driver'[d].first = NULL /\ driver'[d].got = 0 /\ driver'[d].same = 0
      /\ driver'[d].successful = 0 /\ driver'[d].duplicate = 0 /\ driver'[d].soldOut = 0
      /\ driver'[d].failed = 0
  BY <1>4 DEF Idle
<1>6. /\ kind \in Kinds /\ at \in {"product", "look", "reset"} /\ next \in {"done", "buy", "prove"}
      /\ kind = "seed" => at = "look" /\ next = "done"
      /\ at = "look" => next = "done"
      /\ next = "prove" => id = d
  BY <1>1, <1>2, <1>3, ControlAssumption
<1>7. driver'[d] \in DriverRow
  <2>1. /\ kind \in Kinds \cup {NULL} /\ id \in Drivers \cup RequestIDs \cup {NULL}
        /\ at \in Ats /\ next \in {"done", "buy", "prove"}
    BY <1>1, <1>6 DEF Ats
  <2>2. Idle \in DriverRow
    BY IdleTyped
  <2>. QED
    BY <1>4, <2>1, <2>2, ZenonT(30) DEF DriverRow
<1>8. Progress(d)'
  BY <1>5, <1>6, <1>7 DEF Progress
<1>9. OwnKeys(d)'
  <2>1. \A i \in Buyers : <<d, i>> \notin DOMAIN idempotency_keys'
    BY <1>0, <1>4 DEF OwnKeys, ledgerVars, tables
  <2>. QED
    BY <1>5, <1>6, <2>1 DEF OwnKeys, BeforeBuying
<1>10. Retried(d)' /\ ReadsStand(d)'
  BY <1>5, <1>6, ControlAssumption DEF Retried, ReadsStand
<1>11. Counts(d)'
  BY <1>5, NoSaleCounts DEF ControlTables
<1>. QED
  BY <1>8, <1>9, <1>10, <1>11 DEF DriverInv

(***************************************************************************)
(* A step between the reads of a status, or into them: what the driver     *)
(* has counted, and how far it has come, stay.                             *)
(***************************************************************************)
LEMMA OnTheWay ==
  ASSUME ControlInv, ControlTables', Grown \/ Wiped, NEW d \in Drivers,
         driver[d].at \notin {"idle", "prove", "expire", "error"},
         driver'[d].at \in {"reset", "product"} \cup Reading,
         driver'[d].next = IF driver[d].at = "buy" THEN "done" ELSE driver[d].next,
         driver[d].waiting = {}, SameCounts(d), SameRetries(d),
         BeforeBuying(d) =>
           \A i \in Buyers : <<d, i>> \in DOMAIN idempotency_keys'
                               => <<d, i>> \in DOMAIN idempotency_keys,
         Progress(d)', ReadsStand(d)'
  PROVE  DriverInv(d)'
<1>0. Progress(d) /\ OwnKeys(d) /\ Retried(d) /\ Counts(d) /\ ControlTables
  BY DEF ControlInv, DriverInv
<1>1. driver'[d].at \notin {"idle", "error", "prove", "expire", "buy"}
  BY DEF Reading
<1>2. BeforeBuying(d)' <=> BeforeBuying(d)
  BY <1>0, <1>1 DEF BeforeBuying, Progress
<1>3. Counts(d)'
  BY <1>0, <1>2, CountsCarried
<1>4. Retried(d)'
  BY <1>0, <1>1, RetriedApart
<1>5. OwnKeys(d)'
  <2>1. driver'[d].next = "prove" => driver[d].next = "prove"
    OBVIOUS
  <2>. QED
    BY <1>0, <1>1, <1>2, <2>1 DEF OwnKeys, SameCounts
<1>. QED
  BY <1>3, <1>4, <1>5 DEF DriverInv

LEMMA OwnRow ==
  ASSUME ControlInv, NEW d \in Drivers
  PROVE  /\ driver[d] \in DriverRow /\ driver[d].status \in StatusRow
         /\ Progress(d) /\ OwnKeys(d) /\ Retried(d) /\ ReadsStand(d) /\ Counts(d)
         /\ ControlTables /\ TablesTypeOK
         /\ DOMAIN driver = Drivers
  BY DEF ControlInv, ControlTables, DriverInv, Progress, DriverRow

LEMMA OwnLook ==
  ASSUME ControlInv, ControlTables', NEW d \in Drivers, Look(d)
  PROVE  DriverInv(d)'
<1>0. /\ driver[d] \in DriverRow /\ Progress(d) /\ Counts(d) /\ ControlTables /\ TablesTypeOK
      /\ DOMAIN driver = Drivers /\ driver[d].at = "look"
  BY OwnRow DEF Look
<1>1. PICK at : at = IF DOMAIN products \cap DemoProducts # {} THEN "product" ELSE "reset"
  OBVIOUS
<1>2. /\ driver'[d] = [driver[d] EXCEPT !.at = at]
      /\ UNCHANGED <<ledgerVars, drawn>>
  BY <1>0, <1>1 DEF Look, Read
<1>4. at \in {"product", "reset"}
  BY <1>1
<1>5. driver'[d] \in DriverRow
  BY <1>0, <1>2, <1>4, ZenonT(30) DEF DriverRow, Ats
<1>6. /\ driver'[d].at = at
      /\ driver'[d].next = driver[d].next /\ driver'[d].kind = driver[d].kind
      /\ driver'[d].status = driver[d].status /\ drawn' = drawn
  BY <1>0, <1>2 DEF DriverRow
<1>7. SameCounts(d) /\ SameRetries(d)
  BY <1>0, <1>2 DEF DriverRow, SameCounts, SameRetries
<1>8. Progress(d)'
  BY <1>0, <1>4, <1>5, <1>6, <1>7 DEF Progress, SameCounts
<1>9. ReadsStand(d)'
  BY <1>4, <1>6 DEF ReadsStand, Reading
<1>10. Grown
  BY <1>0, <1>2, SameTables
<1>11. driver[d].waiting = {}
  BY <1>0 DEF Counts
<1>12. idempotency_keys' = idempotency_keys
  BY <1>2 DEF ledgerVars, tables
<1>. QED
  BY <1>0, <1>4, <1>6, <1>7, <1>8, <1>9, <1>10, <1>11, <1>12, OnTheWay

LEMMA OwnReset ==
  ASSUME ControlInv, ControlTables', NEW d \in Drivers, Reset(d)
  PROVE  DriverInv(d)'
<1>0. /\ driver[d] \in DriverRow /\ Progress(d) /\ Counts(d) /\ ControlTables
      /\ DOMAIN driver = Drivers /\ driver[d].at = "reset"
  BY OwnRow DEF Reset
<1>1. Wiped
  BY <1>0, ResetTables DEF DriverRow
<1>2. driver'[d] = [driver[d] EXCEPT !.at = "product", !.status = Idle.status]
  BY CommitStep DEF Reset
<1>3. Idle.status \in StatusRow /\ Idle.status.sale = NULL
  BY DEF Idle, StatusRow
<1>4. driver'[d] \in DriverRow
  <2>1. PICK row, status : row = driver[d] /\ status = Idle.status
    OBVIOUS
  <2>2. row \in DriverRow /\ status \in StatusRow /\ "product" \in Ats
    BY <1>0, <1>3, <2>1 DEF Ats
  <2>3. [row EXCEPT !.at = "product", !.status = status] \in DriverRow
    BY <2>2, RowTyped
  <2>. QED
    BY <1>2, <2>1, <2>3
<1>5. /\ driver'[d].at = "product" /\ driver'[d].status = Idle.status
      /\ driver'[d].next = driver[d].next /\ driver'[d].kind = driver[d].kind
  BY <1>0, <1>2 DEF DriverRow
<1>6. SameCounts(d) /\ SameRetries(d)
  BY <1>0, <1>2 DEF DriverRow, SameCounts, SameRetries
<1>7. Progress(d)'
  BY <1>0, <1>1, <1>3, <1>4, <1>5, <1>6 DEF Progress, SameCounts, Wiped
<1>8. ReadsStand(d)'
  BY <1>5 DEF ReadsStand, Reading
<1>9. driver[d].waiting = {}
  BY <1>0 DEF Counts
<1>10. DOMAIN idempotency_keys' = {}
  BY <1>1 DEF Wiped
<1>. QED
  BY <1>0, <1>1, <1>5, <1>6, <1>7, <1>8, <1>9, <1>10, OnTheWay

LEMMA OwnBought ==
  ASSUME ControlInv, ControlTables', NEW d \in Drivers, Bought(d)
  PROVE  DriverInv(d)'
<1>0. /\ driver[d] \in DriverRow /\ Progress(d) /\ ControlTables
      /\ DOMAIN driver = Drivers /\ driver[d].at = "buy" /\ driver[d].waiting = {}
  BY OwnRow DEF Bought
<1>2. /\ driver'[d] = [driver[d] EXCEPT !.at = "product", !.next = "done", !.status = Idle.status]
      /\ UNCHANGED <<ledgerVars, drawn>>
  BY <1>0 DEF Bought, Read
<1>3. Idle.status \in StatusRow /\ Idle.status.sale = NULL
  BY DEF Idle, StatusRow
<1>4. driver'[d] \in DriverRow
  <2>1. PICK row, status : row = [driver[d] EXCEPT !.next = "done"] /\ status = Idle.status
    OBVIOUS
  <2>2. row \in DriverRow /\ status \in StatusRow /\ "product" \in Ats
    BY <1>0, <1>3, <2>1 DEF Ats, DriverRow
  <2>3. [row EXCEPT !.at = "product", !.status = status] \in DriverRow
    BY <2>2, RowTyped
  <2>4. driver'[d] = [row EXCEPT !.at = "product", !.status = status]
    BY <1>0, <1>2, <2>1 DEF DriverRow
  <2>. QED
    BY <2>3, <2>4
<1>5. /\ driver'[d].at = "product" /\ driver'[d].status = Idle.status
      /\ driver'[d].next = "done" /\ driver'[d].kind = driver[d].kind /\ drawn' = drawn
  BY <1>0, <1>2 DEF DriverRow
<1>6. SameCounts(d) /\ SameRetries(d)
  BY <1>0, <1>2 DEF DriverRow, SameCounts, SameRetries
<1>7. Progress(d)'
  BY <1>0, <1>3, <1>4, <1>5, <1>6 DEF Progress, SameCounts
<1>8. ReadsStand(d)'
  BY <1>5 DEF ReadsStand, Reading
<1>9. Grown
  BY <1>0, <1>2, SameTables
<1>10. ~ BeforeBuying(d)
  BY <1>0 DEF Progress, BeforeBuying
<1>. QED
  BY <1>0, <1>5, <1>6, <1>7, <1>8, <1>9, <1>10, OnTheWay

\* The reads of the status: each adds its column, and stands while whole does.
LEMMA OwnReadStatus ==
  ASSUME ControlInv, ControlTables', NEW d \in Drivers, NEW status \in StatusRow,
         NEW at \in Reading, NEW whole \in BOOLEAN,
         driver[d].at \in {"product", "sale", "reservations"},
         Read(d, [driver[d] EXCEPT !.at = at, !.status = status, !.whole = whole]),
         status.sale \in drawn \cup {NULL},
         at # "sale" => status.sale \in Sales,
         whole =>
           /\ \E p \in DOMAIN products : status.inventory = inventory[p]
           /\ at # "sale" =>
                /\ status.sale \in DOMAIN flash_sales
                /\ status.remaining = flash_sales[status.sale].remaining_stock
           /\ at = "orders" => status.reservations = Cardinality(DOMAIN reservations)
  PROVE  DriverInv(d)'
<1>0. /\ driver[d] \in DriverRow /\ Progress(d) /\ Counts(d) /\ ControlTables
      /\ DOMAIN driver = Drivers
  BY OwnRow
<1>2. /\ driver'[d] = [driver[d] EXCEPT !.at = at, !.status = status, !.whole = whole]
      /\ UNCHANGED <<ledgerVars, drawn>>
  BY <1>0 DEF Read
<1>3. at \in {"sale", "reservations", "orders"}
  BY DEF Reading
<1>4. driver'[d] \in DriverRow
  BY <1>0, <1>2, <1>3, ZenonT(30) DEF DriverRow, Ats
<1>5. /\ driver'[d].at = at /\ driver'[d].status = status /\ driver'[d].whole = whole
      /\ driver'[d].next = driver[d].next /\ driver'[d].kind = driver[d].kind /\ drawn' = drawn
  BY <1>0, <1>2 DEF DriverRow
<1>6. SameCounts(d) /\ SameRetries(d)
  BY <1>0, <1>2 DEF DriverRow, SameCounts, SameRetries
<1>7. Progress(d)'
  BY <1>0, <1>3, <1>4, <1>5, <1>6 DEF Progress, SameCounts
<1>8. UNCHANGED <<products, inventory, flash_sales, reservations, idempotency_keys>>
  BY <1>2 DEF ledgerVars, tables
<1>9. ReadsStand(d)'
  BY <1>3, <1>5, <1>8 DEF ReadsStand, Reading
<1>10. Grown
  BY <1>0, <1>2, SameTables
<1>11. driver[d].waiting = {}
  BY <1>0 DEF Counts
<1>. QED
  BY <1>0, <1>5, <1>6, <1>7, <1>8, <1>9, <1>10, <1>11, OnTheWay

LEMMA OwnReadProduct ==
  ASSUME ControlInv, ControlTables', NEW d \in Drivers, ReadProduct(d)
  PROVE  DriverInv(d)'
<1>0. /\ driver[d] \in DriverRow /\ driver[d].status \in StatusRow /\ Progress(d)
      /\ TablesTypeOK /\ DOMAIN driver = Drivers /\ driver[d].at = "product"
  BY OwnRow DEF ReadProduct
<1>1. CASE Read(d, Error)
  <2>1. driver'[d] = Error
    BY <1>0, <1>1, ReadStep
  <2>. QED
    BY <2>1, ErrorInv DEF ControlTables
<1>2. ASSUME NEW p \in DOMAIN products,
             Read(d, [driver[d] EXCEPT !.at = "sale", !.status.inventory = inventory[p],
                                       !.whole = TRUE])
      PROVE  DriverInv(d)'
  <2>1. PICK status : status = [driver[d].status EXCEPT !.inventory = inventory[p]]
    OBVIOUS
  <2>2. inventory[p] \in InventoryRow
    BY <1>0 DEF TablesTypeOK, IsTable
  <2>3. /\ status \in StatusRow /\ status.inventory = inventory[p]
        /\ status.sale = driver[d].status.sale
    BY <1>0, <2>1, <2>2 DEF StatusRow
  <2>4. Read(d, [driver[d] EXCEPT !.at = "sale", !.status = status, !.whole = TRUE])
    BY <1>0, <1>2, <2>1 DEF DriverRow
  <2>5. status.sale \in drawn \cup {NULL}
    BY <1>0, <2>3 DEF Progress
  <2>. QED
    BY <1>0, <2>3, <2>4, <2>5, OwnReadStatus DEF Reading
<1>. QED
  BY <1>1, <1>2 DEF ReadProduct

LEMMA OwnReadSale ==
  ASSUME ControlInv, ControlTables', NEW d \in Drivers, ReadSale(d)
  PROVE  DriverInv(d)'
<1>0. /\ driver[d] \in DriverRow /\ driver[d].status \in StatusRow /\ ReadsStand(d)
      /\ ControlTables /\ TablesTypeOK /\ driver[d].at = "sale"
  BY OwnRow DEF ReadSale
<1>1. PICK s \in DOMAIN flash_sales :
        Read(d, [driver[d] EXCEPT !.at = "reservations", !.status.sale = s,
                                  !.status.remaining = flash_sales[s].remaining_stock])
  BY DEF ReadSale
<1>2. PICK status : status = [driver[d].status EXCEPT !.sale = s,
                                !.remaining = flash_sales[s].remaining_stock]
  OBVIOUS
<1>3. PICK whole : whole = driver[d].whole
  OBVIOUS
<1>4. flash_sales[s].remaining_stock \in Nat /\ s \in Sales /\ s \in drawn
  BY <1>0 DEF ControlTables, TablesTypeOK, IsTable, SaleRow
<1>5. /\ status \in StatusRow /\ status.inventory = driver[d].status.inventory
      /\ status.sale = s /\ status.remaining = flash_sales[s].remaining_stock
  BY <1>0, <1>2, <1>4 DEF StatusRow
<1>6. Read(d, [driver[d] EXCEPT !.at = "reservations", !.status = status, !.whole = whole])
  <2>1. [driver[d] EXCEPT !.at = "reservations", !.status.sale = s,
                                  !.status.remaining = flash_sales[s].remaining_stock]
        = [driver[d] EXCEPT !.at = "reservations", !.status = status, !.whole = whole]
    BY <1>0, <1>2, <1>3 DEF DriverRow, StatusRow
  <2>. QED
    BY <1>1, <2>1
<1>7. whole \in BOOLEAN
  BY <1>0, <1>3 DEF DriverRow
<1>8. whole => \E p \in DOMAIN products : status.inventory = inventory[p]
  BY <1>0, <1>3, <1>5 DEF ReadsStand, Reading
<1>. QED
  BY <1>0, <1>4, <1>5, <1>6, <1>7, <1>8, OwnReadStatus DEF Reading

LEMMA OwnReadReservations ==
  ASSUME ControlInv, ControlTables', NEW d \in Drivers, ReadReservations(d)
  PROVE  DriverInv(d)'
<1>0. /\ driver[d] \in DriverRow /\ driver[d].status \in StatusRow /\ ReadsStand(d)
      /\ Progress(d) /\ TablesTypeOK /\ driver[d].at = "reservations"
  BY OwnRow DEF ReadReservations
<1>1. PICK n : n = Cardinality(DOMAIN reservations)
  OBVIOUS
<1>2. PICK status : status = [driver[d].status EXCEPT !.reservations = n]
  OBVIOUS
<1>3. PICK whole : whole = driver[d].whole
  OBVIOUS
<1>4. n \in Nat
  <2>1. IsFiniteSet(DOMAIN reservations)
    BY <1>0, RowsFinite
  <2>. QED
    BY <1>1, <2>1, FS_CardinalityType
<1>5. /\ status \in StatusRow /\ status.inventory = driver[d].status.inventory
      /\ status.sale = driver[d].status.sale /\ status.remaining = driver[d].status.remaining
      /\ status.reservations = n
  BY <1>0, <1>2, <1>4 DEF StatusRow
<1>6. Read(d, [driver[d] EXCEPT !.at = "orders", !.status = status, !.whole = whole])
  <2>1. [driver[d] EXCEPT !.at = "orders", !.status.reservations = n]
        = [driver[d] EXCEPT !.at = "orders", !.status = status, !.whole = whole]
    BY <1>0, <1>2, <1>3 DEF DriverRow, StatusRow
  <2>. QED
    BY <1>1, <2>1 DEF ReadReservations
<1>7. whole \in BOOLEAN
  BY <1>0, <1>3 DEF DriverRow
<1>8. status.sale \in drawn \cup {NULL} /\ status.sale \in Sales
  BY <1>0, <1>5 DEF Progress
<1>9. whole => /\ \E p \in DOMAIN products : status.inventory = inventory[p]
               /\ status.sale \in DOMAIN flash_sales
               /\ status.remaining = flash_sales[status.sale].remaining_stock
  BY <1>0, <1>3, <1>5 DEF ReadsStand, Reading
<1>. QED
  BY <1>0, <1>1, <1>5, <1>6, <1>7, <1>8, <1>9, OwnReadStatus DEF Reading

\* A status that was read between two commits passes its own check.
LEMMA WholePasses ==
  ASSUME ControlTables, NEW status \in StatusRow, NEW p \in DOMAIN products,
         status.inventory = inventory[p], status.sale \in DOMAIN flash_sales,
         status.remaining = flash_sales[status.sale].remaining_stock,
         status.reservations = Cardinality(DOMAIN reservations),
         status.orders = Cardinality(DOMAIN orders)
  PROVE  Passes(status)
<1>1. PICK s : s = status.sale
  OBVIOUS
<1>2. /\ DOMAIN products = {ProductOf[s]}
      /\ inventory[ProductOf[s]].expected_total = Allocated[s]
      /\ flash_sales[s].remaining_stock = inventory[ProductOf[s]].available
  BY <1>1 DEF ControlTables, OneSale
<1>3. p = ProductOf[s] /\ p \in DOMAIN inventory /\ DOMAIN orders = DOMAIN reservations
  BY <1>2 DEF ControlTables, TablesTypeOK
<1>4. inventory[p].available + inventory[p].reserved + inventory[p].sold = Allocated[s]
  BY <1>2, <1>3 DEF ControlTables, InventoryReconciled
<1>. QED
  BY <1>1, <1>2, <1>3, <1>4 DEF Passes

LEMMA OwnReadOrders ==
  ASSUME ControlInv, ControlTables', NEW d \in Drivers, ReadOrders(d)
  PROVE  DriverInv(d)'
<1>0. /\ driver[d] \in DriverRow /\ driver[d].status \in StatusRow /\ ReadsStand(d)
      /\ OwnKeys(d) /\ Retried(d) /\ Counts(d)
      /\ Progress(d) /\ ControlTables /\ TablesTypeOK /\ driver[d].at = "orders"
      /\ DOMAIN driver = Drivers
  BY OwnRow DEF ReadOrders
<1>1. PICK n : n = Cardinality(DOMAIN orders)
  OBVIOUS
<1>2. PICK status : status = [driver[d].status EXCEPT !.orders = n]
  OBVIOUS
<1>3. PICK next : next = driver[d].next
  OBVIOUS
<1>4. PICK s : s = IF next = "done" THEN driver[d].sale ELSE driver[d].status.sale
  OBVIOUS
<1>5. PICK retries : retries = IF next = "prove" THEN Proofs ELSE 0
  OBVIOUS
<1>6. PICK waiting : waiting = IF next = "buy" THEN Buyers ELSE {}
  OBVIOUS
<1>7. /\ driver'[d] = [driver[d] EXCEPT !.at = next, !.status.orders = n, !.sale = s,
                                        !.retries = retries, !.waiting = waiting]
      /\ UNCHANGED <<ledgerVars, drawn>>
  BY <1>0, <1>1, <1>3, <1>4, <1>5, <1>6 DEF ReadOrders, Read
<1>8. n \in Nat
  <2>1. IsFiniteSet(DOMAIN reservations) /\ DOMAIN orders = DOMAIN reservations
    BY <1>0, RowsFinite DEF TablesTypeOK
  <2>. QED
    BY <1>1, <2>1, FS_CardinalityType
<1>9. /\ status \in StatusRow /\ status.inventory = driver[d].status.inventory
      /\ status.sale = driver[d].status.sale /\ status.remaining = driver[d].status.remaining
      /\ status.reservations = driver[d].status.reservations /\ status.orders = n
  BY <1>0, <1>2, <1>8 DEF StatusRow
<1>10. /\ driver'[d].kind = driver[d].kind /\ driver'[d].id = driver[d].id
       /\ driver'[d].at = next /\ driver'[d].next = next /\ driver'[d].sale = s
       /\ driver'[d].whole = driver[d].whole /\ driver'[d].status = status
       /\ driver'[d].retries = retries
       /\ driver'[d].waiting = waiting /\ driver'[d].first = driver[d].first
       /\ driver'[d].got = driver[d].got /\ driver'[d].same = driver[d].same
       /\ driver'[d].successful = driver[d].successful
       /\ driver'[d].duplicate = driver[d].duplicate
       /\ driver'[d].soldOut = driver[d].soldOut /\ driver'[d].failed = driver[d].failed
       /\ drawn' = drawn
  BY <1>0, <1>2, <1>3, <1>7 DEF DriverRow
<1>11. /\ next \in {"done", "buy", "prove"}
       /\ s \in Sales \cup {NULL} /\ s \in drawn \cup {NULL}
       /\ next # "done" => s \in Sales
       /\ retries \in Nat /\ waiting \in SUBSET Buyers
  BY <1>0, <1>3, <1>4, <1>5, <1>6, ControlAssumption DEF DriverRow, Progress
<1>12. driver'[d] \in DriverRow
  <2>1. PICK row : row = [driver[d] EXCEPT !.at = next, !.status = status]
    OBVIOUS
  <2>2. next \in Ats
    BY <1>11 DEF Ats
  <2>3. row \in DriverRow
    BY <1>0, <1>9, <2>1, <2>2 DEF DriverRow
  <2>4. [row EXCEPT !.sale = s, !.retries = retries, !.waiting = waiting] \in DriverRow
    BY <1>11, <2>3, RowTyped
  <2>5. driver'[d] = [row EXCEPT !.sale = s, !.retries = retries, !.waiting = waiting]
    BY <1>0, <1>2, <1>7, <2>1 DEF DriverRow
  <2>. QED
    BY <2>4, <2>5
<1>13. Progress(d)'
  BY <1>0, <1>3, <1>9, <1>10, <1>11, <1>12 DEF Progress
<1>14. UNCHANGED <<products, inventory, flash_sales, reservations, idempotency_keys>>
  BY <1>7 DEF ledgerVars, tables
<1>15. OwnKeys(d)'
  <2>1. next = "prove" => /\ driver[d].id = d
                          /\ \A i \in Buyers : <<d, i>> \notin DOMAIN idempotency_keys
    BY <1>0, <1>3 DEF OwnKeys, BeforeBuying
  <2>2. driver[d].id \in {d} \cup RequestIDs
    BY <1>0 DEF OwnKeys
  <2>3. BeforeBuying(d)' <=> next = "prove"
    BY <1>10 DEF BeforeBuying
  <2>. QED
    BY <1>10, <1>11, <1>14, <2>1, <2>2, <2>3 DEF OwnKeys
<1>16. Retried(d)'
  <2>1. /\ driver[d].same = driver[d].got /\ driver[d].got <= Proofs /\ driver[d].first = NULL
        /\ next = "prove" => driver[d].got = 0 /\ retries = Proofs
    BY <1>0, <1>3, <1>5 DEF Retried
  <2>2. next # "expire"
    BY <1>11
  <2>. QED
    BY <1>10, <2>1, <2>2, ControlAssumption DEF Retried
<1>17. ReadsStand(d)'
  <2>1. SUFFICES ASSUME driver[d].whole
                 PROVE  Passes(status)'
    BY <1>10, <1>11 DEF ReadsStand, Reading
  <2>2. PICK p \in DOMAIN products : driver[d].status.inventory = inventory[p]
    BY <1>0, <2>1 DEF ReadsStand, Reading
  <2>3. /\ status.sale \in DOMAIN flash_sales
        /\ status.remaining = flash_sales[status.sale].remaining_stock
        /\ status.reservations = Cardinality(DOMAIN reservations)
    BY <1>0, <1>9, <2>1 DEF ReadsStand
  <2>4. Passes(status)
    BY <1>0, <1>1, <1>9, <2>2, <2>3, WholePasses
  <2>. QED
    BY <2>4 DEF Passes
<1>18. CASE next = "done"
  <2>1. BeforeBuying(d)' <=> BeforeBuying(d)
    BY <1>3, <1>10, <1>18 DEF BeforeBuying
  <2>2. SameCounts(d) /\ driver[d].waiting = {}
    BY <1>0, <1>4, <1>6, <1>10, <1>18 DEF SameCounts, Counts
  <2>3. Counts(d)'
    BY <1>0, <1>7, <2>1, <2>2, SameTables, CountsCarried
  <2>. QED
    BY <1>13, <1>15, <1>16, <1>17, <2>3 DEF DriverInv
<1>19. CASE next = "prove"
  <2>1. BeforeBuying(d) /\ BeforeBuying(d)'
    BY <1>3, <1>10, <1>19 DEF BeforeBuying
  <2>2. Counts(d)'
    BY <1>0, <1>6, <1>10, <1>19, <2>1 DEF Counts
  <2>. QED
    BY <1>13, <1>15, <1>16, <1>17, <2>2 DEF DriverInv
<1>20. CASE next = "buy"
  <2>1. BeforeBuying(d) /\ ~ BeforeBuying(d)'
    BY <1>0, <1>3, <1>10, <1>20 DEF BeforeBuying
  <2>2. /\ driver'[d].successful = 0 /\ driver'[d].duplicate = 0
        /\ driver'[d].soldOut = 0 /\ driver'[d].failed = 0 /\ driver'[d].waiting = Buyers
    BY <1>0, <1>6, <1>10, <1>20, <2>1 DEF Counts
  <2>3. Counted(d, {}, {})'
    <3>1. Served(d)' = {}
      BY <2>2 DEF Served
    <3>. QED
      BY <2>2, <3>1, FS_EmptySet DEF Counted
  <2>4. ASSUME s \in DOMAIN flash_sales
        PROVE  flash_sales[s].remaining_stock <= Allocated[s]
    <3>1. PICK p : p = ProductOf[s]
      OBVIOUS
    <3>2. /\ flash_sales[s].remaining_stock = inventory[p].available
          /\ inventory[p].expected_total = Allocated[s]
          /\ p \in DOMAIN inventory
      BY <1>0, <2>4, <3>1 DEF ControlTables, OneSale, TablesTypeOK
    <3>3. inventory[p].available + inventory[p].reserved + inventory[p].sold = Allocated[s]
      BY <1>0, <3>2 DEF ControlTables, InventoryReconciled
    <3>4. /\ inventory[p].available \in Nat /\ inventory[p].reserved \in Nat
          /\ inventory[p].sold \in Nat
      BY <1>0, <3>2 DEF TablesTypeOK, IsTable, InventoryRow
    <3>. QED
      BY <3>2, <3>3, <3>4
  <2>5. Undisturbed(driver[d].sale)' =>
          driver'[d].successful + flash_sales'[driver'[d].sale].remaining_stock
            <= Allocated[driver'[d].sale]
    <3>1. s \in DOMAIN flash_sales => flash_sales[s].remaining_stock \in Nat
      BY <1>0 DEF TablesTypeOK, IsTable, SaleRow
    <3>. QED
      BY <1>10, <1>14, <2>2, <2>4, <3>1 DEF Undisturbed
  <2>6. Counts(d)'
    BY <1>10, <1>20, <2>1, <2>2, <2>3, <2>5 DEF Counts
  <2>. QED
    BY <1>13, <1>15, <1>16, <1>17, <2>6 DEF DriverInv
<1>. QED
  BY <1>11, <1>18, <1>19, <1>20

LEMMA OwnGiveUp ==
  ASSUME ControlInv, ControlTables', NEW d \in Drivers, GiveUp(d)
  PROVE  DriverInv(d)'
<1>1. driver'[d] = Error
  BY ReadStep DEF GiveUp, ControlInv
<1>. QED
  BY <1>1, ErrorInv DEF ControlTables

-----------------------------------------------------------------------------
(***************************************************************************)
(* loadgen's proof.                                                        *)
(***************************************************************************)
\* A driver that will buy later: its keys are free, and it has counted nothing.
LEMMA StillBefore ==
  ASSUME NEW d \in Drivers, OwnKeys(d), Counts(d), driver[d].next = "prove",
         BeforeBuying(d)', driver'[d].at # "buy",
         driver'[d].id = driver[d].id, driver'[d].waiting = driver[d].waiting,
         driver[d].at # "buy",
         driver'[d].successful = driver[d].successful,
         driver'[d].duplicate = driver[d].duplicate,
         driver'[d].soldOut = driver[d].soldOut, driver'[d].failed = driver[d].failed,
         \A i \in Buyers : <<d, i>> \notin DOMAIN idempotency_keys
                             => <<d, i>> \notin DOMAIN idempotency_keys'
  PROVE  OwnKeys(d)' /\ Counts(d)'
<1>1. BeforeBuying(d) /\ driver[d].id = d
  BY DEF BeforeBuying, OwnKeys
<1>2. OwnKeys(d)'
  BY <1>1 DEF OwnKeys
<1>3. Counts(d)'
  BY <1>1 DEF Counts
<1>. QED
  BY <1>2, <1>3

LEMMA OwnGetProof ==
  ASSUME ControlInv, ControlTables', NEW d \in Drivers, GetProof(d)
  PROVE  DriverInv(d)'
<1>0. /\ driver[d] \in DriverRow /\ Progress(d) /\ OwnKeys(d) /\ Retried(d) /\ Counts(d)
      /\ ControlTables /\ TablesTypeOK /\ DOMAIN driver = Drivers /\ driver[d].at = "prove"
  BY OwnRow DEF GetProof
<1>1. CASE Read(d, Error)
  <2>1. driver'[d] = Error
    BY <1>0, <1>1, ReadStep
  <2>. QED
    BY <2>1, ErrorInv DEF ControlTables
<1>2. CASE /\ driver[d].first \in DOMAIN reservations
           /\ Read(d, [driver[d] EXCEPT !.at = "expire",
                                        !.until = reservations[driver[d].first].expires_at + 1])
  <2>1. PICK e : e = reservations[driver[d].first].expires_at + 1
    OBVIOUS
  <2>2. e \in Nat
    BY <1>0, <1>2, <2>1 DEF TablesTypeOK, IsTable, ReservationRow
  <2>3. /\ driver'[d] = [driver[d] EXCEPT !.at = "expire", !.until = e]
        /\ UNCHANGED <<ledgerVars, drawn>>
    BY <1>0, <1>2, <2>1 DEF Read
  <2>4. driver'[d] \in DriverRow
    BY <1>0, <2>2, <2>3, ZenonT(30) DEF DriverRow, Ats
  <2>5. /\ driver'[d].kind = driver[d].kind /\ driver'[d].id = driver[d].id
        /\ driver'[d].at = "expire" /\ driver'[d].next = driver[d].next
        /\ driver'[d].sale = driver[d].sale /\ driver'[d].status = driver[d].status
        /\ driver'[d].waiting = driver[d].waiting /\ driver'[d].first = driver[d].first
        /\ driver'[d].got = driver[d].got /\ driver'[d].same = driver[d].same
        /\ driver'[d].successful = driver[d].successful
        /\ driver'[d].duplicate = driver[d].duplicate
        /\ driver'[d].soldOut = driver[d].soldOut /\ driver'[d].failed = driver[d].failed
        /\ drawn' = drawn
    BY <1>0, <2>3 DEF DriverRow
  <2>6. Progress(d)'
    BY <1>0, <2>4, <2>5 DEF Progress
  <2>7. driver[d].next = "prove" /\ BeforeBuying(d)' /\ idempotency_keys' = idempotency_keys
    BY <1>0, <2>3, <2>5 DEF Progress, BeforeBuying, ledgerVars, tables
  <2>8. OwnKeys(d)' /\ Counts(d)'
    BY <1>0, <2>5, <2>7, StillBefore
  <2>9. Retried(d)' /\ ReadsStand(d)'
    BY <1>0, <2>5 DEF Retried, ReadsStand, Reading
  <2>. QED
    BY <2>6, <2>8, <2>9 DEF DriverInv
<1>. QED
  BY <1>1, <1>2 DEF GetProof

LEMMA OwnExpireProof ==
  ASSUME ControlInv, ControlTables', NEW d \in Drivers, ExpireProof(d)
  PROVE  DriverInv(d)'
<1>0. /\ driver[d] \in DriverRow /\ Progress(d) /\ OwnKeys(d) /\ Retried(d) /\ Counts(d)
      /\ ControlTables /\ TablesTypeOK /\ DOMAIN driver = Drivers /\ driver[d].at = "expire"
  BY OwnRow DEF ExpireProof
<1>1. PICK S : /\ S \subseteq DOMAIN reservations /\ drawn' = drawn
               /\ Committed(d, [driver[d] EXCEPT !.at = "reset", !.next = "buy",
                                   !.restored = Cardinality(S),
                                   !.first = NULL, !.until = 0])
  BY DEF ExpireProof
<1>2. PICK n : n = Cardinality(S)
  OBVIOUS
<1>3. n \in Nat
  BY <1>0, <1>1, <1>2, RowsFinite, FS_CardinalityType
<1>4. driver'[d] = [driver[d] EXCEPT !.at = "reset", !.next = "buy", !.restored = n,
                                     !.first = NULL, !.until = 0]
  BY <1>1, <1>2 DEF Committed
<1>5. driver'[d] \in DriverRow
  <2>1. "reset" \in Ats /\ NULL \in ReservationIDs \cup {NULL} /\ 0 \in Nat
    BY DEF Ats
  <2>2. PICK row : row = [driver[d] EXCEPT !.at = "reset", !.next = "buy"]
    OBVIOUS
  <2>3. row \in DriverRow
    BY <1>0, <2>1, <2>2 DEF DriverRow
  <2>4. [row EXCEPT !.restored = n, !.first = NULL, !.until = 0] \in DriverRow
    BY <1>3, <2>1, <2>3 DEF DriverRow
  <2>. QED
    BY <1>4, <2>2, <2>4
<1>6. /\ driver'[d].kind = driver[d].kind /\ driver'[d].id = driver[d].id
      /\ driver'[d].at = "reset" /\ driver'[d].next = "buy"
      /\ driver'[d].sale = driver[d].sale /\ driver'[d].status = driver[d].status
      /\ driver'[d].waiting = driver[d].waiting /\ driver'[d].first = NULL
      /\ driver'[d].got = driver[d].got /\ driver'[d].same = driver[d].same
      /\ driver'[d].successful = driver[d].successful
      /\ driver'[d].duplicate = driver[d].duplicate
      /\ driver'[d].soldOut = driver[d].soldOut /\ driver'[d].failed = driver[d].failed
  BY <1>0, <1>4 DEF DriverRow
<1>7. Progress(d)'
  BY <1>0, <1>1, <1>5, <1>6 DEF Progress
<1>8. driver[d].next = "prove" /\ BeforeBuying(d)'
  BY <1>0, <1>6 DEF Progress, BeforeBuying
<1>9. idempotency_keys' = idempotency_keys
  BY <1>0, ExpireTables
<1>10. OwnKeys(d)' /\ Counts(d)'
  BY <1>0, <1>6, <1>8, <1>9, StillBefore
<1>11. Retried(d)' /\ ReadsStand(d)'
  BY <1>0, <1>6 DEF Retried, ReadsStand, Reading
<1>. QED
  BY <1>7, <1>10, <1>11 DEF DriverInv

\* A retry, counted or not: all but the counts of the retries stays.
SameButRetries(d) ==
  /\ driver'[d].kind = driver[d].kind /\ driver'[d].id = driver[d].id
  /\ driver'[d].at = "prove" /\ driver'[d].next = driver[d].next
  /\ driver'[d].sale = driver[d].sale /\ driver'[d].whole = driver[d].whole
  /\ driver'[d].status = driver[d].status
  /\ driver'[d].waiting = driver[d].waiting
  /\ driver'[d].successful = driver[d].successful
  /\ driver'[d].duplicate = driver[d].duplicate
  /\ driver'[d].soldOut = driver[d].soldOut /\ driver'[d].failed = driver[d].failed
  /\ driver'[d] \in DriverRow

LEMMA RetryKeeps ==
  ASSUME ControlInv, ControlTables', Grown, NEW d \in Drivers, driver[d].at = "prove",
         SameButRetries(d), Retried(d)',
         DOMAIN idempotency_keys' \subseteq DOMAIN idempotency_keys \cup {ProofKey}
  PROVE  DriverInv(d)'
<1>0. /\ Progress(d) /\ OwnKeys(d) /\ Counts(d) /\ ReadsStand(d)
  BY OwnRow
<1>1. Progress(d)'
  BY <1>0 DEF Progress, SameButRetries, Grown
<1>2. driver[d].next = "prove" /\ BeforeBuying(d)'
  BY <1>0 DEF Progress, BeforeBuying, SameButRetries
<1>3. \A i \in Buyers : <<d, i>> # ProofKey
  <2>1. \A i \in Buyers : <<d, i>> \in Drivers \X Buyers
    OBVIOUS
  <2>. QED
    BY <2>1, ControlAssumption
<1>4. OwnKeys(d)' /\ Counts(d)'
  BY <1>0, <1>2, <1>3, StillBefore DEF SameButRetries
<1>5. ReadsStand(d)'
  BY <1>0, StandsApart DEF SameButRetries, Reading
<1>. QED
  BY <1>1, <1>4, <1>5 DEF DriverInv

LEMMA OwnProveFails ==
  ASSUME ControlInv, ControlTables', NEW d \in Drivers, ProveFails(d)
  PROVE  DriverInv(d)'
<1>0. /\ driver[d] \in DriverRow /\ Progress(d) /\ Retried(d) /\ ControlTables
      /\ driver[d].at = "prove" /\ driver[d].retries > 0
  BY OwnRow DEF ProveFails
<1>1. driver'[d] = [driver[d] EXCEPT !.retries = @ - 1]
  BY DEF ProveFails, Committed
<1>2. driver[d].retries \in Nat /\ driver[d].retries - 1 \in Nat
  BY <1>0 DEF DriverRow
<1>3. SameButRetries(d) /\ SameRetries(d) /\ driver'[d].retries = driver[d].retries - 1
  BY <1>0, <1>1, <1>2 DEF DriverRow, SameButRetries, SameRetries
<1>4. Grown /\ DOMAIN idempotency_keys' \subseteq DOMAIN idempotency_keys \cup {ProofKey}
  <2>1. CASE UNCHANGED <<ledgerVars, drawn>>
    BY <1>0, <2>1, SameTables DEF ledgerVars, tables
  <2>2. CASE Reserve(ProofKey, ProofKey, driver[d].sale)
    <3>1. PICK s : s = driver[d].sale
      OBVIOUS
    <3>2. RequestOf(d, ProofKey, ProofKey)
      BY <1>0 DEF RequestOf
    <3>3. ReserveRequest(ProofKey, s) \in Request
      BY <1>0, <3>1, <3>2, RequestTyped
    <3>4. Reserve(ProofKey, ProofKey, s)
      BY <2>2, <3>1
    <3>. QED
      BY <1>0, <3>3, <3>4, ReserveTables
  <2>. QED
    BY <2>1, <2>2 DEF ProveFails
<1>5. Retried(d)'
  BY <1>0, <1>2, <1>3, <1>4, RetriedCarried DEF SameButRetries
<1>. QED
  BY <1>0, <1>3, <1>4, <1>5, RetryKeeps

\* An answer "CREATED" is the stored one; it is about a sale that is there.
LEMMA Answer ==
  ASSUME ControlTables, NEW k, NEW u, NEW s \in Sales, ReserveRequest(u, s) \in Request,
         Reserve(k, u, s), Code(k, u, s) # "IDEMPOTENCY_CONFLICT"
  PROVE  /\ k \in DOMAIN idempotency_keys'
         /\ idempotency_keys'[k].request.sale_id = s
         /\ idempotency_keys'[k].code = Code(k, u, s)
         /\ Code(k, u, s) = "CREATED" =>
              /\ s \in DOMAIN flash_sales
              /\ idempotency_keys'[k].resource_id = Id(k)
              /\ Id(k) \in ReservationIDs
         /\ Code(k, u, s) = "INVENTORY_SOLD_OUT" => NoneLeft(s)'
<1>0. PICK code : code = Code(k, u, s)
  OBVIOUS
<1>1. PICK r : r = Id(k)
  OBVIOUS
<1>2. ReserveRequest(u, s).sale_id = s
  BY DEF ReserveRequest
<1>3. ControlTables' /\ Grown /\ k \in DOMAIN idempotency_keys'
  BY ReserveTables
<1>4. /\ idempotency_keys'[k].request = ReserveRequest(u, s)
      /\ idempotency_keys'[k].code = code
      /\ code = "CREATED" => idempotency_keys'[k].resource_id = r
  <2>1. CASE k \in DOMAIN idempotency_keys
    <3>1. idempotency_keys' = idempotency_keys
      BY <2>1, ReserveTables DEF ledgerVars, tables
    <3>2. idempotency_keys[k].request = ReserveRequest(u, s) /\ idempotency_keys[k].code = code
      BY <1>0, <2>1, CodeStored
    <3>3. r = idempotency_keys[k].resource_id
      BY <1>1, <2>1 DEF Id
    <3>. QED
      BY <3>1, <3>2, <3>3
  <2>2. CASE k \notin DOMAIN idempotency_keys
    BY <1>0, <1>1, <2>2, ReserveTables
  <2>. QED
    BY <2>1, <2>2
<1>5. idempotency_keys'[k].request.sale_id = s
  BY <1>2, <1>4
<1>6. /\ code = "CREATED" => s \in DOMAIN flash_sales' /\ idempotency_keys'[k].resource_id \in ReservationIDs
      /\ code = "INVENTORY_SOLD_OUT" => NoneLeft(s)'
  BY <1>3, <1>4, <1>5 DEF ControlTables, AnswersOfSale
<1>7. DOMAIN flash_sales' = DOMAIN flash_sales
  BY <1>3 DEF Grown
<1>. QED
  BY <1>0, <1>1, <1>3, <1>4, <1>5, <1>6, <1>7

LEMMA OwnProve ==
  ASSUME ControlInv, ControlTables', NEW d \in Drivers, Prove(d)
  PROVE  DriverInv(d)'
<1>0. /\ driver[d] \in DriverRow /\ Progress(d) /\ Retried(d) /\ ControlTables
      /\ driver[d].at = "prove" /\ driver[d].retries > 0
  BY OwnRow DEF Prove
<1>1. PICK s : s = driver[d].sale
  OBVIOUS
<1>2. PICK code : code = Code(ProofKey, ProofKey, s)
  OBVIOUS
<1>3. PICK r : r = Id(ProofKey)
  OBVIOUS
<1>4. RequestOf(d, ProofKey, ProofKey)
  BY <1>0 DEF RequestOf
<1>5. s \in Sales /\ ReserveRequest(ProofKey, s) \in Request
  BY <1>0, <1>1, <1>4, RequestTyped
<1>6. Reserve(ProofKey, ProofKey, s)
  BY <1>1 DEF Prove
<1>7. Grown /\ DOMAIN idempotency_keys' \subseteq DOMAIN idempotency_keys \cup {ProofKey}
  BY <1>0, <1>5, <1>6, ReserveTables
<1>8. driver'[d] = IF code # "CREATED" THEN [driver[d] EXCEPT !.retries = @ - 1]
        ELSE [[driver[d] EXCEPT !.retries = @ - 1] EXCEPT
                !.got = @ + 1, !.first = IF @ = NULL THEN r ELSE @,
                !.same = IF driver[d].first \in {NULL, r} THEN @ + 1 ELSE @]
  BY <1>1, <1>2, <1>3 DEF Prove, Committed
<1>9. driver[d].retries \in Nat /\ driver[d].retries - 1 \in Nat
  BY <1>0 DEF DriverRow
<1>10. CASE code # "CREATED"
  <2>1. driver'[d] = [driver[d] EXCEPT !.retries = @ - 1]
    BY <1>8, <1>10
  <2>2. SameButRetries(d) /\ SameRetries(d) /\ driver'[d].retries = driver[d].retries - 1
    BY <1>0, <1>9, <2>1 DEF DriverRow, SameButRetries, SameRetries
  <2>3. Retried(d)'
    BY <1>0, <1>7, <1>9, <2>2, RetriedCarried DEF SameButRetries
  <2>. QED
    BY <1>0, <1>7, <2>2, <2>3, RetryKeeps
<1>11. CASE code = "CREATED"
  <2>1. /\ s \in DOMAIN flash_sales /\ r \in ReservationIDs /\ r # NULL
        /\ ProofKey \in DOMAIN idempotency_keys'
        /\ idempotency_keys'[ProofKey].resource_id = r
    BY <1>0, <1>2, <1>3, <1>5, <1>6, <1>11, Answer, SchemaAssumption
  <2>2. driver[d].first \in {NULL, r}
    <3>1. SUFFICES ASSUME driver[d].first # NULL
                   PROVE  driver[d].first = r
      OBVIOUS
    <3>2. /\ ProofKey \in DOMAIN idempotency_keys
          /\ idempotency_keys[ProofKey].resource_id = driver[d].first
      BY <1>0, <1>1, <2>1, <3>1 DEF Retried
    <3>. QED
      BY <1>3, <3>2 DEF Id
  <2>3. driver'[d] = [driver[d] EXCEPT !.retries = @ - 1, !.got = @ + 1, !.first = r,
                                       !.same = @ + 1]
    <3>1. driver[d].first # NULL => driver[d].first = r
      BY <2>2
    <3>. QED
      BY <1>0, <1>8, <1>11, <2>2, <3>1 DEF DriverRow
  <2>4. driver[d].got \in Nat /\ driver[d].same \in Nat
    BY <1>0 DEF DriverRow
  <2>5. SameButRetries(d)
    <3>1. PICK n, m, q : /\ n = driver[d].retries - 1 /\ m = driver[d].got + 1
                         /\ q = driver[d].same + 1
      OBVIOUS
    <3>2. n \in Nat /\ m \in Nat /\ q \in Nat /\ r \in ReservationIDs \cup {NULL}
      BY <1>9, <2>1, <2>4, <3>1
    <3>3. driver'[d] = [driver[d] EXCEPT !.retries = n, !.got = m, !.first = r, !.same = q]
      BY <1>0, <2>3, <3>1 DEF DriverRow
    <3>4. driver'[d] \in DriverRow
      BY <1>0, <3>2, <3>3, ZenonT(30) DEF DriverRow
    <3>. QED
      BY <1>0, <3>3, <3>4 DEF DriverRow, SameButRetries
  <2>6. /\ driver'[d].retries = driver[d].retries - 1 /\ driver'[d].got = driver[d].got + 1
        /\ driver'[d].same = driver[d].same + 1 /\ driver'[d].first = r
    BY <1>0, <2>3 DEF DriverRow
  <2>7. driver[d].same = driver[d].got /\ driver[d].got + driver[d].retries <= Proofs
    BY <1>0 DEF Retried
  <2>8. driver'[d].got <= Proofs /\ driver'[d].got + driver'[d].retries <= Proofs
    BY <1>0, <1>9, <2>4, <2>6, <2>7, ControlAssumption
  <2>9. Retried(d)'
    BY <2>1, <2>5, <2>6, <2>7, <2>8 DEF Retried, SameButRetries
  <2>. QED
    BY <1>0, <1>7, <2>5, <2>9, RetryKeeps
<1>. QED
  BY <1>10, <1>11

-----------------------------------------------------------------------------
(***************************************************************************)
(* A buyer's attempt.                                                      *)
(***************************************************************************)
\* The buyers who were through are where they were; i has come through.
LEMMA Attempted ==
  ASSUME Grown, NEW d, NEW i \in Buyers, i \in driver[d].waiting,
         NEW K \in SUBSET Buyers, NEW F \in SUBSET Buyers, Counted(d, K, F),
         driver'[d].sale = driver[d].sale, driver'[d].id = driver[d].id,
         driver'[d].waiting = driver[d].waiting \ {i},
         driver[d].sale \in DOMAIN flash_sales'
  PROVE  /\ K \subseteq Served(d)' /\ Served(d)' \subseteq K \cup F \cup {i}
         /\ \A j \in Buyers \ (driver'[d].waiting \cup K \cup F \cup {i}) :
              BuyerKey(d, j)' \in DOMAIN idempotency_keys'
<1>1. i \notin K \cup F
  BY DEF Counted
<1>2. /\ K \subseteq Served(d) /\ Served(d) \subseteq K \cup F
      /\ \A j \in Buyers \ (driver[d].waiting \cup K \cup F) :
           BuyerKey(d, j) \in DOMAIN idempotency_keys
  BY DEF Counted, Grown
<1>3. \A j : BuyerKey(d, j)' = BuyerKey(d, j)
  BY DEF BuyerKey
<1>4. \A k \in DOMAIN idempotency_keys :
        k \in DOMAIN idempotency_keys' /\ idempotency_keys'[k] = idempotency_keys[k]
  BY DEF Grown
<1>5. ASSUME NEW j, j # i, BuyerKey(d, j) \in DOMAIN idempotency_keys
      PROVE  j \in Served(d)' <=> j \in Served(d)
  BY <1>3, <1>4, <1>5 DEF Served
<1>6. K \subseteq Served(d)'
  BY <1>1, <1>2, <1>5 DEF Served
<1>7. Served(d)' \subseteq K \cup F \cup {i}
  <2>1. SUFFICES ASSUME NEW j \in Served(d)', j \notin K \cup F \cup {i}
                 PROVE  FALSE
    BY <2>1
  <2>2. j \in Buyers \ driver[d].waiting
    BY <2>1 DEF Served
  <2>. QED
    BY <1>2, <1>5, <2>1, <2>2
<1>. QED
  BY <1>2, <1>3, <1>4, <1>6, <1>7

\* i is counted among the served, among the failed, or has its answer stored.
LEMMA AttemptCounted ==
  ASSUME Grown, NEW d, NEW i \in Buyers, i \in driver[d].waiting, driver[d] \in DriverRow,
         NEW K \in SUBSET Buyers, NEW F \in SUBSET Buyers, Counted(d, K, F),
         driver'[d].sale = driver[d].sale, driver'[d].id = driver[d].id,
         driver'[d].waiting = driver[d].waiting \ {i},
         \/ /\ driver'[d].successful + driver'[d].duplicate
                 = driver[d].successful + driver[d].duplicate + 1
            /\ driver'[d].failed = driver[d].failed
            /\ i \in Served(d)'
         \/ /\ driver'[d].successful + driver'[d].duplicate
                 = driver[d].successful + driver[d].duplicate
            /\ driver'[d].failed = driver[d].failed + 1
         \/ /\ driver'[d].successful + driver'[d].duplicate
                 = driver[d].successful + driver[d].duplicate
            /\ driver'[d].failed = driver[d].failed
            /\ BuyerKey(d, i)' \in DOMAIN idempotency_keys' /\ i \notin Served(d)'
  PROVE  \E L, G \in SUBSET Buyers : Counted(d, L, G)'
<1>0. /\ Cardinality(K) = driver[d].successful + driver[d].duplicate
      /\ Cardinality(F) = driver[d].failed
  BY DEF Counted
<1>1. /\ i \notin K \cup F
      /\ K \subseteq Buyers \ driver'[d].waiting /\ F \subseteq Buyers \ driver'[d].waiting
      /\ K \cap F = {}
      /\ Cardinality(K \cup {i}) = Cardinality(K) + 1
      /\ Cardinality(F \cup {i}) = Cardinality(F) + 1
  <2>1. IsFiniteSet(K) /\ IsFiniteSet(F)
    BY FS_Subset, ControlAssumption
  <2>2. i \notin K /\ i \notin F
    BY DEF Counted
  <2>3. /\ Cardinality(K \cup {i}) = Cardinality(K) + 1
        /\ Cardinality(F \cup {i}) = Cardinality(F) + 1
    BY <2>1, <2>2, FS_AddElement
  <2>. QED
    BY <2>2, <2>3 DEF Counted
<1>2. ASSUME driver'[d].sale \in DOMAIN flash_sales'
      PROVE  /\ K \subseteq Served(d)' /\ Served(d)' \subseteq K \cup F \cup {i}
             /\ \A j \in Buyers \ (driver'[d].waiting \cup K \cup F \cup {i}) :
                  BuyerKey(d, j)' \in DOMAIN idempotency_keys'
  BY <1>2, Attempted
<1>3. i \notin driver'[d].waiting
  OBVIOUS
<1>4. CASE /\ driver'[d].successful + driver'[d].duplicate
                = driver[d].successful + driver[d].duplicate + 1
           /\ driver'[d].failed = driver[d].failed
           /\ i \in Served(d)'
  <2>1. Cardinality(K \cup {i}) = driver'[d].successful + driver'[d].duplicate
    BY <1>0, <1>1, <1>4
  <2>2. Counted(d, K \cup {i}, F)'
    BY <1>0, <1>1, <1>2, <1>3, <1>4, <2>1 DEF Counted
  <2>. QED
    BY <2>2
<1>5. CASE /\ driver'[d].successful + driver'[d].duplicate
                = driver[d].successful + driver[d].duplicate
           /\ driver'[d].failed = driver[d].failed + 1
  <2>1. Cardinality(F \cup {i}) = driver'[d].failed
    BY <1>0, <1>1, <1>5
  <2>2. Counted(d, K, F \cup {i})'
    BY <1>0, <1>1, <1>2, <1>3, <1>5, <2>1 DEF Counted
  <2>. QED
    BY <2>2
<1>6. CASE /\ driver'[d].successful + driver'[d].duplicate
                = driver[d].successful + driver[d].duplicate
           /\ driver'[d].failed = driver[d].failed
           /\ BuyerKey(d, i)' \in DOMAIN idempotency_keys' /\ i \notin Served(d)'
  <2>1. Counted(d, K, F)'
    BY <1>0, <1>1, <1>2, <1>3, <1>6 DEF Counted
  <2>. QED
    BY <2>1
<1>. QED
  BY <1>4, <1>5, <1>6

\* An attempt, however it is counted: the rest of the driver's state stays.
SameButCounts(d, i) ==
  /\ driver'[d].kind = driver[d].kind /\ driver'[d].id = driver[d].id
  /\ driver'[d].at = "buy" /\ driver'[d].next = driver[d].next
  /\ driver'[d].sale = driver[d].sale /\ driver'[d].whole = driver[d].whole
  /\ driver'[d].status = driver[d].status /\ driver'[d].first = driver[d].first
  /\ driver'[d].got = driver[d].got /\ driver'[d].same = driver[d].same
  /\ driver'[d].waiting = driver[d].waiting \ {i}
  /\ driver'[d] \in DriverRow

LEMMA AttemptKeeps ==
  ASSUME ControlInv, Grown, NEW d \in Drivers, NEW i \in Buyers, driver[d].at = "buy",
         SameButCounts(d, i), Counts(d)'
  PROVE  DriverInv(d)'
<1>0. Progress(d) /\ OwnKeys(d) /\ Retried(d) /\ ReadsStand(d)
  BY OwnRow
<1>1. Progress(d)'
  BY <1>0 DEF Progress, SameButCounts, Grown
<1>2. ~ BeforeBuying(d)' /\ driver'[d].next = "buy"
  BY <1>0 DEF Progress, BeforeBuying, SameButCounts
<1>3. OwnKeys(d)'
  BY <1>0, <1>2 DEF OwnKeys, SameButCounts
<1>4. Retried(d)'
  BY <1>0, <1>2, RetriedApart DEF SameButCounts, SameRetries
<1>5. ReadsStand(d)'
  BY <1>0, StandsApart DEF SameButCounts, Reading
<1>. QED
  BY <1>1, <1>3, <1>4, <1>5 DEF DriverInv

\* From the counts of an attempt, and what is left of its sale, all of Counts.
LEMMA AttemptCounts ==
  ASSUME NEW d, NEW i, NEW s, driver[d].sale = s, driver[d].next = "buy", SameButCounts(d, i),
         \E K, F \in SUBSET Buyers : Counted(d, K, F)',
         driver'[d].soldOut > 0 => NoneLeft(s)',
         Undisturbed(s)' =>
           driver'[d].successful + flash_sales'[s].remaining_stock <= Allocated[s]
  PROVE  Counts(d)'
<1>1. driver'[d].sale = s /\ driver'[d].at = "buy" /\ ~ BeforeBuying(d)'
  BY DEF SameButCounts, BeforeBuying
<1>2. /\ driver'[d].soldOut > 0 => NoneLeft(driver[d].sale)'
      /\ Undisturbed(driver[d].sale)' =>
           driver'[d].successful + flash_sales'[driver'[d].sale].remaining_stock
             <= Allocated[driver'[d].sale]
  BY <1>1 DEF NoneLeft, Undisturbed
<1>. QED
  BY <1>1, <1>2 DEF Counts

\* What an attempt's one count does to the driver's row.
OneMore(d, s, u, o, f) ==
  /\ driver'[d].successful = driver[d].successful + s
  /\ driver'[d].duplicate = driver[d].duplicate + u
  /\ driver'[d].soldOut = driver[d].soldOut + o
  /\ driver'[d].failed = driver[d].failed + f

LEMMA CountTyped ==
  ASSUME NEW row \in DriverRow, NEW n \in Nat
  PROVE  /\ [row EXCEPT !.successful = n] \in DriverRow
         /\ [row EXCEPT !.duplicate = n] \in DriverRow
         /\ [row EXCEPT !.soldOut = n] \in DriverRow
         /\ [row EXCEPT !.failed = n] \in DriverRow
  BY DEF DriverRow

LEMMA AttemptRow ==
  ASSUME NEW d, NEW i, driver[d] \in DriverRow, driver[d].at = "buy",
         NEW row, row = [driver[d] EXCEPT !.waiting = @ \ {i}]
  PROVE  /\ driver'[d] = [row EXCEPT !.successful = @ + 1] =>
              SameButCounts(d, i) /\ OneMore(d, 1, 0, 0, 0)
         /\ driver'[d] = [row EXCEPT !.duplicate = @ + 1] =>
              SameButCounts(d, i) /\ OneMore(d, 0, 1, 0, 0)
         /\ driver'[d] = [row EXCEPT !.soldOut = @ + 1] =>
              SameButCounts(d, i) /\ OneMore(d, 0, 0, 1, 0)
         /\ driver'[d] = [row EXCEPT !.failed = @ + 1] =>
              SameButCounts(d, i) /\ OneMore(d, 0, 0, 0, 1)
<1>1. PICK w : w = driver[d].waiting \ {i}
  OBVIOUS
<1>2. w \in SUBSET Buyers
  BY <1>1 DEF DriverRow
<1>3. row = [driver[d] EXCEPT !.waiting = w]
  BY <1>1
<1>4. /\ row \in DriverRow /\ row.waiting = w
      /\ row.kind = driver[d].kind /\ row.id = driver[d].id
      /\ row.at = "buy" /\ row.next = driver[d].next
      /\ row.sale = driver[d].sale /\ row.whole = driver[d].whole
      /\ row.status = driver[d].status /\ row.first = driver[d].first
      /\ row.got = driver[d].got /\ row.same = driver[d].same
      /\ row.successful = driver[d].successful /\ row.duplicate = driver[d].duplicate
      /\ row.soldOut = driver[d].soldOut /\ row.failed = driver[d].failed
  BY <1>2, <1>3 DEF DriverRow
<1>5. /\ row.successful \in Nat /\ row.duplicate \in Nat /\ row.soldOut \in Nat
      /\ row.failed \in Nat
  BY <1>4 DEF DriverRow
<1>6. ASSUME driver'[d] = [row EXCEPT !.successful = @ + 1]
      PROVE  SameButCounts(d, i) /\ OneMore(d, 1, 0, 0, 0)
  <2>1. driver'[d] \in DriverRow
    <3>1. PICK n : n = row.successful + 1
      OBVIOUS
    <3>2. n \in Nat /\ row \in DriverRow
      BY <1>4, <1>5, <3>1
    <3>3. [row EXCEPT !.successful = n] \in DriverRow
      BY <3>2, CountTyped
    <3>. QED
      BY <1>6, <3>1, <3>3
  <2>2. OneMore(d, 1, 0, 0, 0)
    BY <1>4, <1>5, <1>6 DEF DriverRow, OneMore
  <2>3. /\ driver'[d].kind = row.kind /\ driver'[d].id = row.id /\ driver'[d].at = row.at
        /\ driver'[d].next = row.next /\ driver'[d].sale = row.sale
        /\ driver'[d].whole = row.whole /\ driver'[d].status = row.status
        /\ driver'[d].first = row.first /\ driver'[d].got = row.got
        /\ driver'[d].same = row.same /\ driver'[d].waiting = row.waiting
    BY <1>4, <1>6 DEF DriverRow
  <2>4. SameButCounts(d, i)
    BY <1>1, <1>4, <2>1, <2>3 DEF SameButCounts
  <2>. QED
    BY <2>2, <2>4
<1>7. ASSUME driver'[d] = [row EXCEPT !.duplicate = @ + 1]
      PROVE  SameButCounts(d, i) /\ OneMore(d, 0, 1, 0, 0)
  <2>1. driver'[d] \in DriverRow
    <3>1. PICK n : n = row.duplicate + 1
      OBVIOUS
    <3>2. n \in Nat /\ row \in DriverRow
      BY <1>4, <1>5, <3>1
    <3>3. [row EXCEPT !.duplicate = n] \in DriverRow
      BY <3>2, CountTyped
    <3>. QED
      BY <1>7, <3>1, <3>3
  <2>2. OneMore(d, 0, 1, 0, 0)
    BY <1>4, <1>5, <1>7 DEF DriverRow, OneMore
  <2>3. /\ driver'[d].kind = row.kind /\ driver'[d].id = row.id /\ driver'[d].at = row.at
        /\ driver'[d].next = row.next /\ driver'[d].sale = row.sale
        /\ driver'[d].whole = row.whole /\ driver'[d].status = row.status
        /\ driver'[d].first = row.first /\ driver'[d].got = row.got
        /\ driver'[d].same = row.same /\ driver'[d].waiting = row.waiting
    BY <1>4, <1>7 DEF DriverRow
  <2>4. SameButCounts(d, i)
    BY <1>1, <1>4, <2>1, <2>3 DEF SameButCounts
  <2>. QED
    BY <2>2, <2>4
<1>8. ASSUME driver'[d] = [row EXCEPT !.soldOut = @ + 1]
      PROVE  SameButCounts(d, i) /\ OneMore(d, 0, 0, 1, 0)
  <2>1. driver'[d] \in DriverRow
    <3>1. PICK n : n = row.soldOut + 1
      OBVIOUS
    <3>2. n \in Nat /\ row \in DriverRow
      BY <1>4, <1>5, <3>1
    <3>3. [row EXCEPT !.soldOut = n] \in DriverRow
      BY <3>2, CountTyped
    <3>. QED
      BY <1>8, <3>1, <3>3
  <2>2. OneMore(d, 0, 0, 1, 0)
    BY <1>4, <1>5, <1>8 DEF DriverRow, OneMore
  <2>3. /\ driver'[d].kind = row.kind /\ driver'[d].id = row.id /\ driver'[d].at = row.at
        /\ driver'[d].next = row.next /\ driver'[d].sale = row.sale
        /\ driver'[d].whole = row.whole /\ driver'[d].status = row.status
        /\ driver'[d].first = row.first /\ driver'[d].got = row.got
        /\ driver'[d].same = row.same /\ driver'[d].waiting = row.waiting
    BY <1>4, <1>8 DEF DriverRow
  <2>4. SameButCounts(d, i)
    BY <1>1, <1>4, <2>1, <2>3 DEF SameButCounts
  <2>. QED
    BY <2>2, <2>4
<1>9. ASSUME driver'[d] = [row EXCEPT !.failed = @ + 1]
      PROVE  SameButCounts(d, i) /\ OneMore(d, 0, 0, 0, 1)
  <2>1. driver'[d] \in DriverRow
    <3>1. PICK n : n = row.failed + 1
      OBVIOUS
    <3>2. n \in Nat /\ row \in DriverRow
      BY <1>4, <1>5, <3>1
    <3>3. [row EXCEPT !.failed = n] \in DriverRow
      BY <3>2, CountTyped
    <3>. QED
      BY <1>9, <3>1, <3>3
  <2>2. OneMore(d, 0, 0, 0, 1)
    BY <1>4, <1>5, <1>9 DEF DriverRow, OneMore
  <2>3. /\ driver'[d].kind = row.kind /\ driver'[d].id = row.id /\ driver'[d].at = row.at
        /\ driver'[d].next = row.next /\ driver'[d].sale = row.sale
        /\ driver'[d].whole = row.whole /\ driver'[d].status = row.status
        /\ driver'[d].first = row.first /\ driver'[d].got = row.got
        /\ driver'[d].same = row.same /\ driver'[d].waiting = row.waiting
    BY <1>4, <1>9 DEF DriverRow
  <2>4. SameButCounts(d, i)
    BY <1>1, <1>4, <2>1, <2>3 DEF SameButCounts
  <2>. QED
    BY <2>2, <2>4
<1>. QED
  BY <1>6, <1>7, <1>8, <1>9

LEMMA OwnAttemptFails ==
  ASSUME ControlInv, ControlTables', NEW d \in Drivers, NEW i \in Buyers, AttemptFails(d, i)
  PROVE  DriverInv(d)'
<1>0. /\ driver[d] \in DriverRow /\ Progress(d) /\ Counts(d) /\ ControlTables
      /\ driver[d].at = "buy" /\ i \in driver[d].waiting
  BY OwnRow DEF AttemptFails
<1>1. PICK s : driver[d].sale = s
  OBVIOUS
<1>2. PICK row : row = [driver[d] EXCEPT !.waiting = @ \ {i}]
  OBVIOUS
<1>3. /\ SameButCounts(d, i) /\ driver'[d].failed = driver[d].failed + 1
      /\ driver'[d].successful = driver[d].successful
      /\ driver'[d].duplicate = driver[d].duplicate /\ driver'[d].soldOut = driver[d].soldOut
  <2>1. driver'[d] = [driver[d] EXCEPT !.waiting = @ \ {i}, !.failed = @ + 1]
    BY DEF AttemptFails, Committed
  <2>2. driver'[d] = [row EXCEPT !.failed = @ + 1]
    BY <1>2, <2>1
  <2>3. SameButCounts(d, i) /\ OneMore(d, 0, 0, 0, 1)
    BY <1>0, <1>2, <2>2, AttemptRow
  <2>. QED
    BY <1>0, <2>3 DEF OneMore, DriverRow
<1>4. Grown
  <2>1. CASE UNCHANGED <<ledgerVars, drawn>>
    BY <1>0, <2>1, SameTables
  <2>2. CASE Reserve(BuyerKey(d, i), Buyer(d, i), driver[d].sale)
    <3>1. PICK k, u : k = BuyerKey(d, i) /\ u = Buyer(d, i)
      OBVIOUS
    <3>2. RequestOf(d, k, u)
      BY <1>0, <3>1 DEF RequestOf
    <3>3. ReserveRequest(u, s) \in Request
      BY <1>0, <1>1, <3>2, RequestTyped
    <3>4. Reserve(k, u, s)
      BY <1>1, <2>2, <3>1
    <3>. QED
      BY <1>0, <3>3, <3>4, ReserveTables
  <2>. QED
    BY <2>1, <2>2 DEF AttemptFails
<1>5. driver[d].next = "buy" /\ ~ BeforeBuying(d)
  BY <1>0 DEF Progress, BeforeBuying
<1>6. \E K, F \in SUBSET Buyers : Counted(d, K, F)'
  <2>1. PICK K \in SUBSET Buyers, F \in SUBSET Buyers : Counted(d, K, F)
    BY <1>0, <1>5 DEF Counts
  <2>2. /\ driver'[d].sale = driver[d].sale /\ driver'[d].id = driver[d].id
        /\ driver'[d].waiting = driver[d].waiting \ {i}
        /\ driver'[d].successful + driver'[d].duplicate
             = driver[d].successful + driver[d].duplicate
    BY <1>3 DEF SameButCounts
  <2>. QED
    BY <1>0, <1>3, <1>4, <2>1, <2>2, AttemptCounted
<1>7. /\ driver[d].soldOut > 0 => NoneLeft(s)'
      /\ Undisturbed(s)' =>
           driver[d].successful + flash_sales'[s].remaining_stock <= Allocated[s]
  BY <1>0, <1>1, <1>4, <1>5, SaleCarried
<1>8. Counts(d)'
  BY <1>1, <1>3, <1>5, <1>6, <1>7, AttemptCounts
<1>. QED
  BY <1>0, <1>3, <1>4, <1>8, AttemptKeeps

LEMMA OwnAttempt ==
  ASSUME ControlInv, ControlTables', NEW d \in Drivers, NEW i \in Buyers, Attempt(d, i)
  PROVE  DriverInv(d)'
<1>0. /\ driver[d] \in DriverRow /\ Progress(d) /\ Counts(d) /\ ControlTables
      /\ driver[d].at = "buy" /\ i \in driver[d].waiting
  BY OwnRow DEF Attempt
<1>1. PICK s, k, u : driver[d].sale = s /\ k = BuyerKey(d, i) /\ u = Buyer(d, i)
  OBVIOUS
<1>2. PICK code : code = Code(k, u, s)
  OBVIOUS
<1>3. RequestOf(d, k, u)
  BY <1>0, <1>1 DEF RequestOf
<1>4. s \in Sales /\ ReserveRequest(u, s) \in Request
  BY <1>0, <1>1, <1>3, RequestTyped
<1>5. Reserve(k, u, s)
  BY <1>1 DEF Attempt
<1>6. Grown
  BY <1>0, <1>4, <1>5, ReserveTables
<1>7. driver'[d] =
        CASE code = "CREATED" ->
               IF k \in DOMAIN idempotency_keys
               THEN [[driver[d] EXCEPT !.waiting = @ \ {i}] EXCEPT !.duplicate = @ + 1]
               ELSE [[driver[d] EXCEPT !.waiting = @ \ {i}] EXCEPT !.successful = @ + 1]
          [] code = "INVENTORY_SOLD_OUT" ->
               [[driver[d] EXCEPT !.waiting = @ \ {i}] EXCEPT !.soldOut = @ + 1]
          [] OTHER -> [[driver[d] EXCEPT !.waiting = @ \ {i}] EXCEPT !.failed = @ + 1]
  BY <1>1, <1>2 DEF Attempt, Committed
<1>18. PICK row : row = [driver[d] EXCEPT !.waiting = @ \ {i}]
  OBVIOUS
<1>8. driver[d].next = "buy" /\ ~ BeforeBuying(d)
  BY <1>0 DEF Progress, BeforeBuying
<1>9. PICK K \in SUBSET Buyers, F \in SUBSET Buyers : Counted(d, K, F)
  BY <1>0, <1>8 DEF Counts
<1>10. /\ driver[d].soldOut > 0 => NoneLeft(s)'
       /\ Undisturbed(s)' =>
            driver[d].successful + flash_sales'[s].remaining_stock <= Allocated[s]
  BY <1>0, <1>1, <1>6, <1>8, SaleCarried
<1>11. /\ driver[d].successful \in Nat /\ driver[d].duplicate \in Nat
       /\ driver[d].soldOut \in Nat /\ driver[d].failed \in Nat
  BY <1>0 DEF DriverRow
<1>12. ASSUME SameButCounts(d, i)
       PROVE  /\ BuyerKey(d, i)' = k /\ driver'[d].sale = driver[d].sale
              /\ driver'[d].id = driver[d].id
              /\ driver'[d].waiting = driver[d].waiting \ {i}
  BY <1>1, <1>12 DEF SameButCounts, BuyerKey
<1>13. ASSUME code = "CREATED", SameButCounts(d, i)
       PROVE  i \in Served(d)' /\ s \in DOMAIN flash_sales
  <2>1. /\ k \in DOMAIN idempotency_keys' /\ idempotency_keys'[k].request.sale_id = s
        /\ idempotency_keys'[k].code = "CREATED" /\ s \in DOMAIN flash_sales
    BY <1>0, <1>2, <1>4, <1>5, <1>13, Answer
  <2>. QED
    BY <1>0, <1>1, <1>12, <1>13, <2>1 DEF Served
<1>14. CASE code = "CREATED" /\ k \in DOMAIN idempotency_keys
  <2>1. SameButCounts(d, i) /\ OneMore(d, 0, 1, 0, 0)
    <3>1. driver'[d] = [row EXCEPT !.duplicate = @ + 1]
      BY <1>7, <1>18, <1>14
    <3>. QED
      BY <1>0, <1>18, <3>1, AttemptRow
  <2>2. /\ SameButCounts(d, i) /\ driver'[d].failed = driver[d].failed
        /\ driver'[d].successful = driver[d].successful
        /\ driver'[d].duplicate = driver[d].duplicate + 1
        /\ driver'[d].soldOut = driver[d].soldOut
    BY <1>11, <2>1 DEF OneMore
  <2>3. driver'[d].successful + driver'[d].duplicate
          = driver[d].successful + driver[d].duplicate + 1
    BY <1>11, <2>2
  <2>4. \E L, G \in SUBSET Buyers : Counted(d, L, G)'
    BY <1>0, <1>6, <1>9, <1>12, <1>13, <1>14, <2>2, <2>3, AttemptCounted
  <2>5. Counts(d)'
    BY <1>1, <1>8, <1>10, <2>2, <2>4, AttemptCounts
  <2>. QED
    BY <1>0, <1>6, <2>2, <2>5, AttemptKeeps
<1>15. CASE code = "CREATED" /\ k \notin DOMAIN idempotency_keys
  <2>1. SameButCounts(d, i) /\ OneMore(d, 1, 0, 0, 0)
    <3>1. driver'[d] = [row EXCEPT !.successful = @ + 1]
      BY <1>7, <1>18, <1>15
    <3>. QED
      BY <1>0, <1>18, <3>1, AttemptRow
  <2>2. /\ SameButCounts(d, i) /\ driver'[d].failed = driver[d].failed
        /\ driver'[d].successful = driver[d].successful + 1
        /\ driver'[d].duplicate = driver[d].duplicate
        /\ driver'[d].soldOut = driver[d].soldOut
    BY <1>11, <2>1 DEF OneMore
  <2>3. driver'[d].successful + driver'[d].duplicate
          = driver[d].successful + driver[d].duplicate + 1
    BY <1>11, <2>2
  <2>4. \E L, G \in SUBSET Buyers : Counted(d, L, G)'
    BY <1>0, <1>6, <1>9, <1>12, <1>13, <1>15, <2>2, <2>3, AttemptCounted
  <2>5. UnitTaken(s) /\ (Undisturbed(s)' <=> Undisturbed(s))
    BY <1>0, <1>2, <1>4, <1>5, <1>15, ReserveTables, ZenonT(30)
  <2>6. s \in DOMAIN flash_sales /\ s \in DOMAIN flash_sales'
    BY <1>6, <1>13, <1>15, <2>2 DEF Grown
  <2>7. flash_sales[s].remaining_stock \in Nat /\ flash_sales'[s].remaining_stock \in Nat
    BY <1>0, <2>6 DEF ControlTables, TablesTypeOK, IsTable, SaleRow
  <2>8. flash_sales'[s].remaining_stock + 1 = flash_sales[s].remaining_stock
    BY <2>5 DEF UnitTaken
  <2>9. driver[d].soldOut > 0 => ~ Undisturbed(s)
    <3>1. driver[d].soldOut > 0 => NoneLeft(s)
      BY <1>0, <1>1, <1>8 DEF Counts
    <3>2. ~ (flash_sales[s].remaining_stock = 0)
      BY <2>7, <2>8
    <3>. QED
      BY <3>1, <3>2 DEF NoneLeft
  <2>10. driver'[d].soldOut > 0 => NoneLeft(s)'
    BY <2>2, <2>5, <2>9 DEF NoneLeft
  <2>11. Undisturbed(s)' =>
           driver'[d].successful + flash_sales'[s].remaining_stock <= Allocated[s]
    <3>1. Undisturbed(s) =>
            driver[d].successful + flash_sales[s].remaining_stock <= Allocated[s]
      BY <1>0, <1>1, <1>8 DEF Counts
    <3>2. driver'[d].successful + flash_sales'[s].remaining_stock
            = driver[d].successful + flash_sales[s].remaining_stock
      BY <1>11, <2>2, <2>7, <2>8
    <3>. QED
      BY <2>5, <3>1, <3>2
  <2>12. Counts(d)'
    BY <1>1, <1>8, <2>2, <2>4, <2>10, <2>11, AttemptCounts
  <2>. QED
    BY <1>0, <1>6, <2>2, <2>12, AttemptKeeps
<1>16. CASE code = "INVENTORY_SOLD_OUT"
  <2>1. SameButCounts(d, i) /\ OneMore(d, 0, 0, 1, 0)
    <3>1. driver'[d] = [row EXCEPT !.soldOut = @ + 1]
      BY <1>7, <1>18, <1>16
    <3>. QED
      BY <1>0, <1>18, <3>1, AttemptRow
  <2>2. /\ SameButCounts(d, i) /\ driver'[d].failed = driver[d].failed
        /\ driver'[d].successful = driver[d].successful
        /\ driver'[d].duplicate = driver[d].duplicate
    BY <1>11, <2>1 DEF OneMore
  <2>3. /\ k \in DOMAIN idempotency_keys' /\ idempotency_keys'[k].code = code
        /\ NoneLeft(s)'
    BY <1>0, <1>2, <1>4, <1>5, <1>16, Answer
  <2>4. BuyerKey(d, i)' \in DOMAIN idempotency_keys' /\ i \notin Served(d)'
    BY <1>12, <1>16, <2>2, <2>3 DEF Served
  <2>5. \E L, G \in SUBSET Buyers : Counted(d, L, G)'
    BY <1>0, <1>6, <1>9, <1>12, <2>2, <2>4, AttemptCounted
  <2>6. Counts(d)'
    BY <1>1, <1>8, <1>10, <2>2, <2>3, <2>5, AttemptCounts
  <2>. QED
    BY <1>0, <1>6, <2>2, <2>6, AttemptKeeps
<1>17. CASE code \notin {"CREATED", "INVENTORY_SOLD_OUT"}
  <2>1. SameButCounts(d, i) /\ OneMore(d, 0, 0, 0, 1)
    <3>1. driver'[d] = [row EXCEPT !.failed = @ + 1]
      BY <1>7, <1>18, <1>17
    <3>. QED
      BY <1>0, <1>18, <3>1, AttemptRow
  <2>2. /\ SameButCounts(d, i) /\ driver'[d].failed = driver[d].failed + 1
        /\ driver'[d].successful = driver[d].successful
        /\ driver'[d].duplicate = driver[d].duplicate
        /\ driver'[d].soldOut = driver[d].soldOut
    BY <1>11, <2>1 DEF OneMore
  <2>3. \E L, G \in SUBSET Buyers : Counted(d, L, G)'
    BY <1>0, <1>6, <1>9, <1>12, <2>2, AttemptCounted
  <2>4. Counts(d)'
    BY <1>1, <1>8, <1>10, <2>2, <2>3, AttemptCounts
  <2>. QED
    BY <1>0, <1>6, <2>2, <2>4, AttemptKeeps
<1>. QED
  BY <1>14, <1>15, <1>16, <1>17

-----------------------------------------------------------------------------
LEMMA InitControl == ControlInit => ControlInv
<1>. SUFFICES ASSUME ControlInit PROVE ControlInv
  OBVIOUS
<1>1. /\ TablesInit /\ drawn = SeedSales /\ DOMAIN driver = Drivers
      /\ \A d \in Drivers : driver[d] = Idle
  BY DEF ControlInit
<1>2. TablesTypeOK /\ InventoryReconciled
  BY <1>1, InitLedgerInv DEF LedgerInv
<1>3. /\ DOMAIN flash_sales = SeedSales /\ DOMAIN products = SeedProducts
      /\ DOMAIN idempotency_keys = {}
      /\ \A s \in SeedSales : flash_sales[s] = [state |-> "active", remaining_stock |-> Allocated[s]]
      /\ \A p \in SeedProducts : /\ inventory[p].available = Stock[p]
                                /\ inventory[p].expected_total = Stock[p]
  BY <1>1 DEF TablesInit, NoRows
<1>6. NULL \notin DOMAIN flash_sales
  BY <1>2, ControlAssumption DEF TablesTypeOK, IsTable
<1>7. OneSale
  <2>1. CASE SeedSales = {}
    BY <1>3, <2>1 DEF OneSale, SeedProducts
  <2>2. CASE SeedSales # {}
    <3>1. PICK s \in Sales : /\ SeedSales = {s} /\ Stock[ProductOf[s]] = Allocated[s]
                             /\ Allocated[s] <= DemoUnits
      BY <2>2, CatalogueAssumption
    <3>2. SeedProducts = {ProductOf[s]}
      BY <3>1 DEF SeedProducts
    <3>. QED
      BY <1>3, <3>1, <3>2 DEF OneSale
  <2>. QED
    BY <2>1, <2>2
<1>4. ControlTables
  BY <1>1, <1>2, <1>3, <1>7 DEF ControlTables, AnswersOfSale
<1>5. ASSUME NEW d \in Drivers
      PROVE  DriverInv(d)
  <2>1. driver[d] = Idle
    BY <1>1
  <2>2. Progress(d)
    BY <2>1, IdleTyped DEF Progress, Idle
  <2>3. ~ BeforeBuying(d)
    BY <2>1 DEF BeforeBuying, Idle
  <2>4. OwnKeys(d) /\ ReadsStand(d)
    BY <1>3, <2>1, <2>3 DEF OwnKeys, ReadsStand, Idle
  <2>5. Retried(d)
    BY <2>1, ControlAssumption DEF Retried, Idle
  <2>6. Counts(d)
    <3>1. Counted(d, {}, {})
      BY <1>6, <2>1, FS_EmptySet DEF Counted, Idle
    <3>. QED
      BY <1>6, <2>1, <2>3, <3>1 DEF Counts, Undisturbed, Idle
  <2>. QED
    BY <2>2, <2>4, <2>5, <2>6 DEF DriverInv
<1>. QED
  BY <1>1, <1>4, <1>5 DEF ControlInv

LEMMA StepControl == ControlInv /\ [ControlNext]_controlVars => ControlInv'
<1>. SUFFICES ASSUME ControlInv, [ControlNext]_controlVars
              PROVE  ControlInv'
  OBVIOUS
<1>1. CASE UNCHANGED controlVars
  <2>1. UNCHANGED <<ledgerVars, drawn>> /\ driver' = driver
    BY <1>1 DEF controlVars
  <2>2. ControlTables /\ DOMAIN driver = Drivers
    BY DEF ControlInv
  <2>3. ControlTables' /\ Grown
    BY <2>1, <2>2, SameTables
  <2>4. ASSUME NEW x \in Drivers
        PROVE  DriverInv(x)'
    <3>1. DriverInv(x)
      BY DEF ControlInv
    <3>2. Kept(x) /\ idempotency_keys' = idempotency_keys
      BY <2>1 DEF Kept, ledgerVars, tables
    <3>. QED
      BY <2>2, <2>3, <3>1, <3>2, OtherDriver
  <2>. QED
    BY <2>1, <2>2, <2>3, <2>4 DEF ControlInv
<1>2. ASSUME NEW d \in Drivers,
             \/ Begin(d) \/ Look(d) \/ Reset(d) \/ GiveUp(d)
             \/ ReadProduct(d) \/ ReadSale(d) \/ ReadReservations(d) \/ ReadOrders(d)
             \/ Prove(d) \/ ProveFails(d) \/ GetProof(d) \/ ExpireProof(d)
             \/ (\E i \in Buyers : Attempt(d, i) \/ AttemptFails(d, i)) \/ Bought(d)
      PROVE  ControlInv'
  <2>1. /\ ControlTables' /\ DOMAIN driver' = Drivers
        /\ \A x \in Drivers \ {d} : DriverInv(x)'
    BY <1>2, Others
  <2>2. DriverInv(d)'
    <3>1. CASE Begin(d)
      BY <2>1, <3>1, OwnBegin
    <3>2. CASE Look(d)
      BY <2>1, <3>2, OwnLook
    <3>3. CASE Reset(d)
      BY <2>1, <3>3, OwnReset
    <3>4. CASE GiveUp(d)
      BY <2>1, <3>4, OwnGiveUp
    <3>5. CASE ReadProduct(d)
      BY <2>1, <3>5, OwnReadProduct
    <3>6. CASE ReadSale(d)
      BY <2>1, <3>6, OwnReadSale
    <3>7. CASE ReadReservations(d)
      BY <2>1, <3>7, OwnReadReservations
    <3>8. CASE ReadOrders(d)
      BY <2>1, <3>8, OwnReadOrders
    <3>9. CASE Prove(d)
      BY <2>1, <3>9, OwnProve
    <3>10. CASE ProveFails(d)
      BY <2>1, <3>10, OwnProveFails
    <3>11. CASE GetProof(d)
      BY <2>1, <3>11, OwnGetProof
    <3>12. CASE ExpireProof(d)
      BY <2>1, <3>12, OwnExpireProof
    <3>13. ASSUME NEW i \in Buyers, Attempt(d, i)
           PROVE  DriverInv(d)'
      BY <2>1, <3>13, OwnAttempt
    <3>14. ASSUME NEW i \in Buyers, AttemptFails(d, i)
           PROVE  DriverInv(d)'
      BY <2>1, <3>14, OwnAttemptFails
    <3>15. CASE Bought(d)
      BY <2>1, <3>15, OwnBought
    <3>. QED
      BY <1>2, <3>1, <3>2, <3>3, <3>4, <3>5, <3>6, <3>7, <3>8, <3>9, <3>10, <3>11, <3>12,
         <3>13, <3>14, <3>15
  <2>3. \A x \in Drivers : DriverInv(x)'
    BY <2>1, <2>2
  <2>. QED
    BY <2>1, <2>3 DEF ControlInv
<1>. QED
  BY <1>1, <1>2 DEF ControlNext

(***************************************************************************)
(* Whatever the drivers do side by side, the tables hold one sale of one   *)
(* product, no unit is lost, and each driver's state agrees with them: its *)
(* reads while whole, its counts while its sale stands.                    *)
(***************************************************************************)
THEOREM ControlCorrect == ControlSpec => []ControlInv
  BY InitControl, StepControl, PTL DEF ControlSpec

-----------------------------------------------------------------------------
\* What is gone from an undisturbed sale, its active reservations hold.
LEMMA AllTaken ==
  ASSUME ControlTables, NEW s \in DOMAIN flash_sales, flash_sales[s].remaining_stock = 0
  PROVE  Sum(reservations, OfSale(reservations, s, Active)) = Allocated[s]
<1>1. PICK p : p = ProductOf[s]
  OBVIOUS
<1>2. /\ DOMAIN flash_sales = {s} /\ p \in DOMAIN inventory
      /\ inventory[p].expected_total = Allocated[s]
      /\ inventory[p].available = 0
      /\ TablesTypeOK
  BY <1>1 DEF ControlTables, OneSale, TablesTypeOK
<1>3. PICK H, P : /\ H = OfProduct(reservations, p, Holding)
                  /\ P = OfProduct(reservations, p, {"paid"})
  OBVIOUS
<1>4. /\ inventory[p].available + inventory[p].reserved + inventory[p].sold = Allocated[s]
      /\ inventory[p].reserved = Sum(reservations, H)
      /\ inventory[p].sold = Sum(reservations, P)
  BY <1>2, <1>3 DEF ControlTables, InventoryReconciled
<1>5. /\ H \subseteq DOMAIN reservations /\ P \subseteq DOMAIN reservations /\ H \cap P = {}
  BY <1>3 DEF OfProduct, Holding
<1>6. OfSale(reservations, s, Active) = H \cup P
  <2>1. \A r \in DOMAIN reservations : reservations[r].sale_id = s
    BY <1>2 DEF TablesTypeOK
  <2>. QED
    BY <1>1, <1>3, <2>1 DEF OfSale, OfProduct, Active, Holding
<1>7. IsFiniteSet(H) /\ IsFiniteSet(P)
  BY <1>2, <1>5, RowsFinite
<1>8. /\ Sum(reservations, H \cup P) = Sum(reservations, H) + Sum(reservations, P)
      /\ Sum(reservations, H) \in Nat /\ Sum(reservations, P) \in Nat
  BY <1>5, <1>7, SumDisjoint, SumType
<1>. QED
  BY <1>2, <1>4, <1>6, <1>8

(***************************************************************************)
(* The report of a load test, and loadgen's, is exact for every number of  *)
(* buyers and units and any mix of drivers: as long as the sale stands and *)
(* nothing of it expired, it counts the reservations its buyers got and    *)
(* misses some only among the failed; nobody is sold out while a unit is   *)
(* left; all counted retries got the one reservation.                      *)
(***************************************************************************)
THEOREM ReportIsExact == ControlSpec => []ReportsExact
<1>1. ControlInv => ReportsExact
  <2>. SUFFICES ASSUME ControlInv, NEW d \in Drivers, Undisturbed(driver[d].sale)
                PROVE  /\ Cardinality(Served(d)) - driver[d].successful - driver[d].duplicate
                            \in 0..driver[d].failed
                       /\ driver[d].soldOut > 0 =>
                            Sum(reservations, OfSale(reservations, driver[d].sale, Active))
                              = Allocated[driver[d].sale]
                       /\ driver[d].same = driver[d].got
    BY DEF ReportsExact
  <2>0. /\ driver[d] \in DriverRow /\ Progress(d) /\ OwnKeys(d) /\ Retried(d) /\ Counts(d)
        /\ ControlTables
    BY OwnRow
  <2>1. PICK s : s = driver[d].sale
    OBVIOUS
  <2>2. s \in DOMAIN flash_sales /\ s \in Sales /\ s # NULL
    BY <2>0, <2>1, ControlAssumption DEF Undisturbed, ControlTables, TablesTypeOK, IsTable
  <2>3. /\ driver[d].successful \in Nat /\ driver[d].duplicate \in Nat
        /\ driver[d].failed \in Nat
    BY <2>0 DEF DriverRow
  <2>4. driver[d].same = driver[d].got
    BY <2>0 DEF Retried
  <2>5. CASE BeforeBuying(d)
    <3>1. driver[d].id = d /\ \A i \in Buyers : <<d, i>> \notin DOMAIN idempotency_keys
      BY <2>0, <2>1, <2>2, <2>5 DEF OwnKeys
    <3>2. Served(d) = {}
      BY <3>1 DEF Served, BuyerKey
    <3>3. Cardinality(Served(d)) = 0
      BY <3>2, FS_EmptySet
    <3>4. /\ driver[d].successful = 0 /\ driver[d].duplicate = 0 /\ driver[d].soldOut = 0
      BY <2>0, <2>5 DEF Counts
    <3>. QED
      BY <2>3, <2>4, <3>3, <3>4
  <2>6. CASE ~ BeforeBuying(d)
    <3>1. PICK K \in SUBSET Buyers, F \in SUBSET Buyers : Counted(d, K, F)
      BY <2>0, <2>6 DEF Counts
    <3>2. /\ K \subseteq Served(d) /\ Served(d) \subseteq K \cup F
          /\ K \cap F = {}
          /\ Cardinality(K) = driver[d].successful + driver[d].duplicate
          /\ Cardinality(F) = driver[d].failed
      BY <2>1, <2>2, <3>1 DEF Counted
    <3>3. IsFiniteSet(K) /\ IsFiniteSet(F) /\ IsFiniteSet(K \cup F)
      BY FS_Subset, FS_Union, ControlAssumption
    <3>4. PICK S : S = Served(d)
      OBVIOUS
    <3>5. IsFiniteSet(S) /\ Cardinality(S) <= Cardinality(K \cup F) /\ Cardinality(K) <= Cardinality(S)
      BY <3>2, <3>3, <3>4, FS_Subset
    <3>6. Cardinality(K \cup F) = Cardinality(K) + Cardinality(F)
      <4>1. Cardinality(K \cap F) = 0
        BY <3>2, FS_EmptySet
      <4>2. Cardinality(K \cup F) = Cardinality(K) + Cardinality(F) - Cardinality(K \cap F)
        BY <3>3, FS_Union
      <4>3. Cardinality(K) \in Nat /\ Cardinality(F) \in Nat
        BY <3>3, FS_CardinalityType
      <4>. QED
        BY <4>1, <4>2, <4>3
    <3>7. Cardinality(S) \in Nat
      BY <3>5, FS_CardinalityType
    <3>8. Cardinality(S) - driver[d].successful - driver[d].duplicate \in 0..driver[d].failed
      BY <2>3, <3>2, <3>5, <3>6, <3>7
    <3>9. ASSUME driver[d].soldOut > 0
          PROVE  Sum(reservations, OfSale(reservations, s, Active)) = Allocated[s]
      <4>1. flash_sales[s].remaining_stock = 0
        BY <2>0, <2>1, <2>6, <3>9 DEF Counts, NoneLeft
      <4>. QED
        BY <2>0, <2>2, <4>1, AllTaken
    <3>. QED
      BY <2>1, <2>4, <3>4, <3>8, <3>9
  <2>. QED
    BY <2>5, <2>6
<1>. QED
  BY <1>1, ControlCorrect, PTL

(***************************************************************************)
(* The dashboard reads "Broken", or a load test "oversold", off sound      *)
(* tables only when a transaction committed between the reads of the       *)
(* status, or loadgen's own proof was disturbed.                           *)
(***************************************************************************)
THEOREM VerdictsSound == ControlSpec => []StatusHolds
<1>1. ControlInv => StatusHolds
  <2>. SUFFICES ASSUME ControlInv, NEW d \in Drivers,
                       driver[d].at \in {"buy", "prove", "done"}, driver[d].whole
                PROVE  /\ Passes(driver[d].status)
                       /\ driver[d].at = "done" /\ Undisturbed(driver[d].sale) =>
                            \/ ZeroOverselling(d)
                            \/ /\ driver[d].kind = "loadgen"
                               /\ driver[d].got < Proofs \/ driver[d].restored # 1
    BY DEF StatusHolds
  <2>0. /\ driver[d] \in DriverRow /\ Progress(d) /\ Retried(d) /\ ReadsStand(d) /\ Counts(d)
        /\ ControlTables
    BY OwnRow
  <2>1. Passes(driver[d].status)
    BY <2>0 DEF ReadsStand
  <2>2. ASSUME driver[d].at = "done", Undisturbed(driver[d].sale)
        PROVE  \/ ZeroOverselling(d)
               \/ /\ driver[d].kind = "loadgen"
                  /\ driver[d].got < Proofs \/ driver[d].restored # 1
    <3>1. PICK s : s = driver[d].sale
      OBVIOUS
    <3>2. ~ BeforeBuying(d)
      BY <2>0, <2>2 DEF Progress, BeforeBuying
    <3>3. driver[d].successful + flash_sales[s].remaining_stock <= Allocated[s]
      BY <2>0, <2>2, <3>1, <3>2 DEF Counts
    <3>4. /\ s \in Sales /\ flash_sales[s].remaining_stock \in Nat /\ Allocated[s] <= DemoUnits
      BY <2>0, <2>2, <3>1 DEF Undisturbed, ControlTables, OneSale, TablesTypeOK, IsTable, SaleRow
    <3>5. driver[d].successful \in Nat /\ Allocated[s] \in Nat /\ driver[d].got \in Nat
      BY <2>0, <3>4, SchemaAssumption DEF DriverRow
    <3>6. driver[d].successful <= DemoUnits
      BY <3>3, <3>4, <3>5, ControlAssumption
    <3>7. driver[d].same = driver[d].got /\ (driver[d].got < Proofs \/ driver[d].got = Proofs)
      BY <2>0, <3>5, ControlAssumption DEF Retried
    <3>. QED
      BY <2>1, <3>6, <3>7 DEF ZeroOverselling
  <2>. QED
    BY <2>1, <2>2
<1>. QED
  BY <1>1, ControlCorrect, PTL

-----------------------------------------------------------------------------
(***************************************************************************)
(* What a seed found stays so while it reads on.  A wipe by anyone else    *)
(* puts the demo back in the same transaction, and nothing else takes a    *)
(* sale away or closes it.                                                 *)
(***************************************************************************)
Seeded(d) ==
  LET me == driver[d] IN
  me.kind = "seed" =>
    /\ me.at \in Reading \cup {"product", "done"} => DemoThere
    /\ me.at \in {"reservations", "orders", "done"} =>
         ProductOf[me.status.sale] \in DemoProducts

LEMMA DemoStays ==
  ASSUME ControlTables, ControlTables', Grown \/ Wiped
  PROVE  /\ DemoThere => DemoThere'
         /\ Wiped => DemoThere'
<1>1. \A s \in DOMAIN flash_sales' : flash_sales'[s].state = "active"
  BY DEF ControlTables, OneSale
<1>2. CASE Wiped
  BY <1>1, <1>2 DEF Wiped, DemoThere
<1>3. ASSUME Grown, DemoThere
      PROVE  DemoThere'
  BY <1>1, <1>3 DEF Grown, DemoThere
<1>. QED
  BY <1>2, <1>3

\* What ReadOrders updates of a driver's row.
LEMMA ReadsOrders ==
  ASSUME NEW d, ReadOrders(d)
  PROVE  \E n, next, s, m, w :
           Read(d, [driver[d] EXCEPT !.at = next, !.status.orders = n, !.sale = s,
                                     !.retries = m, !.waiting = w])
<1>1. PICK n : n = Cardinality(DOMAIN orders)
  OBVIOUS
<1>2. PICK next : next = driver[d].next
  OBVIOUS
<1>3. PICK s, m, w : /\ s = IF next = "done" THEN driver[d].sale ELSE driver[d].status.sale
                     /\ m = IF next = "prove" THEN Proofs ELSE 0
                     /\ w = IF next = "buy" THEN Buyers ELSE {}
  OBVIOUS
<1>4. Read(d, [driver[d] EXCEPT !.at = next, !.status.orders = n, !.sale = s,
                                !.retries = m, !.waiting = w])
  BY <1>1, <1>2, <1>3 DEF ReadOrders
<1>. QED
  BY <1>4

\* A driver under way stays of its kind, or returns an error.
LEMMA KindStays ==
  ASSUME DOMAIN driver = Drivers, NEW d \in Drivers, driver[d] \in DriverRow,
         driver[d].at # "idle",
         \/ Begin(d) \/ Look(d) \/ Reset(d) \/ GiveUp(d)
         \/ ReadProduct(d) \/ ReadSale(d) \/ ReadReservations(d) \/ ReadOrders(d)
         \/ Prove(d) \/ ProveFails(d) \/ GetProof(d) \/ ExpireProof(d)
         \/ (\E i \in Buyers : Attempt(d, i) \/ AttemptFails(d, i)) \/ Bought(d)
  PROVE  driver'[d].kind = driver[d].kind \/ driver'[d] = Error
<1>0. /\ \A row : Read(d, row) => driver'[d] = row
      /\ \A row : Committed(d, row) => driver'[d] = row
  BY DEF Read, Committed
<1>1. CASE Look(d) \/ GiveUp(d)
  BY <1>0, <1>1 DEF Look, GiveUp, DriverRow
<1>2. CASE Reset(d)
  BY <1>0, <1>2 DEF Reset, DriverRow
<1>3. CASE ReadProduct(d)
  BY <1>0, <1>3 DEF ReadProduct, DriverRow
<1>4. CASE ReadSale(d)
  BY <1>0, <1>4 DEF ReadSale, DriverRow
<1>5. CASE ReadReservations(d)
  BY <1>0, <1>5 DEF ReadReservations, DriverRow
<1>6. CASE ReadOrders(d)
  <2>1. PICK n, next, s, m, w :
          Read(d, [driver[d] EXCEPT !.at = next, !.status.orders = n, !.sale = s,
                                    !.retries = m, !.waiting = w])
    BY <1>6, ReadsOrders
  <2>. QED
    BY <1>0, <2>1 DEF DriverRow
<1>7. CASE GetProof(d)
  BY <1>0, <1>7 DEF GetProof, DriverRow
<1>8. CASE ExpireProof(d)
  BY <1>0, <1>8 DEF ExpireProof, DriverRow
<1>9. CASE Bought(d)
  BY <1>0, <1>9 DEF Bought, DriverRow
<1>10. CASE Prove(d)
  BY <1>0, <1>10 DEF Prove, DriverRow
<1>11. CASE ProveFails(d)
  BY <1>0, <1>11 DEF ProveFails, DriverRow
<1>12. ASSUME NEW i \in Buyers, Attempt(d, i)
       PROVE  driver'[d].kind = driver[d].kind
  BY <1>0, <1>12 DEF Attempt, DriverRow
<1>13. ASSUME NEW i \in Buyers, AttemptFails(d, i)
       PROVE  driver'[d].kind = driver[d].kind
  BY <1>0, <1>13 DEF AttemptFails, DriverRow
<1>. QED
  BY <1>1, <1>2, <1>3, <1>4, <1>5, <1>6, <1>7, <1>8, <1>9, <1>10, <1>11, <1>12, <1>13 DEF Begin

\* The driver that takes the step, when it is a seed.
LEMMA SeedMoves ==
  ASSUME ControlInv, NEW d \in Drivers, Seeded(d), DemoThere => DemoThere',
         Reset(d) => DemoThere',
         \/ Begin(d) \/ Look(d) \/ Reset(d) \/ GiveUp(d)
         \/ ReadProduct(d) \/ ReadSale(d) \/ ReadReservations(d) \/ ReadOrders(d)
         \/ Prove(d) \/ ProveFails(d) \/ GetProof(d) \/ ExpireProof(d)
         \/ (\E i \in Buyers : Attempt(d, i) \/ AttemptFails(d, i)) \/ Bought(d),
         driver[d].kind = "seed", driver[d].at # "idle"
  PROVE  Seeded(d)'
<1>0. /\ driver[d] \in DriverRow /\ driver[d].status \in StatusRow /\ Progress(d)
      /\ ControlTables /\ DOMAIN driver = Drivers
  BY OwnRow
<1>1. driver[d].at \notin {"prove", "expire", "buy", "idle"} /\ driver[d].next = "done"
  BY <1>0 DEF Progress
<1>2. CASE Look(d)
  <2>1. PICK at : at = IF DOMAIN products \cap DemoProducts # {} THEN "product" ELSE "reset"
    OBVIOUS
  <2>2. driver'[d] = [driver[d] EXCEPT !.at = at]
    BY <1>0, <1>2, <2>1 DEF Look, Read
  <2>3. driver'[d].at = at /\ at \in {"product", "reset"}
    BY <1>0, <2>1, <2>2 DEF DriverRow
  <2>4. ASSUME at = "product"
        PROVE  DemoThere
    <3>1. PICK p : p \in DOMAIN products /\ p \in DemoProducts
      BY <2>1, <2>4
    <3>2. PICK s : s \in DOMAIN flash_sales
      BY <1>0, <3>1 DEF ControlTables, OneSale
    <3>3. /\ DOMAIN flash_sales = {s} /\ DOMAIN products = {ProductOf[s]}
          /\ flash_sales[s].state = "active"
      BY <1>0, <3>2 DEF ControlTables, OneSale
    <3>. QED
      BY <3>1, <3>3 DEF DemoThere
  <2>. QED
    BY <2>3, <2>4 DEF Seeded, Reading
<1>3. CASE Reset(d)
  <2>1. driver'[d] = [driver[d] EXCEPT !.at = "product", !.status = Idle.status]
    BY <1>3, CommitStep DEF Reset
  <2>2. driver'[d].at = "product"
    BY <1>0, <2>1 DEF DriverRow
  <2>. QED
    BY <1>3, <2>2 DEF Seeded
<1>4. CASE GiveUp(d)
  <2>1. driver'[d] = Error
    BY <1>0, <1>4, ReadStep DEF GiveUp
  <2>. QED
    BY <2>1 DEF Seeded, Error, Idle, Reading
<1>5. CASE ReadProduct(d)
  <2>1. DemoThere'
    BY <1>5 DEF Seeded, ReadProduct
  <2>2. driver'[d].at \in {"sale", "error"}
    <3>1. CASE Read(d, Error)
      BY <3>1, <1>0, ReadStep DEF Error, Idle
    <3>2. ASSUME NEW p, Read(d, [driver[d] EXCEPT !.at = "sale", !.status.inventory = inventory[p],
                                                  !.whole = TRUE])
          PROVE  driver'[d].at = "sale"
      BY <1>0, <3>2 DEF Read, DriverRow
    <3>. QED
      BY <1>5, <3>1, <3>2 DEF ReadProduct
  <2>. QED
    BY <2>1, <2>2 DEF Seeded
<1>6. CASE ReadSale(d)
  <2>1. DemoThere /\ DemoThere'
    BY <1>6 DEF Seeded, ReadSale, Reading
  <2>2. PICK s \in DOMAIN flash_sales :
          Read(d, [driver[d] EXCEPT !.at = "reservations", !.status.sale = s,
                                    !.status.remaining = flash_sales[s].remaining_stock])
    BY <1>6 DEF ReadSale
  <2>3. driver'[d].status.sale = s
    BY <1>0, <2>2 DEF Read, DriverRow, StatusRow
  <2>4. ProductOf[s] \in DemoProducts
    BY <2>1, <2>2 DEF DemoThere
  <2>. QED
    BY <2>1, <2>3, <2>4 DEF Seeded
<1>7. CASE ReadReservations(d) \/ ReadOrders(d)
  <2>1. DemoThere' /\ ProductOf[driver[d].status.sale] \in DemoProducts
    BY <1>7 DEF Seeded, ReadReservations, ReadOrders, Reading
  <2>2. driver'[d].status.sale = driver[d].status.sale
    <3>1. ASSUME NEW n, Read(d, [driver[d] EXCEPT !.at = "orders", !.status.reservations = n])
          PROVE  driver'[d].status.sale = driver[d].status.sale
      BY <1>0, <3>1 DEF Read, DriverRow, StatusRow
    <3>2. ASSUME NEW n, NEW next, NEW s, NEW m, NEW w,
                 Read(d, [driver[d] EXCEPT !.at = next, !.status.orders = n, !.sale = s,
                                           !.retries = m, !.waiting = w])
          PROVE  driver'[d].status.sale = driver[d].status.sale
      BY <1>0, <3>2 DEF Read, DriverRow, StatusRow
    <3>3. CASE ReadReservations(d)
      BY <3>1, <3>3 DEF ReadReservations
    <3>4. CASE ReadOrders(d)
      BY <1>0, <3>2, <3>4, ReadsOrders
    <3>. QED
      BY <1>7, <3>3, <3>4
  <2>. QED
    BY <2>1, <2>2 DEF Seeded
<1>. QED
  BY <1>1, <1>2, <1>3, <1>4, <1>5, <1>6, <1>7
  DEF Begin, Prove, ProveFails, GetProof, ExpireProof, Attempt, AttemptFails, Bought

LEMMA SeedStep ==
  ASSUME ControlInv, \A d \in Drivers : Seeded(d), [ControlNext]_controlVars
  PROVE  \A d \in Drivers : Seeded(d)'
<1>0. ControlTables /\ DOMAIN driver = Drivers
  BY DEF ControlInv
<1>1. CASE UNCHANGED controlVars
  BY <1>1 DEF controlVars, ledgerVars, tables, Seeded, DemoThere
<1>2. ASSUME NEW d \in Drivers,
             \/ Begin(d) \/ Look(d) \/ Reset(d) \/ GiveUp(d)
             \/ ReadProduct(d) \/ ReadSale(d) \/ ReadReservations(d) \/ ReadOrders(d)
             \/ Prove(d) \/ ProveFails(d) \/ GetProof(d) \/ ExpireProof(d)
             \/ (\E i \in Buyers : Attempt(d, i) \/ AttemptFails(d, i)) \/ Bought(d)
      PROVE  \A x \in Drivers : Seeded(x)'
  <2>1. ControlTables' /\ (Grown \/ Wiped)
    BY <1>2, Others
  <2>2. (DemoThere => DemoThere') /\ (Wiped => DemoThere')
    BY <1>0, <2>1, DemoStays
  <2>3. Reset(d) => DemoThere'
    BY <1>0, <2>2, OwnRow, ResetTables DEF DriverRow
  <2>4. Reads(d) \/ Aside(d)
    BY <1>0, <1>2, StepKinds
  <2>5. ASSUME NEW x \in Drivers \ {d}
        PROVE  Seeded(x)'
    <3>1. driver[x] \in DriverRow
      BY OwnRow
    <3>2. /\ driver'[x].kind = driver[x].kind /\ driver'[x].at = driver[x].at
          /\ driver'[x].status = driver[x].status
      BY <2>4, <3>1 DEF Reads, Aside, DriverRow
    <3>. QED
      BY <2>2, <3>2 DEF Seeded
  <2>6. CASE driver[d].at = "idle"
    <3>1. driver[d] = Idle /\ Begin(d)
      BY <1>2, <2>6, OwnRow
      DEF Progress, Look, Reset, GiveUp, ReadProduct, ReadSale, ReadReservations, ReadOrders,
          Prove, ProveFails, GetProof, ExpireProof, Attempt, AttemptFails, Bought
    <3>2. PICK kind, id :
            Read(d, [driver[d] EXCEPT
                 !.kind = kind,
                 !.id = id,
                 !.at = CASE kind = "status" -> "product" [] kind = "seed" -> "look"
                          [] OTHER -> "reset",
                 !.next = CASE kind = "loadtest" -> "buy" [] kind = "loadgen" -> "prove"
                            [] OTHER -> "done"])
      BY <3>1 DEF Begin
    <3>3. driver'[d].kind = kind /\ (kind = "seed" => driver'[d].at = "look")
      BY <1>0, <3>1, <3>2 DEF Read, Idle
    <3>4. Seeded(d)'
      BY <3>3 DEF Seeded, Reading
    <3>. QED
      BY <2>5, <3>4
  <2>7. CASE driver[d].kind = "seed" /\ driver[d].at # "idle"
    <3>1. Seeded(d)'
      BY <1>2, <2>2, <2>3, <2>7, SeedMoves
    <3>. QED
      BY <2>5, <3>1
  <2>8. CASE driver[d].kind # "seed" /\ driver[d].at # "idle"
    <3>1. driver'[d].kind = driver[d].kind \/ driver'[d] = Error
      BY <1>0, <1>2, <2>8, KindStays, OwnRow
    <3>2. Seeded(d)'
      BY <2>8, <3>1 DEF Seeded, Error, Idle, Reading
    <3>. QED
      BY <2>5, <3>2
  <2>. QED
    BY <2>6, <2>7, <2>8
<1>. QED
  BY <1>1, <1>2 DEF ControlNext

(***************************************************************************)
(* Whatever catalogue it finds, and whoever resets, seeds and tests beside *)
(* it, a seed that returns leaves the demo's sale open, and reports a sale *)
(* of the demo.                                                            *)
(***************************************************************************)
THEOREM SeedLeavesDemo == ControlSpec => []SeedsTheDemo
<1>1. ControlInit => \A d \in Drivers : Seeded(d)
  BY DEF ControlInit, Seeded, Idle, Reading
<1>2. ControlInv /\ (\A d \in Drivers : Seeded(d)) /\ [ControlNext]_controlVars =>
        (\A d \in Drivers : Seeded(d))'
  BY SeedStep
<1>3. (\A d \in Drivers : Seeded(d)) => SeedsTheDemo
  BY DEF Seeded, SeedsTheDemo
<1>. QED
  BY <1>1, <1>2, <1>3, ControlCorrect, PTL DEF ControlSpec
=============================================================================
