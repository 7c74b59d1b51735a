# StockRush, verified

TLA+ models of StockRush (`src/`, a Go service that sells limited stock in flash sales on
PostgreSQL), the TLC runs that check them and TLAPS proofs of what matters most.

- `tlc -config reserve.cfg MCStore` checks a run; the table below names the module of each cfg.
- `tlapm StockLedgerProofs.tla` checks the proofs of a module.
- `PROJECT.json` maps every definition to the lines it models and lists runs, hazards, findings
  and theorems.

## 1. The system

| Component | Code | State it keeps | Operations |
|---|---|---|---|
| Schema | `db/migrations/*.sql` | the tables | constraints, foreign keys, unique keys |
| Store | `internal/store` | nothing between requests: everything is in PostgreSQL | `Reserve`, `TransitionReservation`, `SimulatePayment`, `ExpireBatch`, `CreateProduct`, `UpdateProduct`, `CreateSale`, `SetSaleState`, reads |
| Public demo | `internal/store/demo.go`, `internal/httpserver/demo.go` | `public_demo_actions` | `ReservePublicDemo`, `ResetDemo`, `EnsurePublicDemo`, `DemoStatus`, a built-in load test |
| Invariant check | `internal/store/invariants.go`, `cmd/invariant-check` | none | one query |
| Expiration worker | `internal/expirationworker`, `cmd/worker` | none | a ticker that calls `ExpireBatch` |
| Rate limiter | `internal/ratelimit` | one token bucket per client, in memory | `Allow` |
| HTTP layer | `internal/httpserver` | the limiter, metrics | routes, client identity, error mapping |
| Load generators | `cmd/loadgen`, `demoLoadTest` in `internal/httpserver` | their report | reset, prove idempotency, buy, read the status |
| Migrations, pool | `internal/database`, `cmd/migrate` | `schema_migrations`, the connections | `Migrate` under an advisory lock, `PoolConfig` |
| Configuration | `internal/config` | none | `Load` |
| Processes | `cmd/api`, `cmd/worker`, `cmd/migrate`, `docker-compose.yml` | what runs, requests in flight | start, serve, drain, close, exit |
| Metrics, web client, `cmd/healthcheck`, `cmd/guardrails` | `internal/metrics`, `web`, `cmd` | none that others rely on | |

**How the parts meet.** Handlers of any number of API processes and the workers of any number of
worker processes never talk to each other. They meet only in PostgreSQL, in transactions under
READ COMMITTED, through row locks (`FOR UPDATE`, `SKIP LOCKED`, the lock of an `UPDATE`, the key
share of a foreign key), unique keys (`INSERT ... ON CONFLICT DO NOTHING`) and advisory locks (one
per user and sale, one for the public demo, one for migrations). The guarded `UPDATE`s
(`... WHERE remaining_stock >= $1`) look at the row again after waiting for it.

**What is hard.** Statements of several transactions interleave, and what one statement read is
stale by the next. Any transaction may end at any statement: the client leaves, the connection
breaks, the process dies, the deadlock detector strikes. Clients retry with the same
Idempotency-Key while the original is open, committed or rolled back. Lock orders differ between
operations, so deadlocks happen. Expiration races confirmation and payment. The sale and the
inventory count the same units in two rows. Programs of several releases start together and
migrate, die with the migration lock or with a COMMIT on its way, and are stopped in the middle
of requests. The demo's controls truncate the tables that others are reading and counting.

**What makes it right.** Each component's correctness, and the property that says it:

- stock: what the counters say is what the reservations hold, nothing is lost or oversold
  (`InventoryReconciled`, `SaleNotOversold`, `DemoInvariantPass`, `InvariantCheckPasses`), the units
  to take out of `reserved` are always there (`UnitsAreThere`), and sales lose none while no stock is
  promised twice (`NothingLeaks`);
- limits: no user holds more of a sale than allowed, of what was requested under one spelling of the
  sale's id (`SpelledLimitHeld`); across spellings the code does not keep its limit
  (`PurchaseLimitHeld`, finding 3);
- idempotency: a key creates one thing once, and its answer is final and true (`KeysAccount`,
  `AnswersDurable`, `ResponsesFinal`, `PaymentAnswersDurable`);
- life cycle: reservations follow it, orders follow reservations, an order is charged once, the
  audit trail has no gap (`LifecycleRespected`, `OrdersAgree`, `ChargedOnce`, `EventsTrace`);
- progress: requests end, due reservations are settled (`RequestsAnswered`, `DueIsSettled`), and
  transactions deadlock only in the few known ways (`NoDeadlock`);
- the limiter: a client is held to its own budget, by its own budget (`WithinBudget`,
  `RefusedForItsOwn`);
- the public demo: a budget over all processes, and one unit per key (`PublicBudgetHeld`,
  `OneGrantADay`, `OneUnitPerKey`);
- the demo's controls: reports are exact and verdicts right while the sale they are about stands,
  and a seeding leaves the demo's sale open (`ReportsExact`, `StatusHolds`, `SeedsTheDemo`);
- migrations: each once, in order, on record, reported truthfully, and never stuck
  (`ImplementsHistory`, `OnRecord`, `MigrateEnds`);
- processes: none serves before its schema is there, a stop loses no accepted request, a small pool
  and a stop both come to an end, and a configuration that is accepted, by `Load` and by PostgreSQL,
  works (`ServesUpToDate`,
  `StopsGracefully`, `RequestsEnd`, `StopsWhenTold`, `AcceptedServes`).

The places in the code where each of these can go wrong are the hazards of `PROJECT.json`.

## 2. The modules

```
Tables                the committed tables and the correctness predicates over them
 |-- Sessions         open transactions, locks, commit, rollback
 |    |-- Reserve     Store.Reserve             \
 |    |-- Transition  Store.TransitionReservation|
 |    |-- Expiration  Store.ExpireBatch, Run     |-- Store   all of them together   -- MCStore
 |    |-- Payment     Store.SimulatePayment      |     |
 |    |-- Catalog     the administrator         /      | ImplementsLedger (INSTANCE)
 |                                                     v             -- StoreProofs
 |-- StockLedger ------------------------------- whole transactions, no sessions or locks
 |    |-- StockLedgerProofs (and TablesProofs)
 |    |-- PublicDemo  Store.ReservePublicDemo over the ledger's transactions
 |    |                                          -- MCPublicDemo, PublicDemoProofs
 |    |-- DemoControl status, reset, seed, load tests over the ledger
 |    |                                          -- MCDemoControl, DemoControlProofs
RateLimiter           ratelimit.Limiter behind Server.clientIP   -- MCRateLimiter, RateLimiterProofs
SchemaHistory         what migrations promise
 ^ ImplementsHistory (INSTANCE)
Migration             database.Migrate in several processes      -- MigrationProofs
Config                config.Load, database.PoolConfig
 |-- Deployment       the programs, over Migration and Config    -- MCDeployment, DeploymentProofs
```

**Tables.** A table is a function from the primary keys present to rows, holding what is
*committed*. Columns that are written once (a sale's product, window, allocation, limit; a
product's initial stock) are constants indexed by id. An order has its reservation's id, since the
two are always inserted together and 1:1 (`orders.reservation_id` is unique). `domain_events` is
kept per reservation, in commit order. Prices, names and timestamps other than `expires_at` are
left out. A sale's id reaches the store as the text of a URL, and PostgreSQL reads one uuid in many
texts (upper case, braces, no hyphens): `Spellings` are the ways to write it, a request carries the
one it used, and a reservation row remembers it as history, which no statement reads; `WroteOneWay`
says that no user's reservations of one sale came in two spellings. `CheckInvariants` is the
operator's query, violation by violation. `Sum` is SQL's `sum(quantity)`, defined as the cardinality of the set of
(reservation, unit) pairs, so that it can be reasoned about without recursion.

**Sessions.** A session is a handler goroutine or a worker with its connection. `tx[self]` is its
transaction (operation, next statement, locals), `held[self]` its locks, `reply[self]` the last
answer. A statement that may wait or that reads shared rows is an action. Statements that touch
only rows the transaction inserted or has locked are folded into the neighbouring step, and its
writes reach the tables at its commit, which is when others can see them. An `UPDATE` that waited
evaluates its `WHERE` on the row as it is when the lock is granted. `Abort` is every way a
transaction ends without committing.

**Reserve, Transition, Expiration, Payment, Catalog.** One action per statement of the
corresponding function, in the code's order, with its early returns; `BeginX` is the call, the
last action the commit. `LockUser` locks the *spelling* of the sale's id with the user
(`reservation.go:59` hashes the text), while all other statements see the sale. The administrator's operations are single statements, or a lock and an
update of the same row, and are one action each.

**Store.** The composition: any session may start any request the constants allow, and the
administrator and the clock move in between. It states the properties about answers, waiting and
progress, and the refinement. `Wants` is the lock that a session's next statement needs, `WaitsFor` and
`Deadlock` are what PostgreSQL's detector looks for.

**StockLedger.** What the store promises: the tables change by whole transactions, each acting on
the tables as they are when it commits. This is serialisability under READ COMMITTED, which the
code gets only by its locks and guarded updates. One deliberate imperfection of the code is part
of it, `RefuseShort` (finding 1), and so is one limit: `Grant` keeps the purchase limit only among the
reservations requested under one spelling (finding 3).

**PublicDemo.** `ReservePublicDemo` runs three transactions: admission under the advisory lock
(purge, look for the key, count the last minute, enter, commit), the search for the sale, and
`Store.Reserve`, which is a step of StockLedger here. A call can be lost at any point. `now()` in
SQL is the time a transaction *began*, so a call that waited counts and purges with an old time;
the model keeps that. `Canonical` is the one spelling in which a program that has read a sale's id
from the database passes it on.

**RateLimiter.** `Allow` is one action, since the mutex covers all of it. Tokens are counted in
the unit refilled per tick of the clock; a request costs `Cost` units, so fractions of a token
exist as in the code's floating point numbers. Rounding of `float64` is not modelled.

**DemoControl.** A *driver* is one run of a control: `demoStatus`, `demoReset`, a seeding
(`EnsurePublicDemo`, at an API's start or by `cmd/seed`), `demoLoadTest` or `cmd/loadgen`. Its
transactions are whole, as in StockLedger: `Look` asks for the demo's sku (`DemoProducts` are the products a
reset inserts), so that over a catalogue of an administrator's a seeding does reset; `Reset` is the
TRUNCATE and the new product and sale, `Attempt` and `Prove` are `Store.Reserve`, `ExpireProof` is `ExpireBatch`. `DemoStatus` is no
transaction, so `ReadProduct`, `ReadSale`, `ReadReservations` and `ReadOrders` see the tables of
four moments; `whole` records whether something was committed in between. The goroutines of a load
test are the set `waiting`; each attempt may also fail, with or without its commit. The keys of a
load test contain the client's `X-Request-ID`, which two clients may choose alike.

**SchemaHistory, Migration.** SchemaHistory is the promise: files are applied once and in order,
and a process is told so only when its own are. Migration is `Migrate`, with the client's position
(`at`, `file`, `result`) and the server's session (`backend`, `lock`) apart. A client may vanish and
leave a session that is still waiting for the lock, holds it, or is about to commit
(`ClientGone`); a session may end under a client (`SessionEnds`), which finds out at its next
statement (`NoticeLoss`). Files are numbered by position; that `sort.Strings` sorts the names of one
width in that order is assumed.

**Config.** `Loads` and `Read` are `config.Load`: fallbacks (some of which depend on `APP_ENV`),
bounds, the rules of `validateProduction`. `PoolConfig` rounds timeouts to milliseconds. `Load` has no
upper bound for durations, and PostgreSQL has: `Connects` is whether it takes the timeouts that come with
a connection, and `Starts` whether a program gets past `Load` and the pool's first ping.

**Deployment.** The processes of `cmd/api`, `cmd/worker` and `cmd/migrate` over Migration and
Config: `phase` goes from `off` through `starting` (migrating), `serving`, `draining`
(`server.Shutdown`) and `closing` (`pool.Close`) to `exited`. A request takes one connection of the
pool at a time, as often as its handler goes to the store; the worker's batch takes one too. What
happens inside a transaction is the other modules' subject. The order of starts is
`docker-compose.yml`'s: a program that does not migrate itself starts after the migrate command of
its release.

## 3. The runs

The runs of MCStore have 2 or 3 sessions, at most 2 reservations and 2 keys. Sessions, keys, drivers
and buyers are interchangeable and their permutations are a symmetry where no liveness is checked.

| Run | Module | Properties | What it shows |
|---|---|---|---|
| `reserve` | MCStore | `TypeOK SpelledLimitHeld SaleNotOversold KeysAccount AnswersDurable NoDeadlock ResponsesFinal` | three sessions, two sales that allocate 5 units of a stock of 2, one with a limit that binds and an id written in two ways, requests of one and two units, retries, reuse of keys, a sale that closes and one that is ended, aborts at every statement |
| `catalog` | MCStore | `InventoryReconciled ImplementsLedger` | from the empty database: products and sales are created, deactivated, recounted, opened and ended under two reserving sessions |
| `payment` | MCStore | `OrdersAgree ChargedOnce PaymentAnswersDurable EventsTrace NoDeadlock LifecycleRespected ImplementsLedger InvariantCheckPasses` | one reservation of two units, two payment keys, every outcome, confirmation, cancellation and the worker; payments do deadlock here, with each other and with transitions |
| `expire` | MCStore | `UnitsAreThere NothingLeaks ImplementsLedger` | two reservations of two sales that share the stock of a product exactly, workers with batches of 1 and 2, confirmations and cancellations |
| `answered` | MCStore | `DemoInvariantPass RequestsAnswered DueIsSettled` | on the seeded demo, with batches of one row and `SKIP LOCKED`: deadlocks and aborts happen, every request still ends, no due reservation keeps its units, sale and inventory move together |
| `limiter` | MCRateLimiter | `TypeOK WithinBudget RefusedForItsOwn` | three clients, a table of two buckets, evictions |
| `public_demo` | MCPublicDemo | `PublicBudgetHeld OneGrantADay OneUnitPerKey` | two calls, two keys, a budget of one per minute, purges, lost calls, retries |
| `deploy` | MCDeployment | `OnRecord ServesUpToDate StopsGracefully AcceptedServes ImplementsHistory MigrateEnds RequestsEnd StopsWhenTold` | a migrate command, the worker that waits for it, and an API of the next release that migrates and runs a worker; two requests; a pool of one connection; crashes, lost connections, signals |
| `demo_control` | MCDemoControl | `ReportsExact StatusHolds SeedsTheDemo` | any two drivers of any kind on one database that has an administrator's sale at first, two buyers for one unit, two retries of the proof |
| `allocation_leak` | MCStore | `SaleFullyAccounted` | finding 1 (violated) |
| `order_states` | MCStore | `OrdersAsDocumented` | finding 2 (violated) |
| `two_spellings` | MCStore | `PurchaseLimitHeld` | finding 3 (violated) |

**Bounds, and why they are enough.** The conflicts are between two transactions over one row (a
sale, an inventory row, a key, a reservation, an order, an advisory lock). Two sessions reach
all of them, and three reach a third that arrives while two are in conflict. Two reservations are what
double restoration, a batch that takes some and skips others, and a per-user sum need; stock of two
with requests of one and two units makes both the last unit and too few units happen. `MaxTime` of 1
or 2 with a `TTL` of 1 lets reservations fall due and sales open and close. In `public_demo` a
minute and a day are both one tick: a row is older than a day two ticks later, a sale of three
ticks is open long enough for a key to be granted, expired, purged and granted again, and still
closes within `MaxTime`. In `limiter` an idle bucket refills in exactly `IdleAfter` ticks, the
least for which the budget can hold. In `deploy` the two migrating processes have one and two files,
so that one finds the other's file applied and one has a file more; a crash and a later process
stand for a restart; two requests and a batch compete for one connection; `AcceptedServes` tries
every setting at both bounds and one past them, and the durations around the greatest timeout, in pairs.
`TimeoutLimit` is 2000000 ms there for PostgreSQL's 2147483647, since TLC's integers end at 2^31 and
durations are counted in microseconds; the proof is for any value. Two spellings of an id are what
finding 3 takes and are used where the limit is at stake (`reserve`, `two_spellings`, and `allocation_leak`
with the requests of `reserve`); one elsewhere. In `demo_control` two drivers are what an interference takes; the administrator's sale at the start is the
case in which a seeding must not be content with what it finds (over an empty database it resets as
well); two buyers for one unit make both a success and a refusal; four sale ids and
eight reservation ids are as many as two loadgens draw. Time stands still there (`MaxTime` 0), which
only loadgen's `ExpireBatch`, with its time to come, would notice. Requests refused for lack of arguments (400) change nothing
and are not sent.

**Fairness.** `Fairness` is about PostgreSQL alone: a lock is granted in the order of its queue,
so a transaction whose next statement can run again and again does run it (strong fairness of
`Step`), and the deadlock detector runs (weak fairness). Nothing is assumed of clients, of the clock or of the
administrator, and an abort may always happen. `WorkerFairness` adds what `expirationworker.Run`
does (the ticker fires for ever and an error only waits for the next tick) and that faults are
transient: from some time on no transaction is aborted. The last is an assumption, since a worker
that was the deadlock victim at every tick, under unending load, could starve. `answered` runs under `Fairness`, and
`DueIsSettled` has `WorkerFairness` as its premise.

`DeploymentFairness` has, per process: statements get their answers, and PostgreSQL serves the
waiters of the advisory lock and notices that the client of a session is gone (its keepalive or a
timeout); a started program goes on; a batch ends; a shutdown drains or times out. Per request:
pgxpool serves its waiters in order, hence strong fairness. Nothing is assumed of signals, crashes,
failures or of anybody's starting.

Deadlock in TLC's sense is not an issue for these specifications: a session can always abort or
begin. `deploy` and `demo_control` do stop, when every process has exited and every driver is done,
and do not check it. Deadlock of transactions is `Deadlock(D)`: each session of `D` waits for a lock that
another of them holds, or one that a finished transaction left behind. `NoDeadlock` does not say
that there is none: it names the only ones, a transaction that gives units back (inventory before
sale, against a request's sale before inventory, or several rows of a batch in any order) and a payment
that meets another transaction on its order.

## 4. The findings

1. **A refused reservation can cost the sale units** (`allocation_leak`).
   `reservation.go:88` decrements the sale; if `:96` then finds too little inventory, `:102`
   stores the refusal and *commits*. Cancelling and expiring give back only what reservations
   hold, so these units are lost to the sale. `docs/database.md:61` says both counters are decremented
   atomically. It needs sales that allocate more than the stock, or a recount to less than the
   sale has left. `SaleNotOversold` (`<=`) is what remains true, and `NothingLeaks`, proved as
   `NoLeak` and `StoreNoLeak`, says that these two are the only ways to it.
2. **Orders move along undocumented edges** (`order_states`). `payment.go:100` accepts a failed
   payment for a pending reservation, so orders go from `pending` to `payment_failed`, and from
   there to `confirmed`, `cancelled` or `expired`. `docs/architecture.md:42-51` draws neither. Order and
   reservation still agree in the sense of `OrdersAgree`.
3. **The purchase limit does not hold across spellings of a sale's id** (`two_spellings`).
   `reservation.go:59` takes its advisory lock on the text of the sale's id as it stood in the URL
   (`router.go:177`); `:68`, `:82` and `:89` compare it as a uuid. Two requests of one user for one sale, the id
   in upper and in lower case, take two locks, read the same sum and are both granted, against
   `README.md:58` ("validates the sale and per-user limit") and the operator's own check
   (`ACTIVE_RESERVATION_LIMIT`, `invariants.go:19`). Requests that follow one another are refused as they
   should be, since the sum itself counts every spelling. `SpelledLimitHeld` is what remains true: the
   limit per spelling, and with it the whole limit where one way of writing is used (`LimitHeld`). Stock
   is not affected.

Noticed on the way, and without a run: `expiration.go:81` reports the number of expired reservations as
`Restored`, which `worker.go:32` adds to a counter that `metrics.go:33` describes as units.

## 5. The proofs

**Transaction level** (`StockLedgerProofs`, on the lemmas about `Sum` in `TablesProofs`), for any
sets of products, sales, users and keys, any finite set of reservation ids, any stock,
allocations, limits, windows, recounts and spellings of ids. The assumption is `SchemaAssumption` of `Tables`, the
types of the constants and that ids are finitely many (they are 16 bytes).

`LedgerInv` is the inductive invariant: the type, `InventoryReconciled`, `SaleNotOversold`,
`SpelledLimitHeld`, `OrdersAgree`, `ChargedOnce` and `KeysAccount`. They need one another. That
`reserved` stays a natural number when a cancellation subtracts from it follows only from its
being the sum over the reservations that hold units (`HeldIsReserved`). That a payment is the only charge follows from
the reservation being `confirmed` and from `ChargedOnce` before. That the operator's check passes
follows from `OrdersAgree` and `ChargedOnce`. There is one lemma per conjunct (`StepType`,
`StepReconciled`, ...), each with one step per action; the arithmetic is in `SumAdd`, `SumMinus`,
`SumDisjoint` and `SumAgree`.

| Theorem | States |
|---|---|
| `LedgerCorrect`, `TypeCorrect` | `[]LedgerInv`, `[]TablesTypeOK` |
| `StockConserved` | `[]InventoryReconciled` |
| `NotOversold` | `[]SaleNotOversold` |
| `LimitHeld` | `[](SpelledLimitHeld /\ (WroteOneWay => PurchaseLimitHeld))` |
| `OrdersFollow` | `[]OrdersAgree` |
| `NeverChargedTwice` | `[]ChargedOnce` |
| `CreatedOnce` | `[]KeysAccount` |
| `OperatorCheckPasses` | `[]InvariantCheckPasses`: no violation, but for `ACTIVE_RESERVATION_LIMIT` where not `WroteOneWay` |
| `LifecycleKept`, `AnswersKept` | the action properties `LifecycleRespected`, `ResponsesFinal` |
| `AuditComplete` | `[]EventsTrace`, with `EventInv` (the type of the log) as its strengthening |
| `NoLeak` | `[]NothingLeaks`, with `LeakInv` as its strengthening |
| `DemoCheckPasses` | `WholeStockSales => []DemoInvariantPass`, from `LeakInv` |

`NothingLeaks` has `WithinStock` as its premise: the allocations of each product's sales together are at
most its stock, and nobody recounts. `StepBalance` shows that every step but `RefuseShort` keeps, for each
sale, what it has left plus what its active reservations took (`BalanceKept`). That `RefuseShort` cannot
happen is a counting argument, `NeverShort`: number the active units of each sale from 1; the pairs
(sale, number) are distinct, lie among the units allocated of the product and leave those of the
sale's remaining stock free. So `reserved + sold` plus what the sale has left is at most the stock, and
`available` is at least what the sale has left. Under the same premise `TotalIsStock` is kept
(`StepTotal`).

`WholeStockSales` is the shape of the seeded demo: one sale per product, of its whole stock, and no
recounts. It implies `WithinStock` (`WholeIsWithin`), and with one sale per product the units of the sale
are those of the inventory.

**Statement level** (`StoreProofs`), for any sessions, keys, requests, batch sizes and administrators,
any interleaving of their statements, and an abort, deadlock or crash before any of them. The
assumptions are `SchemaAssumption` and `StoreAssumption`, the types of the constants.

`StoreInv` is the inductive invariant:

- `TablesInv`, the ledger's invariant of the committed tables;
- `SessionsInv`: no two sessions hold conflicting locks (`Exclusive`), and for every open
  transaction its type and what it has read and checked so far *still holds*, because it holds the
  lock on the row (`Owns`): `ReserveInv`, `TransitionInv`, `ExpireInv`, `PaymentInv`. For a
  reservation request past its checks that is: nobody else uses its key, the sale is the one it
  checked and has the units left, and the user's purchases *under the same spelling* are still within the
  limit (`SpelledFits`). This is where
  the locks of the code are needed: under READ COMMITTED a value that was read says nothing by
  itself about the moment of the commit;
- `AnswersDurable` and `PaymentAnswersDurable`.

The refinement mapping of `ImplementsLedger` is the identity on the tables. A commit is the one step of
the ledger; every other statement and every rollback leaves the tables as they were. The ledger's
theorems then hold of the store, by way of `LT == INSTANCE StockLedgerProofs` and lemmas that the
operators of the instances are the same.

| Theorem | States |
|---|---|
| `StoreCorrect`, `StoreTypeCorrect` | `[]StoreInv`, `[]TypeOK` |
| `ReserveAnswersTrue`, `PaymentAnswersTrue` | `[]AnswersDurable`, `[]PaymentAnswersDurable` |
| `StoreImplementsLedger` | `Spec => ImplementsLedger` |
| `StoreTables` | the invariants of the tables, with the limit as in `LimitHeld`, between any two statements |
| `StoreCheckPasses`, `StoreAudit` | `[]InvariantCheckPasses`, `[]EventsTrace` |
| `StoreLifecycle`, `StoreResponses` | `LifecycleRespected`, `ResponsesFinal` |
| `StoreNoLeak` | `[]NothingLeaks` |
| `StoreDemoPasses` | `WholeStockSales => []DemoInvariantPass` |
| `UnitsFound` | `[]UnitsAreThere` |
| `DeadlocksKnown` | `[]NoDeadlock` |

`UnitsFound` follows from `StoreInv`: the reservation that a statement works on is locked in a state that
holds units, and so are the rows of the batch that are done already; together they are at most
`reserved` (`CurrentRestorable`).

`DeadlocksKnown` needs the converse of `SessionsInv`, not what a transaction certainly holds but what it
*may* hold at each statement: `LocksInv`, inductive with `StoreInv` (`LocksAlways`, one lemma per
operation). The argument is `NoOtherDeadlock`. Suppose a deadlock without the two exceptions. Whoever
holds an inventory row then is at its commit and waits for nothing, so nobody in it waits for an
inventory row; hence nobody who holds a sale waits, so nobody waits for a sale; hence, with one
owner per reservation, nobody for an order; then nobody for a reservation, for an advisory lock, for a
key or for a payment's key. Nobody waits at all.

**Rate limiter** (`RateLimiterProofs`): `BudgetHeld`, `Spec => []WithinBudget`, for every cost,
burst, table size and set of clients. `WithinBudget` has as its premise that ten idle minutes
refill a bucket (`IdleAfter >= Burst`); `config.Load` admits settings for which that is false, and
for them the property is not claimed. `LimiterInv` is the strengthening: what a client has in its
bucket plus what it spent since any served request is at most a burst plus the time since then;
and a client *without* a bucket has been idle so long that a full one is what it is owed.

The other direction is `RefusalsDeserved`, `Spec => []RefusedForItsOwn`, without that premise. Its
strengthening `RefusalInv` has `Tight`: a bucket is full, or all that is missing from it was spent by
its own client since one of its own served requests. `LimiterTypeCorrect` (`[]TypeOK`) includes
that the table never outgrows its limit.

**Migrations** (`MigrationProofs`), for any set of processes and any number of files in each
release (`MigrationAssumption`). `MigrationInv` is the inductive invariant: the record is the schema
(`OnRecord`), files are in order, and for every process `Position` and `Truthful`. The heart of it is
that a session past the lock *holds* it, its client there or not, so that an open transaction is for
the file after those on record; without that, a commit that arrives after its client has gone could
repeat a file. From it `RecordTrue` (`[]OnRecord`) and `HistoryKept`, the refinement
`MigrationSpec => ImplementsHistory`, one step per action.

**Deployments** (`DeploymentProofs`), for any roles, environments, pools and numbers of requests.
Steps of a deployment are steps of its migrations (`MigrationStep`), so `DeploymentRecordTrue` and
`DeploymentHistoryKept` follow. `LifecycleInv` adds that whoever is past its start, or is a migrate
command that ended well, has its files applied; from it `NeverServesEarly` (`[]ServesUpToDate`).
`RequestInv` adds that an unanswered request belongs to a process that still runs and, while that
drains, keeps it from closing; from it `GracefulStop` (`[]StopsGracefully`). `ConfigurationSuits`
proves `AcceptedServes` for every set of environments and every `TimeoutLimit`, where the run has only values
at the bounds: of the configurations with which a program starts, that is. Those that `Load` accepts and
PostgreSQL refuses (a timeout of 1000h) end the program at its first ping.

**Public demo** (`PublicDemoProofs`), for any numbers of concurrent calls and visitors, any budget
from 1 to 100 and any waits. The assumptions are `DemoAssumption` (the bounds of `config.Load`, a minute no
longer than a day, a key is its own user) and `DemoSaleAssumption` (`ResetDemo` seeds one sale, with a limit of one
unit per user). `PublicInv` is the inductive invariant: under the advisory lock one call at a time, and
what it counted stands until it makes its entry (`CountStands`); a response is not purged within the
day of its grant (`ResponseKept`); what a key was granted is its own user's (`GrantsOwned`); and the type,
reconciliation and limit of the tables. From it `PublicBudget` (`[]PublicBudgetHeld`), `RetriesForADay`
(`[]OneGrantADay`) and `OneUnitEach` (`[]OneUnitPerKey`). The last needs the purchase limit: once a
stored response is purged, nothing else stands between a retry and a second unit.

**Demo controls** (`DemoControlProofs`), for any number of drivers of any kinds side by side and any numbers of
buyers, units and retries. The assumption is `ControlAssumption`: ids are numbers, of which `NewID` draws a
fresh one; a request without an id gets one of its own; loadgen's key for its proof is no buyer's key. By
`CatalogueAssumption` the database is empty at the start, or has an administrator's one sale, of the whole
stock of a product that is not the demo's. `ControlInv` is the inductive invariant: the tables hold at most one sale, open, of all its
product's units (`OneSale`), answers are about it (`AnswersOfSale`), and for each driver

- `OwnKeys`: keys made of its own name are used by it alone, and not before it buys;
- `ReadsStand`: while no transaction commits, what it has read is what there is;
- `Retried`: its retries so far got the reservation of the first;
- `Counts`: there is a set `K` of served buyers and a set `F` of failed ones, of the sizes it
  counted, such that the buyers with a reservation are between `K` and `K` with `F`.

Every step either grows the tables (`Grown`) or wipes them for a sale nobody has seen (`Wiped`); each
part of a *resting* driver's invariant is shown once for each of the two, and only the steps of
the driver itself are taken one by one. From it `ReportIsExact` (`[]ReportsExact`), `VerdictsSound`
(`[]StatusHolds`). For `SeedLeavesDemo` (`[]SeedsTheDemo`) the strengthening is `Seeded`: from its reset, or from
the read that found the demo's product, the demo's sale is there for each seeding, since no driver ever puts
another in its place (`DemoStays`).

**Only model-checked.** `RequestsAnswered`, `DueIsSettled`, `MigrateEnds`, `RequestsEnd` and
`StopsWhenTold`, since liveness under fairness is out of the prover's reach. Every invariant and action
property of a passing run is a theorem.

## 6. What is not modelled

- Reads (`ListOrders`, `GetSale`, ...): single SELECTs that change nothing.
- In DemoControl, transactions are whole: that a TRUNCATE waits for the reservations under way, or
  deadlocks with them and fails, is a reset that comes later or gives up. The visitors of the public
  demo and the worker are not among the drivers.
- The purge of day-old keys is in PublicDemo only. In Store and StockLedger keys stay, so `KeysAccount`,
  `AnswersDurable` and `ResponsesFinal` are about keys that have not been purged.
- A payment's fingerprint is over its order's id as written: a retry in another spelling is a conflict.
  Payments are sent with the ids as the API returned them. Reservation ids need no spelling: they are
  compared as uuids everywhere.
- Answers that are cut off by the server's WriteTimeout while it drains.
- In PublicDemo, `Store.Reserve` is one step, so a key purged between the conflict of its INSERT
  and the SELECT of the replay is not reached. The administrator is absent there.
- Amounts, currencies, timestamps of rows, and the order of `domain_events` by `created_at`.
- In Deployment, the seeding at an API's start (it is a driver of DemoControl), and what requests do
  inside their transactions.
- JSON, headers, authorisation, logging, metrics, latencies and the
  text of reports, `cmd/healthcheck`, `cmd/guardrails`, the k6 script and the web client: no state
  that others rely on.

## 7. The plan

1. Done: every component that changes state has its module. All safety invariants and action
   properties that the runs check are proved, and so are both refinements, Store of StockLedger and
   Migration of SchemaHistory.
2. Next, models: the purge against Reserve's replay at statement level; the public demo over several
   sales, so that a retry after a reset meets another sale (`OneUnitPerKey` would then be per sale).
3. Next, proofs: what the models of 2 bring.
