-------------------------- MODULE PublicDemoProofs --------------------------
(***************************************************************************)
(* Proofs about PublicDemo, for any number of visitors, keys and units,    *)
(* any budget and any length of a minute and a day.  The three properties  *)
(* rest on one another's bookkeeping, so they are proved together, as      *)
(* PublicInv; what a request does to the tables is taken from the lemmas   *)
(* about StockLedger's steps.                                              *)
(***************************************************************************)
EXTENDS PublicDemo, StockLedgerProofs

CallRow  == [at : {"lock", "admit", "find", "reserve"}, key : Keys, now : Nat,
             sale : Sales \cup {NULL}]
GrantRow == [began : Nat, made : Nat]

\* The rows this module adds to the tables, and the calls under way, which
\* look at the tables as of a time that has come.
ActionsTypeOK ==
  /\ IsTable(public_demo_actions, Keys, Nat)
  /\ IsFiniteSet(DOMAIN public_demo_actions)
  /\ \A k \in DOMAIN public_demo_actions : public_demo_actions[k] <= clock

ExpiriesTypeOK ==
  /\ IsTable(key_expires, Keys, Nat)
  /\ DOMAIN key_expires = DOMAIN idempotency_keys

CallOK(call, time) ==
  \/ call = Returned
  \/ /\ call \in CallRow
     /\ call.now <= time
     /\ call.at = "reserve" => call.sale \in Sales

CallsTypeOK == DOMAIN calls = Calls /\ \A c \in Calls : CallOK(calls[c], clock)

GrantsTypeOK ==
  DOMAIN grants = Keys /\ \A k \in Keys : IsTable(grants[k], ReservationIDs, GrantRow)

DemoTypeOK == ActionsTypeOK /\ ExpiriesTypeOK /\ CallsTypeOK /\ GrantsTypeOK

\* Under the advisory lock one call at a time, and what it counted is still so.
CountStands ==
  \A c \in Calls : calls[c].at = "admit" =>
    /\ \A d \in Calls : calls[d].at = "admit" => d = c
    /\ \/ calls[c].key \in KeptActions(calls[c].now)
       \/ Cardinality(Recent(calls[c].now)) < MaxPerMinute

\* Until a day after a grant was begun its key's response is not purged.
ResponseKept ==
  \A k \in Keys : \A r \in DOMAIN grants[k] :
    /\ grants[k][r].made <= clock
    /\ \/ grants[k][r].began + Day < clock
       \/ k \in DOMAIN key_expires /\ grants[k][r].began + Day <= key_expires[k]

\* The reservations granted under a key are the key's own user's, of a sale
\* whose id came from the database.
GrantsOwned ==
  \A k \in Keys : \A r \in DOMAIN grants[k] :
    /\ r \in DOMAIN reservations
    /\ reservations[r].user_id = UserFor(k)
    /\ reservations[r].spelling = Canonical

\* What the tables keep to while visitors, time and the worker change them.
DemoTables ==
  /\ TablesTypeOK
  /\ InventoryReconciled
  /\ SpelledLimitHeld
  /\ DOMAIN flash_sales = SeedSales

\* The inductive invariant.
PublicInv ==
  /\ DemoTables
  /\ DemoTypeOK
  /\ CountStands
  /\ PublicBudgetHeld
  /\ ResponseKept
  /\ OneGrantADay
  /\ GrantsOwned

-----------------------------------------------------------------------------
\* A call that has not returned carries its key and the time it began.
LEMMA CallUnderWay ==
  ASSUME DemoTypeOK, NEW c \in Calls, calls[c] # Returned
  PROVE  /\ calls[c] \in CallRow
         /\ calls[c].key \in Keys
         /\ calls[c].now \in Nat /\ calls[c].now <= clock
         /\ calls[c].at = "reserve" => calls[c].sale \in Sales
  BY DEF DemoTypeOK, CallsTypeOK, CallOK, CallRow

LEMMA CallWaits ==
  ASSUME NEW c, calls[c].at \in {"lock", "admit", "find", "reserve"}
  PROVE  calls[c] # Returned
<1>1. Returned.at = "none"
  BY DEF Returned
<1>. QED
  BY <1>1

\* A step of the demo changes the tables as StockLedger allows, or purges.
LEMMA DemoLedgerStep ==
  ASSUME DemoTypeOK, [DemoNext]_demoVars
  PROVE  [Next]_ledgerVars \/ \E c \in Calls : CommitAdmission(c)
<1>1. CASE Elsewhere
  <2>1. CASE Tick
    BY <2>1 DEF Next
  <2>2. ASSUME NEW r \in DOMAIN reservations, Expire({r})
        PROVE  Next
    <3>1. {r} \in SUBSET DOMAIN reservations
      OBVIOUS
    <3>. QED
      BY <2>2, <3>1 DEF Next
  <2>. QED
    BY <1>1, <2>1, <2>2 DEF Elsewhere
<1>2. ASSUME NEW c \in Calls,
             \/ \E k \in Keys : BeginPublic(c, k)
             \/ LockAndCount(c) \/ FindSale(c) \/ Lose(c)
      PROVE  UNCHANGED ledgerVars
  BY <1>2 DEF BeginPublic, LockAndCount, FindSale, Lose
<1>3. ASSUME NEW c \in Calls, ReserveDemo(c)
      PROVE  [Next]_ledgerVars
  <2> DEFINE k == calls[c].key
             req == DemoRequest(calls[c].sale, k)
  <2>1. calls[c].at = "reserve"
    BY <1>3 DEF ReserveDemo
  <2>2. k \in Keys /\ calls[c].sale \in Sales
    BY <2>1, CallWaits, CallUnderWay
  <2>3. req \in Request
    BY <2>2, DemoAssumption, SchemaAssumption DEF DemoRequest, UserFor, Request
  <2>4. \/ UNCHANGED ledgerVars
        \/ \E r \in ReservationIDs : Grant(k, req, r)
        \/ Refused(k, req)
    BY <1>3 DEF ReserveDemo
  <2>5. ASSUME Refused(k, req)
        PROVE  \E code \in ErrorCodes : Refuse(k, req, code)
    BY <2>5 DEF Refused, ErrorCodes
  <2>. HIDE DEF k, req
  <2>. QED
    BY <2>2, <2>3, <2>4, <2>5 DEF Next
<1>4. CASE UNCHANGED demoVars
  BY <1>4 DEF demoVars
<1>. QED
  BY <1>1, <1>2, <1>3, <1>4 DEF DemoNext

-----------------------------------------------------------------------------
(***************************************************************************)
(* The tables: the lemmas about StockLedger's steps, and the purge, which  *)
(* only deletes rows of idempotency_keys.  No step adds a sale.            *)
(***************************************************************************)
LEMMA StepDemoTables ==
  ASSUME DemoTables, DemoTypeOK, [DemoNext]_demoVars
  PROVE  DemoTables'
<1>1. DOMAIN flash_sales' = DOMAIN flash_sales
  <2>1. CASE Elsewhere
    <3>1. CASE Tick
      BY <3>1 DEF Tick, tables
    <3>2. ASSUME NEW r \in DOMAIN reservations, Expire({r})
          PROVE  DOMAIN flash_sales' = DOMAIN flash_sales
      BY <3>2 DEF Expire, Release
    <3>. QED
      BY <2>1, <3>1, <3>2 DEF Elsewhere
  <2>2. ASSUME NEW c \in Calls,
               \/ \E k \in Keys : BeginPublic(c, k)
               \/ LockAndCount(c) \/ CommitAdmission(c) \/ FindSale(c) \/ Lose(c)
        PROVE  flash_sales' = flash_sales
    BY <2>2 DEF BeginPublic, LockAndCount, CommitAdmission, FindSale, Lose, ledgerVars, tables
  <2>3. ASSUME NEW c \in Calls, ReserveDemo(c)
        PROVE  DOMAIN flash_sales' = DOMAIN flash_sales
    <3>1. ASSUME NEW k, NEW req, NEW r, Grant(k, req, r)
          PROVE  DOMAIN flash_sales' = DOMAIN flash_sales
      BY <3>1 DEF Grant
    <3>2. ASSUME NEW k, NEW req, Refused(k, req)
          PROVE  flash_sales' = flash_sales
      BY <3>2 DEF Refused, Refuse
    <3>. QED
      BY <2>3, <3>1, <3>2 DEF ReserveDemo, ledgerVars, tables
  <2>4. CASE UNCHANGED demoVars
    BY <2>4 DEF demoVars, ledgerVars, tables
  <2>. QED
    BY <2>1, <2>2, <2>3, <2>4 DEF DemoNext
<1>2. CASE [Next]_ledgerVars
  BY <1>1, <1>2, StepType, StepReconciled, StepLimit DEF DemoTables
<1>3. ASSUME NEW c \in Calls, CommitAdmission(c)
      PROVE  DemoTables'
  <2>1. /\ UNCHANGED <<clock, products, inventory, flash_sales, reservations, orders, payments>>
        /\ idempotency_keys' = Restrict(idempotency_keys, KeptKeys(calls[c].now))
    BY <1>3 DEF CommitAdmission
  <2>2. KeptKeys(calls[c].now) \subseteq DOMAIN idempotency_keys
    BY DEF KeptKeys, DemoTypeOK, ExpiriesTypeOK
  <2>3. IsTable(idempotency_keys, Keys, KeyRow)
    BY DEF DemoTables, TablesTypeOK
  <2>4. IsTable(idempotency_keys', Keys, KeyRow)
    BY <2>1, <2>2, <2>3 DEF IsTable, Restrict
  <2>5. TablesTypeOK'
    BY <2>1, <2>4 DEF DemoTables, TablesTypeOK
  <2>. QED
    BY <2>1, <2>5 DEF DemoTables, InventoryReconciled, SpelledLimitHeld
<1>. QED
  BY <1>2, <1>3, DemoLedgerStep

-----------------------------------------------------------------------------
\* A restricted table is a table of fewer rows, an insertion of one more.
LEMMA RestrictTable ==
  ASSUME NEW t, NEW Ids, NEW Row, IsTable(t, Ids, Row), NEW S, S \subseteq DOMAIN t
  PROVE  /\ IsTable(Restrict(t, S), Ids, Row)
         /\ DOMAIN Restrict(t, S) = S
         /\ \A x \in S : Restrict(t, S)[x] = t[x]
  BY DEF IsTable, Restrict

LEMMA InsertTable ==
  ASSUME NEW t, NEW Ids, NEW Row, IsTable(t, Ids, Row), NEW id \in Ids, NEW row \in Row
  PROVE  /\ IsTable(Insert(t, id, row), Ids, Row)
         /\ DOMAIN Insert(t, id, row) = DOMAIN t \cup {id}
         /\ \A x \in DOMAIN t \cup {id} :
              Insert(t, id, row)[x] = IF x = id THEN row ELSE t[x]
  BY DEF IsTable, Insert

\* What entering a key does to public_demo_actions: the entries of the last
\* day stay, and the key is there, entered now unless it was there already.
LEMMA ActionsEntered ==
  ASSUME DemoTypeOK, NEW c \in Calls, CommitAdmission(c)
  PROVE  LET k == calls[c].key
             now == calls[c].now
         IN /\ IsTable(public_demo_actions', Keys, Nat)
            /\ DOMAIN public_demo_actions' = KeptActions(now) \cup {k}
            /\ \A x \in KeptActions(now) : public_demo_actions'[x] = public_demo_actions[x]
            /\ k \notin KeptActions(now) => public_demo_actions'[k] = now
<1> DEFINE k == calls[c].key
           now == calls[c].now
           kept == Restrict(public_demo_actions, KeptActions(now))
<1>1. calls[c].at = "admit"
  BY DEF CommitAdmission
<1>2. k \in Keys /\ now \in Nat
  BY <1>1, CallWaits, CallUnderWay
<1>3. IsTable(public_demo_actions, Keys, Nat) /\ KeptActions(now) \subseteq DOMAIN public_demo_actions
  BY DEF DemoTypeOK, ActionsTypeOK, KeptActions
<1>4. /\ IsTable(kept, Keys, Nat)
      /\ DOMAIN kept = KeptActions(now)
      /\ \A x \in KeptActions(now) : kept[x] = public_demo_actions[x]
  BY <1>3, RestrictTable
<1>5. public_demo_actions' = IF k \in DOMAIN kept THEN kept ELSE Insert(kept, k, now)
  BY DEF CommitAdmission
<1>. HIDE DEF k, now, kept
<1>6. /\ IsTable(Insert(kept, k, now), Keys, Nat)
      /\ DOMAIN Insert(kept, k, now) = DOMAIN kept \cup {k}
      /\ \A x \in DOMAIN kept \cup {k} :
           Insert(kept, k, now)[x] = IF x = k THEN now ELSE kept[x]
  BY <1>2, <1>4, InsertTable
<1>7. CASE k \in KeptActions(now)
  BY <1>4, <1>5, <1>7 DEF k, now
<1>8. CASE k \notin KeptActions(now)
  <2>1. public_demo_actions' = Insert(kept, k, now)
    BY <1>4, <1>5, <1>8
  <2>2. \A x \in KeptActions(now) : public_demo_actions'[x] = public_demo_actions[x]
    BY <1>4, <1>6, <1>8, <2>1
  <2>. QED
    BY <1>4, <1>6, <2>1, <2>2 DEF k, now
<1>. QED
  BY <1>7, <1>8

\* Time does not run backwards, and stands still during a visitor's step.
LEMMA DemoTime ==
  ASSUME DemoTables, [DemoNext]_demoVars
  PROVE  /\ clock \in Nat /\ clock' \in Nat /\ clock <= clock'
         /\ clock' = clock \/ (Tick /\ UNCHANGED demo)
<1>1. clock \in Nat
  BY DEF DemoTables, TablesTypeOK
<1>2. CASE Elsewhere
  <2>1. CASE Tick
    BY <1>1, <1>2, <2>1 DEF Tick, Elsewhere
  <2>2. ASSUME NEW r \in DOMAIN reservations, Expire({r})
        PROVE  clock' = clock
    BY <2>2 DEF Expire, Release
  <2>3. Tick \/ clock' = clock
    BY <1>2, <2>2 DEF Elsewhere
  <2>. QED
    BY <1>1, <2>1, <2>3
<1>3. ASSUME NEW c \in Calls,
             \/ \E k \in Keys : BeginPublic(c, k)
             \/ LockAndCount(c) \/ CommitAdmission(c) \/ FindSale(c) \/ Lose(c)
      PROVE  clock' = clock
  BY <1>3 DEF BeginPublic, LockAndCount, CommitAdmission, FindSale, Lose, ledgerVars
<1>4. ASSUME NEW c \in Calls, ReserveDemo(c)
      PROVE  clock' = clock
  <2>1. ASSUME NEW k, NEW req, NEW r, Grant(k, req, r)
        PROVE  clock' = clock
    BY <2>1 DEF Grant
  <2>2. ASSUME NEW k, NEW req, Refused(k, req)
        PROVE  clock' = clock
    BY <2>2 DEF Refused, Refuse
  <2>. QED
    BY <1>4, <2>1, <2>2 DEF ReserveDemo, ledgerVars
<1>5. ASSUME UNCHANGED demoVars
      PROVE  clock' = clock
  BY <1>5 DEF demoVars, ledgerVars
<1>6. Elsewhere \/ clock' = clock
  BY <1>3, <1>4, <1>5 DEF DemoNext
<1>. QED
  BY <1>1, <1>2, <1>6

\* Elsewhere no key is purged and no visitor served.
LEMMA ElsewhereKeeps ==
  ASSUME Elsewhere \/ UNCHANGED demoVars
  PROVE  UNCHANGED <<demo, idempotency_keys>>
<1>1. ASSUME NEW r, Expire({r})
      PROVE  UNCHANGED idempotency_keys
  BY <1>1 DEF Expire, Release
<1>. QED
  BY <1>1 DEF Elsewhere, Tick, tables, demoVars, ledgerVars

(***************************************************************************)
(* The types of the demo's own state are kept by every step.               *)
(***************************************************************************)
LEMMA StepCalls ==
  ASSUME DemoTables, DemoTypeOK, [DemoNext]_demoVars
  PROVE  CallsTypeOK'
<1>0. clock \in Nat /\ clock' \in Nat /\ clock <= clock'
  BY DemoTime
<1>1. CallsTypeOK
  BY DEF DemoTypeOK
<1>2. ASSUME NEW call, CallOK(call, clock)
      PROVE  CallOK(call, clock')
  BY <1>0, <1>2 DEF CallOK, CallRow
<1>3. ASSUME NEW c \in Calls, NEW call, CallOK(call, clock'), calls' = [calls EXCEPT ![c] = call]
      PROVE  CallsTypeOK'
  BY <1>1, <1>2, <1>3 DEF CallsTypeOK
<1>4. CASE Elsewhere \/ UNCHANGED demoVars
  <2>1. calls' = calls
    BY <1>4, ElsewhereKeeps DEF demo
  <2>. QED
    BY <1>1, <1>2, <2>1 DEF CallsTypeOK
<1>5. ASSUME NEW c \in Calls, NEW k \in Keys, BeginPublic(c, k)
      PROVE  CallsTypeOK'
  <2>1. calls' = [calls EXCEPT ![c] = [at |-> "lock", key |-> k, now |-> clock, sale |-> NULL]]
    BY <1>5 DEF BeginPublic
  <2>2. CallOK([at |-> "lock", key |-> k, now |-> clock, sale |-> NULL], clock')
    BY <1>0 DEF CallOK, CallRow
  <2>. QED
    BY <1>3, <2>1, <2>2
<1>6. ASSUME NEW c \in Calls, Return(c)
      PROVE  CallsTypeOK'
  BY <1>3, <1>6 DEF Return, CallOK
<1>7. ASSUME NEW c \in Calls, calls[c] # Returned, NEW at \in {"admit", "find"},
             calls' = [calls EXCEPT ![c].at = at]
      PROVE  CallsTypeOK'
  <2>1. calls[c] \in CallRow /\ calls[c].now <= clock
    BY <1>7, CallUnderWay
  <2>2. CallOK([calls[c] EXCEPT !.at = at], clock')
    BY <1>0, <2>1 DEF CallOK, CallRow
  <2>3. calls' = [calls EXCEPT ![c] = [calls[c] EXCEPT !.at = at]]
    BY <1>1, <1>7 DEF CallsTypeOK
  <2>. QED
    BY <1>3, <2>2, <2>3
<1>8. ASSUME NEW c \in Calls, LockAndCount(c)
      PROVE  CallsTypeOK'
  BY <1>6, <1>7, <1>8, CallWaits DEF LockAndCount
<1>9. ASSUME NEW c \in Calls, CommitAdmission(c)
      PROVE  CallsTypeOK'
  <2>1. calls[c].at = "admit" /\ calls' = [calls EXCEPT ![c].at = "find"]
    BY <1>9 DEF CommitAdmission
  <2>2. calls[c] # Returned
    BY <2>1, CallWaits
  <2>. QED
    BY <1>7, <2>1, <2>2, Zenon
<1>10. ASSUME NEW c \in Calls, FindSale(c)
       PROVE  CallsTypeOK'
  <2>1. calls[c] \in CallRow
    <3>1. calls[c].at = "find"
      BY <1>10 DEF FindSale
    <3>. QED
      BY <3>1, CallWaits, CallUnderWay
  <2>2. ASSUME NEW s \in DOMAIN flash_sales,
               calls' = [calls EXCEPT ![c].at = "reserve", ![c].sale = s, ![c].now = clock]
        PROVE  CallsTypeOK'
    <3>1. s \in Sales
      BY <2>2 DEF DemoTables, TablesTypeOK, IsTable
    <3>2. CallOK([calls[c] EXCEPT !.at = "reserve", !.sale = s, !.now = clock], clock')
      BY <1>0, <2>1, <3>1 DEF CallOK, CallRow
    <3>3. calls' = [calls EXCEPT ![c] =
                      [calls[c] EXCEPT !.at = "reserve", !.sale = s, !.now = clock]]
      BY <1>1, <2>1, <2>2 DEF CallsTypeOK, CallRow
    <3>. QED
      BY <1>3, <3>2, <3>3
  <2>. QED
    BY <1>6, <1>10, <2>2 DEF FindSale
<1>11. ASSUME NEW c \in Calls, ReserveDemo(c) \/ Lose(c)
       PROVE  CallsTypeOK'
  BY <1>6, <1>11 DEF ReserveDemo, Lose
<1>. QED
  BY <1>4, <1>5, <1>8, <1>9, <1>10, <1>11 DEF DemoNext

LEMMA StepActions ==
  ASSUME DemoTables, DemoTypeOK, [DemoNext]_demoVars
  PROVE  ActionsTypeOK'
<1>0. clock \in Nat /\ clock' \in Nat /\ clock <= clock'
  BY DemoTime
<1>1. ActionsTypeOK
  BY DEF DemoTypeOK
<1>2. CASE UNCHANGED public_demo_actions
  BY <1>0, <1>1, <1>2 DEF ActionsTypeOK, IsTable
<1>3. ASSUME NEW c \in Calls, CommitAdmission(c)
      PROVE  ActionsTypeOK'
  <2> DEFINE k == calls[c].key
             now == calls[c].now
  <2>1. k \in Keys /\ now \in Nat /\ now <= clock
    BY <1>3, CallWaits, CallUnderWay DEF CommitAdmission
  <2>2. /\ IsTable(public_demo_actions', Keys, Nat)
        /\ DOMAIN public_demo_actions' = KeptActions(now) \cup {k}
        /\ \A x \in KeptActions(now) : public_demo_actions'[x] = public_demo_actions[x]
        /\ k \notin KeptActions(now) => public_demo_actions'[k] = now
    BY <1>3, ActionsEntered
  <2>3. KeptActions(now) \subseteq DOMAIN public_demo_actions
    BY DEF KeptActions
  <2>. HIDE DEF k, now
  <2>4. IsFiniteSet(DOMAIN public_demo_actions')
    <3>1. IsFiniteSet(KeptActions(now))
      BY <1>1, <2>3, FS_Subset DEF ActionsTypeOK
    <3>. QED
      BY <2>2, <3>1, FS_AddElement
  <2>5. \A x \in DOMAIN public_demo_actions' : public_demo_actions'[x] <= clock
    BY <1>1, <2>1, <2>2, <2>3 DEF ActionsTypeOK
  <2>6. clock' = clock
    BY <1>3 DEF CommitAdmission
  <2>. QED
    BY <2>2, <2>4, <2>5, <2>6 DEF ActionsTypeOK
<1>4. ASSUME NEW c \in Calls,
             \/ \E k \in Keys : BeginPublic(c, k)
             \/ LockAndCount(c) \/ FindSale(c) \/ ReserveDemo(c) \/ Lose(c)
      PROVE  UNCHANGED public_demo_actions
  BY <1>4 DEF BeginPublic, LockAndCount, FindSale, ReserveDemo, Lose
<1>5. ASSUME Elsewhere \/ UNCHANGED demoVars
      PROVE  UNCHANGED public_demo_actions
  BY <1>5, ElsewhereKeeps DEF demo
<1>. QED
  BY <1>2, <1>3, <1>4, <1>5 DEF DemoNext

LEMMA StepExpiries ==
  ASSUME DemoTables, DemoTypeOK, [DemoNext]_demoVars
  PROVE  ExpiriesTypeOK'
<1>1. ExpiriesTypeOK
  BY DEF DemoTypeOK
<1>2. CASE UNCHANGED <<key_expires, idempotency_keys>>
  BY <1>1, <1>2 DEF ExpiriesTypeOK
<1>3. ASSUME NEW c \in Calls, CommitAdmission(c)
      PROVE  ExpiriesTypeOK'
  <2> DEFINE kept == KeptKeys(calls[c].now)
  <2>1. /\ idempotency_keys' = Restrict(idempotency_keys, kept)
        /\ key_expires' = Restrict(key_expires, kept)
    BY <1>3 DEF CommitAdmission
  <2>2. kept \subseteq DOMAIN key_expires
    BY DEF KeptKeys
  <2>. HIDE DEF kept
  <2>3. IsTable(key_expires', Keys, Nat) /\ DOMAIN key_expires' = kept
    BY <1>1, <2>1, <2>2, RestrictTable DEF ExpiriesTypeOK
  <2>4. DOMAIN idempotency_keys' = kept
    BY <2>1 DEF Restrict
  <2>. QED
    BY <2>3, <2>4 DEF ExpiriesTypeOK
<1>4. ASSUME NEW c \in Calls, ReserveDemo(c)
      PROVE  ExpiriesTypeOK'
  <2> DEFINE k == calls[c].key
             e == calls[c].now + Day
  <2>1. calls[c].at = "reserve"
    BY <1>4 DEF ReserveDemo
  <2>2. k \in Keys /\ e \in Nat
    BY <2>1, CallWaits, CallUnderWay, DemoAssumption
  <2>3. \/ UNCHANGED <<ledgerVars, key_expires>>
        \/ /\ key_expires' = Insert(key_expires, k, e)
           /\ \/ \E req, r : Grant(k, req, r)
              \/ \E req : Refused(k, req)
    BY <1>4 DEF ReserveDemo
  <2>4. CASE UNCHANGED <<ledgerVars, key_expires>>
    BY <1>2, <2>4 DEF ledgerVars, tables
  <2>5. ASSUME NEW req, NEW r, Grant(k, req, r)
        PROVE  DOMAIN idempotency_keys' = DOMAIN idempotency_keys \cup {k}
    BY <2>5 DEF Grant, Insert
  <2>6. ASSUME NEW req, Refused(k, req)
        PROVE  DOMAIN idempotency_keys' = DOMAIN idempotency_keys \cup {k}
    BY <2>6 DEF Refused, Refuse, Insert
  <2>. HIDE DEF k, e
  <2>7. CASE /\ key_expires' = Insert(key_expires, k, e)
             /\ DOMAIN idempotency_keys' = DOMAIN idempotency_keys \cup {k}
    <3>1. IsTable(key_expires', Keys, Nat) /\ DOMAIN key_expires' = DOMAIN key_expires \cup {k}
      BY <1>1, <2>2, <2>7, InsertTable DEF ExpiriesTypeOK
    <3>. QED
      BY <1>1, <2>7, <3>1 DEF ExpiriesTypeOK
  <2>. QED
    BY <2>3, <2>4, <2>5, <2>6, <2>7
<1>5. ASSUME NEW c \in Calls,
             \/ \E k \in Keys : BeginPublic(c, k)
             \/ LockAndCount(c) \/ FindSale(c) \/ Lose(c)
      PROVE  UNCHANGED <<key_expires, idempotency_keys>>
  BY <1>5 DEF BeginPublic, LockAndCount, FindSale, Lose, ledgerVars, tables
<1>6. ASSUME Elsewhere \/ UNCHANGED demoVars
      PROVE  UNCHANGED <<key_expires, idempotency_keys>>
  BY <1>6, ElsewhereKeeps DEF demo
<1>. QED
  BY <1>2, <1>3, <1>4, <1>5, <1>6 DEF DemoNext

\* A step grants a reservation under the key of a call, or no key gets one.
DemoGrant(c, r) ==
  LET k == calls[c].key IN
  /\ calls[c].at = "reserve"
  /\ Grant(k, DemoRequest(calls[c].sale, k), r)
  /\ grants' = [grants EXCEPT ![k] = Insert(@, r, [began |-> calls[c].now, made |-> clock])]
  /\ key_expires' = Insert(key_expires, k, calls[c].now + Day)

LEMMA GrantsChange ==
  ASSUME [DemoNext]_demoVars
  PROVE  \/ UNCHANGED grants
         \/ \E c \in Calls, r \in ReservationIDs : DemoGrant(c, r)
<1>1. ASSUME NEW c \in Calls, ReserveDemo(c)
      PROVE  \/ UNCHANGED grants
             \/ \E r \in ReservationIDs : DemoGrant(c, r)
  BY <1>1 DEF ReserveDemo, DemoGrant
<1>2. ASSUME NEW c \in Calls,
             \/ \E k \in Keys : BeginPublic(c, k)
             \/ LockAndCount(c) \/ CommitAdmission(c) \/ FindSale(c) \/ Lose(c)
      PROVE  UNCHANGED grants
  BY <1>2 DEF BeginPublic, LockAndCount, CommitAdmission, FindSale, Lose
<1>3. ASSUME Elsewhere \/ UNCHANGED demoVars
      PROVE  UNCHANGED grants
  BY <1>3, ElsewhereKeeps DEF demo
<1>. QED
  BY <1>1, <1>2, <1>3 DEF DemoNext

\* What a grant adds to the history.
LEMMA GrantAdded ==
  ASSUME DemoTypeOK, NEW c \in Calls, NEW r \in ReservationIDs, clock \in Nat, DemoGrant(c, r)
  PROVE  LET k == calls[c].key
             row == [began |-> calls[c].now, made |-> clock]
         IN /\ k \in Keys /\ row \in GrantRow
            /\ DOMAIN grants' = Keys
            /\ \A j \in Keys : j # k => grants'[j] = grants[j]
            /\ IsTable(grants'[k], ReservationIDs, GrantRow)
            /\ DOMAIN grants'[k] = DOMAIN grants[k] \cup {r}
            /\ \A x \in DOMAIN grants[k] \cup {r} :
                 grants'[k][x] = IF x = r THEN row ELSE grants[k][x]
<1> DEFINE k == calls[c].key
           row == [began |-> calls[c].now, made |-> clock]
<1>1. k \in Keys /\ calls[c].now \in Nat
  BY CallWaits, CallUnderWay DEF DemoGrant
<1>2. row \in GrantRow
  BY <1>1 DEF GrantRow
<1>3. DOMAIN grants = Keys /\ IsTable(grants[k], ReservationIDs, GrantRow)
  BY <1>1 DEF DemoTypeOK, GrantsTypeOK
<1>4. grants' = [grants EXCEPT ![k] = Insert(grants[k], r, row)]
  BY DEF DemoGrant
<1>. HIDE DEF k, row
<1>5. /\ DOMAIN grants' = Keys
      /\ \A j \in Keys : j # k => grants'[j] = grants[j]
      /\ grants'[k] = Insert(grants[k], r, row)
  BY <1>1, <1>3, <1>4
<1>. QED
  BY <1>1, <1>2, <1>3, <1>5, InsertTable, SMTT(30) DEF k, row

LEMMA StepGrants ==
  ASSUME DemoTables, DemoTypeOK, [DemoNext]_demoVars
  PROVE  GrantsTypeOK'
<1>1. CASE UNCHANGED grants
  BY <1>1 DEF DemoTypeOK, GrantsTypeOK
<1>2. ASSUME NEW c \in Calls, NEW r \in ReservationIDs, DemoGrant(c, r)
      PROVE  GrantsTypeOK'
  <2>1. clock \in Nat
    BY DemoTime
  <2>. QED
    BY <1>2, <2>1, GrantAdded DEF DemoTypeOK, GrantsTypeOK
<1>. QED
  BY <1>1, <1>2, GrantsChange

LEMMA StepDemoType ==
  ASSUME DemoTables, DemoTypeOK, [DemoNext]_demoVars
  PROVE  DemoTypeOK'
BY StepActions, StepExpiries, StepCalls, StepGrants DEF DemoTypeOK

-----------------------------------------------------------------------------
(***************************************************************************)
(* The budget.  The call that holds the lock counted the actions of the    *)
(* minute before it began, and nobody has entered one since.  Entering its *)
(* own at that time adds to no minute that ended before, and every minute  *)
(* that ends later starts later: all it holds beside the new entry was     *)
(* counted.                                                                *)
(***************************************************************************)
LEMMA StepCount ==
  ASSUME DemoTables, DemoTypeOK, CountStands, [DemoNext]_demoVars
  PROVE  CountStands'
<1>0. DOMAIN calls = Calls
  BY DEF DemoTypeOK, CallsTypeOK
<1>a. Returned.at = "none"
  BY DEF Returned
<1> DEFINE Stands(c) == \/ calls[c].key \in KeptActions(calls[c].now)
                        \/ Cardinality(Recent(calls[c].now)) < MaxPerMinute
\* A call that is not counting, or was counting before, changes nothing.
<1>1. ASSUME UNCHANGED public_demo_actions,
             \A c \in Calls : calls'[c].at = "admit" => calls'[c] = calls[c]
      PROVE  CountStands'
  BY <1>1 DEF CountStands, KeptActions, Recent
<1>2. CASE Elsewhere \/ UNCHANGED demoVars
  <2>1. UNCHANGED <<public_demo_actions, calls>>
    BY <1>2, ElsewhereKeeps DEF demo
  <2>. QED
    BY <1>1, <2>1
<1>3. ASSUME NEW c \in Calls, UNCHANGED public_demo_actions, NEW call, call.at # "admit",
             calls' = [calls EXCEPT ![c] = call]
      PROVE  CountStands'
  <2>1. \A d \in Calls : calls'[d] = IF d = c THEN call ELSE calls[d]
    BY <1>0, <1>3
  <2>. QED
    BY <1>1, <1>3, <2>1
<1>4. ASSUME NEW c \in Calls, UNCHANGED public_demo_actions, Return(c)
      PROVE  CountStands'
  BY <1>a, <1>3, <1>4 DEF Return
<1>5. ASSUME NEW c \in Calls, NEW k \in Keys, BeginPublic(c, k)
      PROVE  CountStands'
  <2> DEFINE call == [at |-> "lock", key |-> k, now |-> clock, sale |-> NULL]
  <2>1. UNCHANGED public_demo_actions /\ calls' = [calls EXCEPT ![c] = call] /\ call.at # "admit"
    BY <1>5 DEF BeginPublic
  <2>. HIDE DEF call
  <2>. QED
    BY <1>3, <2>1
<1>6. ASSUME NEW c \in Calls, LockAndCount(c)
      PROVE  CountStands'
  <2>1. UNCHANGED public_demo_actions /\ \A d \in Calls : calls[d].at # "admit"
    BY <1>6 DEF LockAndCount
  <2>2. CASE Return(c)
    BY <1>4, <2>1, <2>2
  <2>3. CASE /\ calls' = [calls EXCEPT ![c].at = "admit"]
             /\ Stands(c)
    <3>1. calls[c] \in CallRow
      <4>1. calls[c].at = "lock"
        BY <1>6 DEF LockAndCount
      <4>. QED
        BY <4>1, CallWaits, CallUnderWay
    <3>2. calls'[c].key = calls[c].key /\ calls'[c].now = calls[c].now
      BY <1>0, <2>3, <3>1 DEF CallRow
    <3>3. \A d \in Calls : d # c => calls'[d] = calls[d]
      BY <1>0, <2>3
    <3>4. Stands(c)'
      BY <2>1, <2>3, <3>2 DEF KeptActions, Recent
    <3>5. \A d \in Calls : calls'[d].at = "admit" => d = c
      BY <2>1, <3>3
    <3>. QED
      BY <3>4, <3>5 DEF CountStands
  <2>. QED
    BY <1>6, <2>2, <2>3 DEF LockAndCount
<1>7. ASSUME NEW c \in Calls, CommitAdmission(c)
      PROVE  CountStands'
  <2>1. calls[c].at = "admit" /\ calls' = [calls EXCEPT ![c].at = "find"]
    BY <1>7 DEF CommitAdmission
  <2>2. \A d \in Calls : d # c => calls[d].at # "admit"
    BY <2>1 DEF CountStands
  <2>3. calls[c] \in CallRow
    BY <2>1, CallWaits, CallUnderWay
  <2>4. calls'[c].at = "find"
    BY <1>0, <2>1, <2>3 DEF CallRow
  <2>5. \A d \in Calls : d # c => calls'[d] = calls[d]
    BY <1>0, <2>1
  <2>6. \A d \in Calls : calls'[d].at # "admit"
    BY <2>2, <2>4, <2>5
  <2>. QED
    BY <2>6 DEF CountStands
<1>8. ASSUME NEW c \in Calls, FindSale(c)
      PROVE  CountStands'
  <2>1. UNCHANGED public_demo_actions /\ calls[c].at = "find"
    BY <1>8 DEF FindSale
  <2>2. calls[c] \in CallRow
    BY <2>1, CallWaits, CallUnderWay
  <2>3. CASE Return(c)
    BY <1>4, <2>1, <2>3
  <2>4. ASSUME NEW s,
               calls' = [calls EXCEPT ![c].at = "reserve", ![c].sale = s, ![c].now = clock]
        PROVE  CountStands'
    <3>1. calls'[c].at = "reserve"
      BY <1>0, <2>2, <2>4 DEF CallRow
    <3>2. \A d \in Calls : d # c => calls'[d] = calls[d]
      BY <1>0, <2>4
    <3>. QED
      BY <1>1, <2>1, <3>1, <3>2
  <2>. QED
    BY <1>8, <2>3, <2>4 DEF FindSale
<1>9. ASSUME NEW c \in Calls, ReserveDemo(c) \/ Lose(c)
      PROVE  CountStands'
  BY <1>4, <1>9 DEF ReserveDemo, Lose
<1>. QED
  BY <1>2, <1>5, <1>6, <1>7, <1>8, <1>9 DEF DemoNext

\* The actions entered in the minute up to t.
MinuteTo(t) ==
  {k \in DOMAIN public_demo_actions :
     t - Minute < public_demo_actions[k] /\ public_demo_actions[k] <= t}

LEMMA StepBudget ==
  ASSUME DemoTables, DemoTypeOK, CountStands, PublicBudgetHeld, [DemoNext]_demoVars
  PROVE  PublicBudgetHeld'
<1>0. clock \in Nat /\ clock' \in Nat /\ Minute \in Nat /\ MaxPerMinute \in Nat
  BY DemoTime, DemoAssumption
<1>1. /\ public_demo_actions \in [DOMAIN public_demo_actions -> Nat]
      /\ IsFiniteSet(DOMAIN public_demo_actions)
      /\ \A k \in DOMAIN public_demo_actions : public_demo_actions[k] <= clock
  BY DEF DemoTypeOK, ActionsTypeOK, IsTable
<1>2. \A t : MinuteTo(t) \subseteq DOMAIN public_demo_actions
  BY DEF MinuteTo
<1>3. \A t : IsFiniteSet(MinuteTo(t)) /\ Cardinality(MinuteTo(t)) \in Nat
  BY <1>1, <1>2, FS_Subset, FS_CardinalityType
<1>4. \A t \in 0..clock : Cardinality(MinuteTo(t)) <= MaxPerMinute
  BY DEF PublicBudgetHeld, MinuteTo
<1>5. CASE UNCHANGED <<public_demo_actions, clock>>
  BY <1>5 DEF PublicBudgetHeld
<1>6. CASE Tick /\ UNCHANGED demo
  <2>1. clock' = clock + 1 /\ public_demo_actions' = public_demo_actions
    BY <1>6 DEF Tick, demo
  <2>2. \A t : MinuteTo(t)' = MinuteTo(t)
    BY <2>1 DEF MinuteTo
  <2>3. MinuteTo(clock + 1) \subseteq MinuteTo(clock)
    BY <1>0, <1>1 DEF MinuteTo
  <2>4. Cardinality(MinuteTo(clock + 1)) <= Cardinality(MinuteTo(clock))
    BY <1>3, <2>3, FS_Subset
  <2>5. clock \in 0..clock
    BY <1>0
  <2>6. Cardinality(MinuteTo(clock + 1)) <= MaxPerMinute
    BY <1>0, <1>3, <1>4, <2>4, <2>5
  <2>7. \A t \in 0..clock' : t \in 0..clock \/ t = clock + 1
    BY <1>0, <2>1
  <2>8. \A t \in 0..clock' : Cardinality(MinuteTo(t)') <= MaxPerMinute
    BY <1>4, <2>2, <2>6, <2>7
  <2>. QED
    BY <2>8 DEF PublicBudgetHeld, MinuteTo
<1>7. ASSUME NEW c \in Calls, CommitAdmission(c)
      PROVE  PublicBudgetHeld'
  <2> DEFINE k == calls[c].key
             now == calls[c].now
             Later(t) == {x \in DOMAIN public_demo_actions' :
                            t - Minute < public_demo_actions'[x] /\ public_demo_actions'[x] <= t}
  <2>1. calls[c].at = "admit" /\ clock' = clock
    BY <1>7 DEF CommitAdmission
  <2>2. now \in Nat
    BY <2>1, CallWaits, CallUnderWay
  <2>3. /\ DOMAIN public_demo_actions' = KeptActions(now) \cup {k}
        /\ \A x \in KeptActions(now) : public_demo_actions'[x] = public_demo_actions[x]
        /\ k \notin KeptActions(now) => public_demo_actions'[k] = now
    BY <1>7, ActionsEntered
  <2>4. k \in KeptActions(now) \/ Cardinality(Recent(now)) < MaxPerMinute
    BY <2>1 DEF CountStands
  <2>5. KeptActions(now) \subseteq DOMAIN public_demo_actions
    BY DEF KeptActions
  <2>6. IsFiniteSet(Recent(now)) /\ Cardinality(Recent(now)) \in Nat
    <3>1. Recent(now) \subseteq DOMAIN public_demo_actions
      BY DEF Recent
    <3>. QED
      BY <1>1, <3>1, FS_Subset, FS_CardinalityType
  <2>. HIDE DEF k, now
  <2>7. SUFFICES ASSUME NEW t \in 0..clock
                 PROVE  Cardinality(Later(t)) <= MaxPerMinute
    BY <2>1, <2>7 DEF PublicBudgetHeld
  <2>8. CASE k \in KeptActions(now) \/ t < now
    <3>1. Later(t) \subseteq MinuteTo(t)
      BY <1>0, <2>2, <2>3, <2>5, <2>8 DEF MinuteTo
    <3>2. Cardinality(Later(t)) <= Cardinality(MinuteTo(t)) /\ Cardinality(Later(t)) \in Nat
      BY <1>3, <3>1, FS_Subset, FS_CardinalityType
    <3>. HIDE DEF Later
    <3>. QED
      BY <1>0, <1>3, <1>4, <3>2
  <2>9. CASE k \notin KeptActions(now) /\ now <= t
    <3>1. Later(t) \subseteq Recent(now) \cup {k}
      BY <1>0, <1>1, <2>2, <2>3, <2>5, <2>9 DEF Recent
    <3>. HIDE DEF Later
    <3>2. /\ IsFiniteSet(Recent(now) \cup {k})
          /\ Cardinality(Recent(now) \cup {k}) <= Cardinality(Recent(now)) + 1
          /\ Cardinality(Recent(now) \cup {k}) \in Nat
      BY <2>6, FS_AddElement, FS_CardinalityType
    <3>3. /\ Cardinality(Later(t)) <= Cardinality(Recent(now) \cup {k})
          /\ Cardinality(Later(t)) \in Nat
      BY <3>1, <3>2, FS_Subset, FS_CardinalityType
    <3>. QED
      BY <1>0, <2>4, <2>6, <2>9, <3>2, <3>3
  <2>. QED
    BY <2>2, <2>8, <2>9
<1>8. ASSUME NEW c \in Calls,
             \/ \E k \in Keys : BeginPublic(c, k)
             \/ LockAndCount(c) \/ FindSale(c) \/ ReserveDemo(c) \/ Lose(c)
      PROVE  UNCHANGED public_demo_actions
  BY <1>8 DEF BeginPublic, LockAndCount, FindSale, ReserveDemo, Lose
<1>9. ASSUME Elsewhere \/ UNCHANGED demoVars
      PROVE  UNCHANGED public_demo_actions
  BY <1>9, ElsewhereKeeps DEF demo
<1>. QED
  BY <1>5, <1>6, <1>7, <1>8, <1>9, DemoTime DEF DemoNext

-----------------------------------------------------------------------------
(***************************************************************************)
(* A day of retries.  A purge deletes a key only after its expires_at,     *)
(* which is a day after the grant began: as long as the day lasts the key  *)
(* is there, and while it is there a call under it is answered from it.    *)
(***************************************************************************)
LEMMA StepResponseKept ==
  ASSUME DemoTables, DemoTypeOK, ResponseKept, [DemoNext]_demoVars
  PROVE  ResponseKept'
<1>0. clock \in Nat /\ clock' \in Nat /\ clock <= clock' /\ Day \in Nat
  BY DemoTime, DemoAssumption
<1>1. \A k \in Keys : \A r \in DOMAIN grants[k] :
        grants[k][r].began \in Nat /\ grants[k][r].made \in Nat
  BY DEF DemoTypeOK, GrantsTypeOK, IsTable, GrantRow
<1>2. key_expires \in [DOMAIN key_expires -> Nat]
  BY DEF DemoTypeOK, ExpiriesTypeOK, IsTable
\* A row that is there, or has had its day.
<1>3. ASSUME UNCHANGED grants,
             \A k \in DOMAIN key_expires :
               \/ k \in DOMAIN key_expires' /\ key_expires'[k] = key_expires[k]
               \/ key_expires[k] < clock
      PROVE  ResponseKept'
  <2>1. SUFFICES ASSUME NEW k \in Keys, NEW r \in DOMAIN grants[k]
                 PROVE  /\ grants[k][r].made <= clock'
                        /\ \/ grants[k][r].began + Day < clock'
                           \/ /\ k \in DOMAIN key_expires'
                              /\ grants[k][r].began + Day <= key_expires'[k]
    BY <1>3 DEF ResponseKept
  <2>2. grants[k][r].began \in Nat /\ grants[k][r].made \in Nat /\ grants[k][r].made <= clock
    BY <1>1 DEF ResponseKept
  <2>3. CASE grants[k][r].began + Day < clock
    BY <1>0, <2>2, <2>3
  <2>4. CASE k \in DOMAIN key_expires /\ grants[k][r].began + Day <= key_expires[k]
    <3>1. key_expires[k] \in Nat
      BY <1>2, <2>4
    <3>. QED
      BY <1>0, <1>3, <2>2, <2>4, <3>1
  <2>. QED
    BY <2>3, <2>4 DEF ResponseKept
<1>4. CASE UNCHANGED <<grants, key_expires>>
  BY <1>3, <1>4
<1>5. ASSUME NEW c \in Calls, CommitAdmission(c)
      PROVE  ResponseKept'
  <2> DEFINE now == calls[c].now
  <2>1. calls[c].at = "admit" /\ UNCHANGED grants
        /\ key_expires' = Restrict(key_expires, KeptKeys(now))
    BY <1>5 DEF CommitAdmission
  <2>2. now \in Nat /\ now <= clock
    BY <2>1, CallWaits, CallUnderWay
  <2>3. /\ DOMAIN key_expires' = KeptKeys(now)
        /\ \A k \in KeptKeys(now) : key_expires'[k] = key_expires[k]
    BY <2>1 DEF Restrict
  <2>. HIDE DEF now
  <2>4. ASSUME NEW k \in DOMAIN key_expires
        PROVE  \/ k \in DOMAIN key_expires' /\ key_expires'[k] = key_expires[k]
               \/ key_expires[k] < clock
    <3>1. CASE k \in KeptKeys(now)
      BY <2>3, <3>1
    <3>2. CASE k \notin KeptKeys(now)
      <4>1. key_expires[k] \in Nat /\ ~ (key_expires[k] >= now)
        BY <1>2, <3>2 DEF KeptKeys
      <4>. QED
        BY <1>0, <2>2, <4>1
    <3>. QED
      BY <3>1, <3>2
  <2>. QED
    BY <1>3, <2>1, <2>4
<1>6. ASSUME NEW c \in Calls, NEW k, k = calls[c].key, NEW e,
             k \notin DOMAIN idempotency_keys,
             key_expires' = Insert(key_expires, k, e)
      PROVE  /\ DOMAIN key_expires' = DOMAIN key_expires \cup {k}
             /\ k \notin DOMAIN key_expires
             /\ key_expires'[k] = e
             /\ \A j \in DOMAIN key_expires : key_expires'[j] = key_expires[j]
  <2>1. k \notin DOMAIN key_expires
    BY <1>6 DEF DemoTypeOK, ExpiriesTypeOK
  <2>. QED
    BY <1>6, <2>1 DEF Insert
<1>7. ASSUME NEW c \in Calls, NEW r \in ReservationIDs, DemoGrant(c, r)
      PROVE  ResponseKept'
  <2> DEFINE k == calls[c].key
             now == calls[c].now
             row == [began |-> now, made |-> clock]
  <2>1. now \in Nat /\ now <= clock /\ clock' = clock
    <3>1. calls[c].at = "reserve" /\ clock' = clock
      BY <1>7 DEF DemoGrant, Grant
    <3>. QED
      BY <3>1, CallWaits, CallUnderWay
  <2>2. k \notin DOMAIN idempotency_keys /\ key_expires' = Insert(key_expires, k, now + Day)
    BY <1>7 DEF DemoGrant, Grant
  <2>3. /\ k \in Keys
        /\ \A j \in Keys : j # k => grants'[j] = grants[j]
        /\ DOMAIN grants'[k] = DOMAIN grants[k] \cup {r}
        /\ \A x \in DOMAIN grants[k] \cup {r} :
             grants'[k][x] = IF x = r THEN row ELSE grants[k][x]
    BY <1>0, <1>7, GrantAdded
  <2>4. row.began = now /\ row.made = clock
    OBVIOUS
  <2>. HIDE DEF k, now, row
  <2>5. /\ DOMAIN key_expires' = DOMAIN key_expires \cup {k}
        /\ k \notin DOMAIN key_expires
        /\ key_expires'[k] = now + Day
        /\ \A j \in DOMAIN key_expires : key_expires'[j] = key_expires[j]
    BY <1>6, <2>2 DEF k
  <2>6. SUFFICES ASSUME NEW j \in Keys, NEW x \in DOMAIN grants'[j]
                 PROVE  /\ grants'[j][x].made <= clock
                        /\ \/ grants'[j][x].began + Day < clock
                           \/ /\ j \in DOMAIN key_expires'
                              /\ grants'[j][x].began + Day <= key_expires'[j]
    BY <2>1, <2>6 DEF ResponseKept
  <2>7. CASE j = k /\ x = r
    BY <1>0, <2>1, <2>3, <2>4, <2>5, <2>7
  <2>8. CASE ~ (j = k /\ x = r)
    <3>1. x \in DOMAIN grants[j] /\ grants'[j][x] = grants[j][x]
      BY <2>3, <2>8
    <3>. QED
      BY <2>5, <3>1 DEF ResponseKept
  <2>. QED
    BY <2>7, <2>8
<1>8. ASSUME NEW c \in Calls, ReserveDemo(c)
      PROVE  ResponseKept'
  <2> DEFINE k == calls[c].key
             e == calls[c].now + Day
  <2>1. CASE UNCHANGED <<grants, key_expires>>
    BY <1>4, <2>1
  <2>2. ASSUME NEW req, Refused(k, req), UNCHANGED grants, key_expires' = Insert(key_expires, k, e)
        PROVE  ResponseKept'
    <3>1. k \notin DOMAIN idempotency_keys
      BY <2>2 DEF Refused, Refuse
    <3>. HIDE DEF k, e
    <3>2. /\ DOMAIN key_expires' = DOMAIN key_expires \cup {k}
          /\ \A j \in DOMAIN key_expires : key_expires'[j] = key_expires[j]
      BY <1>6, <2>2, <3>1 DEF k
    <3>. QED
      BY <1>3, <2>2, <3>2
  <2>3. ASSUME NEW r \in ReservationIDs, DemoGrant(c, r)
        PROVE  ResponseKept'
    BY <1>7, <2>3
  <2>4. \/ UNCHANGED <<grants, key_expires>>
        \/ /\ Refused(k, DemoRequest(calls[c].sale, k))
           /\ UNCHANGED grants /\ key_expires' = Insert(key_expires, k, e)
        \/ \E r \in ReservationIDs : DemoGrant(c, r)
    BY <1>8 DEF ReserveDemo, DemoGrant
  <2>. HIDE DEF k, e
  <2>. QED
    BY <2>1, <2>2, <2>3, <2>4
<1>9. ASSUME NEW c \in Calls,
             \/ \E k \in Keys : BeginPublic(c, k)
             \/ LockAndCount(c) \/ FindSale(c) \/ Lose(c)
      PROVE  UNCHANGED <<grants, key_expires>>
  BY <1>9 DEF BeginPublic, LockAndCount, FindSale, Lose
<1>10. ASSUME Elsewhere \/ UNCHANGED demoVars
       PROVE  UNCHANGED <<grants, key_expires>>
  BY <1>10, ElsewhereKeeps DEF demo
<1>. QED
  BY <1>4, <1>5, <1>8, <1>9, <1>10 DEF DemoNext

\* A grant comes only to a key that has no row: the earlier ones had their day.
LEMMA StepOneGrant ==
  ASSUME DemoTables, DemoTypeOK, ResponseKept, OneGrantADay, [DemoNext]_demoVars
  PROVE  OneGrantADay'
<1>0. clock \in Nat /\ Day \in Nat
  BY DemoTime, DemoAssumption
<1>1. CASE UNCHANGED grants
  BY <1>1 DEF OneGrantADay
<1>2. ASSUME NEW c \in Calls, NEW r \in ReservationIDs, DemoGrant(c, r)
      PROVE  OneGrantADay'
  <2> DEFINE k == calls[c].key
             row == [began |-> calls[c].now, made |-> clock]
  <2>1. /\ k \in Keys
        /\ \A j \in Keys : j # k => grants'[j] = grants[j]
        /\ DOMAIN grants'[k] = DOMAIN grants[k] \cup {r}
        /\ \A x \in DOMAIN grants[k] \cup {r} :
             grants'[k][x] = IF x = r THEN row ELSE grants[k][x]
    BY <1>0, <1>2, GrantAdded
  <2>2. k \notin DOMAIN key_expires
    BY <1>2 DEF DemoGrant, Grant, DemoTypeOK, ExpiriesTypeOK
  <2>3. row.made = clock
    OBVIOUS
  <2>. HIDE DEF k, row
  <2>4. \A x \in DOMAIN grants[k] : clock > grants[k][x].began + Day
    <3>1. \A x \in DOMAIN grants[k] : grants[k][x].began \in Nat
      BY <2>1 DEF DemoTypeOK, GrantsTypeOK, IsTable, GrantRow
    <3>. QED
      BY <1>0, <2>1, <2>2, <3>1 DEF ResponseKept
  <2>5. SUFFICES ASSUME NEW j \in Keys, NEW x \in DOMAIN grants'[j], NEW y \in DOMAIN grants'[j],
                        x # y
                 PROVE  \/ grants'[j][y].made > grants'[j][x].began + Day
                        \/ grants'[j][x].made > grants'[j][y].began + Day
    BY <2>5 DEF OneGrantADay
  <2>6. CASE j = k /\ x = r
    BY <2>1, <2>3, <2>4, <2>5, <2>6
  <2>7. CASE j = k /\ y = r
    BY <2>1, <2>3, <2>4, <2>5, <2>7
  <2>8. CASE j # k \/ (x # r /\ y # r)
    <3>1. /\ x \in DOMAIN grants[j] /\ grants'[j][x] = grants[j][x]
          /\ y \in DOMAIN grants[j] /\ grants'[j][y] = grants[j][y]
      BY <2>1, <2>8
    <3>. QED
      BY <2>5, <3>1 DEF OneGrantADay
  <2>. QED
    BY <2>6, <2>7, <2>8
<1>. QED
  BY <1>1, <1>2, GrantsChange

-----------------------------------------------------------------------------
(***************************************************************************)
(* One unit.  What is granted under a key belongs to the key's user, of    *)
(* whom the only sale's limit is one.                                      *)
(***************************************************************************)
LEMMA StepOwned ==
  ASSUME DemoTables, DemoTypeOK, GrantsOwned, [DemoNext]_demoVars
  PROVE  GrantsOwned'
<1>0. clock \in Nat /\ TablesTypeOK
  BY DemoTime DEF DemoTables
<1>1. ASSUME NEW k, NEW req, NEW r, Grant(k, req, r)
      PROVE  /\ DOMAIN reservations' = DOMAIN reservations \cup {r}
             /\ r \notin DOMAIN reservations
             /\ reservations'[r].user_id = req.user_id
             /\ reservations'[r].spelling = req.spelling
             /\ \A i \in DOMAIN reservations : reservations'[i] = reservations[i]
  BY <1>1 DEF Grant, Insert
<1>2. \/ \E r : Expire({r})
      \/ UNCHANGED reservations
      \/ \E k, req, r : Grant(k, req, r)
  <2>1. ASSUME NEW c \in Calls,
               \/ \E k \in Keys : BeginPublic(c, k)
               \/ LockAndCount(c) \/ CommitAdmission(c) \/ FindSale(c) \/ Lose(c)
        PROVE  UNCHANGED reservations
    BY <2>1 DEF BeginPublic, LockAndCount, CommitAdmission, FindSale, Lose, ledgerVars, tables
  <2>2. ASSUME NEW c \in Calls, ReserveDemo(c)
        PROVE  UNCHANGED reservations \/ \E k, req, r : Grant(k, req, r)
    <3>1. ASSUME NEW k, NEW req, Refused(k, req)
          PROVE  UNCHANGED reservations
      BY <3>1 DEF Refused, Refuse
    <3>. QED
      BY <2>2, <3>1 DEF ReserveDemo, ledgerVars, tables
  <2>3. ASSUME Tick \/ UNCHANGED demoVars
        PROVE  UNCHANGED reservations
    BY <2>3 DEF Tick, demoVars, ledgerVars, tables
  <2>. QED
    BY <2>1, <2>2, <2>3 DEF DemoNext, Elsewhere
<1>3. \A i \in DOMAIN reservations :
        /\ i \in DOMAIN reservations'
        /\ reservations'[i].user_id = reservations[i].user_id
        /\ reservations'[i].spelling = reservations[i].spelling
  <2>1. ASSUME NEW r, Expire({r})
        PROVE  SameRows(reservations')
    BY <1>0, <2>1, StateUpdates DEF Expire
  <2>. QED
    BY <1>1, <1>2, <2>1 DEF SameRows
<1>4. CASE UNCHANGED grants
  BY <1>3, <1>4 DEF GrantsOwned
<1>5. ASSUME NEW c \in Calls, NEW r \in ReservationIDs, DemoGrant(c, r)
      PROVE  GrantsOwned'
  <2> DEFINE k == calls[c].key
             req == DemoRequest(calls[c].sale, k)
  <2>1. /\ k \in Keys
        /\ \A j \in Keys : j # k => grants'[j] = grants[j]
        /\ DOMAIN grants'[k] = DOMAIN grants[k] \cup {r}
    BY <1>0, <1>5, GrantAdded
  <2>2. Grant(k, req, r) /\ req.user_id = UserFor(k) /\ req.spelling = Canonical
    BY <1>5 DEF DemoGrant, DemoRequest
  <2>. HIDE DEF k, req
  <2>3. /\ r \in DOMAIN reservations'
        /\ reservations'[r].user_id = UserFor(k) /\ reservations'[r].spelling = Canonical
    BY <1>1, <2>2, ZenonT(30)
  <2>. QED
    BY <1>3, <2>1, <2>3 DEF GrantsOwned, UserFor
<1>. QED
  BY <1>4, <1>5, GrantsChange

\* Two active reservations of a user and a spelling come to two units at least.
LEMMA TwoUnits ==
  ASSUME TablesTypeOK, NEW s, NEW x, NEW u,
         NEW r \in OfUserAs(reservations, s, x, u, Active),
         NEW q \in OfUserAs(reservations, s, x, u, Active), r # q
  PROVE  Sum(reservations, OfUserAs(reservations, s, x, u, Active)) >= 2
<1> DEFINE A == OfUserAs(reservations, s, x, u, Active)
<1>1. A \subseteq DOMAIN reservations /\ r \in A /\ q \in A
  BY DEF OfUserAs, OfUser, OfSale
<1>2. IsFiniteSet(A)
  BY <1>1, RowsFinite
<1>3. /\ reservations[r].quantity \in 1..MaxQuantity
      /\ reservations[q].quantity \in 1..MaxQuantity
  BY <1>1 DEF TablesTypeOK, IsTable, ReservationRow
<1>. HIDE DEF A
<1>4. Sum(reservations, {r}) >= 1 /\ Sum(reservations, {q}) >= 1
  <2>1. /\ Sum(reservations, {r}) = reservations[r].quantity
        /\ Sum(reservations, {q}) = reservations[q].quantity
    BY <1>3, SumOne
  <2>. QED
    BY <1>3, <2>1, SchemaAssumption
<1>5. Sum(reservations, {r} \cup {q}) = Sum(reservations, {r}) + Sum(reservations, {q})
  <2>1. IsFiniteSet({r}) /\ IsFiniteSet({q})
    BY FS_Singleton
  <2>2. {r} \cap {q} = {}
    OBVIOUS
  <2>. QED
    BY <2>1, <2>2, SumDisjoint
<1>6. Sum(reservations, {r} \cup {q}) <= Sum(reservations, A)
  BY <1>1, <1>2, SumMinus
<1>7. /\ Sum(reservations, {r}) \in Nat /\ Sum(reservations, {q}) \in Nat
      /\ Sum(reservations, A) \in Nat
  BY <1>2, SumType, FS_Singleton
<1>8. Sum(reservations, A) >= 2
  <2>1. PICK m, n, k : /\ m = Sum(reservations, {r}) /\ n = Sum(reservations, {q})
                       /\ k = Sum(reservations, A)
    OBVIOUS
  <2>2. m + n <= k
    BY <1>5, <1>6, <2>1
  <2>3. m \in Nat /\ n \in Nat /\ k \in Nat /\ m >= 1 /\ n >= 1
    BY <1>4, <1>7, <2>1
  <2>4. k >= 2
    BY <2>2, <2>3
  <2>. QED
    BY <2>1, <2>4
<1>. QED
  BY <1>8 DEF A

LEMMA OwnedOnce ==
  ASSUME DemoTables, DemoTypeOK, GrantsOwned
  PROVE  OneUnitPerKey
<1>1. SUFFICES ASSUME NEW k \in Keys, NEW r \in DOMAIN grants[k], NEW q \in DOMAIN grants[k],
                      reservations[r].state \in Active, reservations[q].state \in Active,
                      r # q
               PROVE  FALSE
  BY <1>1 DEF OneUnitPerKey
<1>2. PICK s \in Sales : SeedSales = {s} /\ MaxPerUser[s] = 1
  BY DemoSaleAssumption
<1>3. /\ r \in DOMAIN reservations
      /\ reservations[r].user_id = k /\ reservations[r].spelling = Canonical
      /\ q \in DOMAIN reservations
      /\ reservations[q].user_id = k /\ reservations[q].spelling = Canonical
  BY DEF GrantsOwned, UserFor
<1>4. reservations[r].sale_id = s /\ reservations[q].sale_id = s
  BY <1>2, <1>3 DEF DemoTables, TablesTypeOK
<1>5. /\ r \in OfUserAs(reservations, s, Canonical, k, Active)
      /\ q \in OfUserAs(reservations, s, Canonical, k, Active)
  BY <1>1, <1>3, <1>4 DEF OfUserAs, OfUser, OfSale
<1>6. Sum(reservations, OfUserAs(reservations, s, Canonical, k, Active)) >= 2
  BY <1>1, <1>5, TwoUnits DEF DemoTables
<1>7. Sum(reservations, OfUserAs(reservations, s, Canonical, k, Active)) <= 1
  BY <1>2, DemoAssumption DEF DemoTables, SpelledLimitHeld
<1>8. IsFiniteSet(OfUserAs(reservations, s, Canonical, k, Active))
  <2>1. OfUserAs(reservations, s, Canonical, k, Active) \subseteq DOMAIN reservations
    BY DEF OfUserAs, OfUser, OfSale
  <2>. QED
    BY <2>1, RowsFinite DEF DemoTables
<1>9. Sum(reservations, OfUserAs(reservations, s, Canonical, k, Active)) \in Nat
  BY <1>8, SumType
<1>. QED
  BY <1>6, <1>7, <1>9

-----------------------------------------------------------------------------
LEMMA DemoStart == DemoInit => PublicInv
<1>. SUFFICES ASSUME DemoInit
              PROVE  PublicInv
  OBVIOUS
<1>0. /\ TablesInit
      /\ public_demo_actions = NoRows
      /\ key_expires = NoRows
      /\ calls = [c \in Calls |-> Returned]
      /\ grants = [k \in Keys |-> NoRows]
  BY DEF DemoInit
<1>1. DemoTables
  <2>1. LedgerInv
    BY <1>0, InitLedgerInv
  <2>2. DOMAIN flash_sales = SeedSales
    BY <1>0 DEF TablesInit
  <2>. QED
    BY <2>1, <2>2 DEF LedgerInv, DemoTables
<1>2. DOMAIN NoRows = {} /\ \A Ids, Row : IsTable(NoRows, Ids, Row)
  BY DEF NoRows, IsTable
<1>3. clock = 0 /\ DOMAIN idempotency_keys = {}
  BY <1>0, <1>2 DEF TablesInit
<1>4. DemoTypeOK
  <2>1. ActionsTypeOK /\ ExpiriesTypeOK
    BY <1>0, <1>2, <1>3, FS_EmptySet DEF ActionsTypeOK, ExpiriesTypeOK
  <2>2. CallsTypeOK
    BY <1>0 DEF CallsTypeOK, CallOK
  <2>3. GrantsTypeOK
    BY <1>0, <1>2 DEF GrantsTypeOK
  <2>. QED
    BY <2>1, <2>2, <2>3 DEF DemoTypeOK
<1>5. CountStands
  BY <1>0 DEF CountStands, Returned
<1>6. PublicBudgetHeld
  <2>1. \A t : {k \in DOMAIN public_demo_actions :
                  t - Minute < public_demo_actions[k] /\ public_demo_actions[k] <= t} = {}
    BY <1>0, <1>2
  <2>2. 0 <= MaxPerMinute
    BY DemoAssumption
  <2>. QED
    BY <2>1, <2>2, FS_EmptySet DEF PublicBudgetHeld
<1>7. ResponseKept /\ OneGrantADay /\ GrantsOwned
  BY <1>0, <1>2 DEF ResponseKept, OneGrantADay, GrantsOwned
<1>. QED
  BY <1>1, <1>4, <1>5, <1>6, <1>7 DEF PublicInv

\* PublicInv holds in every state of the public demo.
THEOREM PublicDemoCorrect == DemoSpec => []PublicInv
<1>1. PublicInv /\ [DemoNext]_demoVars => PublicInv'
  BY StepDemoTables, StepDemoType, StepCount, StepBudget, StepResponseKept, StepOneGrant,
     StepOwned
  DEF PublicInv
<1>. QED
  BY <1>1, DemoStart, PTL DEF DemoSpec

(***************************************************************************)
(* ReservePublicDemo keeps to its budget in every minute, for any number   *)
(* of processes and visitors, although a transaction may wait for the      *)
(* advisory lock as long as it likes after now() was fixed.                *)
(***************************************************************************)
THEOREM PublicBudget == DemoSpec => []PublicBudgetHeld
<1>1. PublicInv => PublicBudgetHeld
  BY DEF PublicInv
<1>. QED
  BY <1>1, PublicDemoCorrect, PTL

(***************************************************************************)
(* An Idempotency-Key gets no second reservation within a day of the       *)
(* beginning of the call that got the first, whoever's calls purge.        *)
(***************************************************************************)
THEOREM RetriesForADay == DemoSpec => []OneGrantADay
<1>1. PublicInv => OneGrantADay
  BY DEF PublicInv
<1>. QED
  BY <1>1, PublicDemoCorrect, PTL

(***************************************************************************)
(* A key never holds two units, even after its row has been purged: from   *)
(* the one sale ResetDemo seeds, with max_quantity_per_user = 1, and the   *)
(* purchase limit that Store.Reserve enforces.                             *)
(***************************************************************************)
THEOREM OneUnitEach == DemoSpec => []OneUnitPerKey
<1>1. PublicInv => OneUnitPerKey
  BY OwnedOnce DEF PublicInv
<1>. QED
  BY <1>1, PublicDemoCorrect, PTL
=============================================================================
