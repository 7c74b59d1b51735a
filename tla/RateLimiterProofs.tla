-------------------------- MODULE RateLimiterProofs --------------------------
(***************************************************************************)
(* The token bucket's budget and the reasons of its refusals, for every    *)
(* number of clients, every size of the table, every rate and every burst. *)
(***************************************************************************)
EXTENDS RateLimiter, FiniteSetTheorems, TLAPS

(***************************************************************************)
(* WithinBudget is not inductive: what a client may still spend is in its  *)
(* bucket.  The tokens left in a bucket, added to what was spent, stay     *)
(* within the budget of the time the bucket was last touched; a client     *)
(* without a bucket could have a full one and still be within its budget.  *)
(***************************************************************************)
LimiterInv ==
  /\ clock \in Nat
  /\ buckets \in [DOMAIN buckets -> Bucket]
  /\ grants \in [Clients -> Seq(Nat)]
  /\ \A c \in Clients \cap DOMAIN buckets :
       /\ buckets[c].last <= clock
       /\ \A i \in 1..Len(grants[c]) :
            Spent(c, i) + buckets[c].tokens + grants[c][i] <= Burst + buckets[c].last
  /\ \A c \in Clients \ DOMAIN buckets : \A i \in 1..Len(grants[c]) :
       Spent(c, i) + grants[c][i] <= clock

\* The assumption in the form the arithmetic below uses.
LEMMA Sizes == Cost \in Nat /\ Burst \in Nat /\ IdleAfter \in Nat /\ 0 < Cost
  BY LimiterAssumption

\* The arithmetic of a bucket left alone since `last`, apart from the rest.
LEMMA LeftAlone ==
  ASSUME NEW x \in Int, NEW tokens \in Nat, NEW y \in Int, NEW z \in Int,
         x + tokens <= y, y <= z
  PROVE  x <= z
  OBVIOUS

LEMMA Refilled ==
  ASSUME NEW x \in Nat, NEW tokens \in Nat, NEW last \in Nat,
         NEW found \in Nat, NEW now \in Nat,
         x + tokens <= Burst + last, found + last <= tokens + now
  PROVE  x + found <= Burst + now
  BY Sizes

\* The cost of the requests from the i-th on grows by one request's cost.
LEMMA SpentMore ==
  ASSUME NEW n \in Nat, NEW i \in 1..n
  PROVE  /\ Cost * (n - i + 1) \in Nat
         /\ Cost * (n + 1 - i + 1) = Cost * (n - i + 1) + Cost
         /\ Cost * (n + 1 - (n + 1) + 1) = Cost
  BY SMT, Sizes

(***************************************************************************)
(* Allow on any table it may find: whether the bucket was there, is new or *)
(* was evicted, the tokens found keep what was spent within the budget.    *)
(***************************************************************************)
LEMMA TokensFound ==
  ASSUME LimiterInv, IdleAfter >= Burst, NEW c \in Clients
  PROVE  /\ Room(c) \in [DOMAIN Room(c) -> Bucket]
         /\ DOMAIN Room(c) \subseteq DOMAIN buckets
         /\ \A d \in DOMAIN Room(c) : Room(c)[d] = buckets[d]
         /\ \A d \in Clients \ DOMAIN Room(c) : \A i \in 1..Len(grants[d]) :
              Spent(d, i) + grants[d][i] <= clock
         /\ Tokens(c, Room(c)) \in 0..Burst
         /\ \A i \in 1..Len(grants[c]) :
              Spent(c, i) + Tokens(c, Room(c)) + grants[c][i] <= Burst + clock
<1>. USE Sizes
<1>1. /\ Room(c) \in [DOMAIN Room(c) -> Bucket]
      /\ DOMAIN Room(c) \subseteq DOMAIN buckets
      /\ \A d \in DOMAIN Room(c) : Room(c)[d] = buckets[d]
      /\ \A d \in DOMAIN buckets \ DOMAIN Room(c) : buckets[d].last < clock - IdleAfter
  BY DEF LimiterInv, Room, RemoveIdle, Bucket
<1>2. ASSUME NEW d \in Clients, NEW i \in 1..Len(grants[d])
      PROVE  /\ Len(grants[d]) \in Nat
             /\ grants[d][i] \in Nat
             /\ Spent(d, i) \in Nat
  <2>1. grants[d] \in Seq(Nat)
    BY DEF LimiterInv
  <2>. QED
    BY <2>1, SpentMore DEF Spent
<1>3. ASSUME NEW d \in Clients \ DOMAIN Room(c), NEW i \in 1..Len(grants[d])
      PROVE  Spent(d, i) + grants[d][i] <= clock
  <2>1. CASE d \notin DOMAIN buckets
    BY <2>1 DEF LimiterInv
  <2>2. CASE d \in DOMAIN buckets
    <3>1. buckets[d].last < clock - IdleAfter
      BY <1>1, <2>2
    <3>2. buckets[d] \in Bucket
      BY <2>2 DEF LimiterInv
    <3>3. Spent(d, i) + buckets[d].tokens + grants[d][i] <= Burst + buckets[d].last
      BY <2>2 DEF LimiterInv
    <3>4. /\ grants[d][i] \in Nat /\ Spent(d, i) \in Nat /\ clock \in Nat
          /\ buckets[d].tokens \in Nat /\ buckets[d].last \in Nat
      BY <1>2, <3>2, SMTT(30) DEF Bucket, LimiterInv
    <3>5. Burst + buckets[d].last <= clock
      BY <3>1, <3>4
    <3>. QED
      <4>. DEFINE x == Spent(d, i) + grants[d][i]
      <4>1. x \in Int /\ x + buckets[d].tokens <= Burst + buckets[d].last
        BY <3>3, <3>4, SMTT(30)
      <4>. HIDE DEF x
      <4>2. x <= clock
        BY <3>4, <3>5, <4>1, LeftAlone
      <4>. QED
        BY <4>2 DEF x
  <2>. QED
    BY <2>1, <2>2
<1>4. CASE c \in DOMAIN Room(c)
  <2>1. /\ Room(c)[c] = buckets[c]
        /\ buckets[c] \in Bucket
        /\ buckets[c].last <= clock
        /\ clock \in Nat
    BY <1>1, <1>4 DEF LimiterInv
  <2>2. /\ Tokens(c, Room(c)) \in 0..Burst
        /\ Tokens(c, Room(c)) + buckets[c].last <= buckets[c].tokens + clock
    BY <1>4, <2>1 DEF Tokens, Refill, Least, Bucket
  <2>3. \A i \in 1..Len(grants[c]) :
          Spent(c, i) + buckets[c].tokens + grants[c][i] <= Burst + buckets[c].last
    BY <1>1, <1>4 DEF LimiterInv
  <2>4. \A i \in 1..Len(grants[c]) :
          Spent(c, i) + Tokens(c, Room(c)) + grants[c][i] <= Burst + clock
    <3>. SUFFICES ASSUME NEW i \in 1..Len(grants[c])
                  PROVE  Spent(c, i) + Tokens(c, Room(c)) + grants[c][i] <= Burst + clock
      OBVIOUS
    <3>1. /\ grants[c][i] \in Nat /\ Spent(c, i) \in Nat
          /\ buckets[c].tokens \in Nat /\ buckets[c].last \in Nat
          /\ Tokens(c, Room(c)) \in Nat
      BY <1>2, <2>1, <2>2 DEF Bucket
    <3>2. Spent(c, i) + buckets[c].tokens + grants[c][i] <= Burst + buckets[c].last
      BY <2>3
    <3>3. /\ Tokens(c, Room(c)) + buckets[c].last <= buckets[c].tokens + clock
          /\ clock \in Nat /\ Burst \in Nat
      BY <2>1, <2>2
    <3>. DEFINE x == Spent(c, i) + grants[c][i]
    <3>4. x \in Nat /\ x + buckets[c].tokens <= Burst + buckets[c].last
      BY <3>1, <3>2, <3>3, SMTT(30)
    <3>. HIDE DEF x
    <3>5. x + Tokens(c, Room(c)) <= Burst + clock
      BY <3>1, <3>3, <3>4, Refilled, SMTT(60)
    <3>. QED
      BY <3>1, <3>3, <3>5 DEF x
  <2>. QED
    BY <1>1, <1>3, <2>2, <2>4
<1>5. CASE c \notin DOMAIN Room(c)
  <2>1. Tokens(c, Room(c)) = Burst
    BY <1>5 DEF Tokens
  <2>2. \A i \in 1..Len(grants[c]) :
          Spent(c, i) + Tokens(c, Room(c)) + grants[c][i] <= Burst + clock
    <3>. SUFFICES ASSUME NEW i \in 1..Len(grants[c])
                  PROVE  Spent(c, i) + Tokens(c, Room(c)) + grants[c][i] <= Burst + clock
      OBVIOUS
    <3>1. grants[c][i] \in Nat /\ Spent(c, i) \in Nat /\ clock \in Nat
      BY <1>2 DEF LimiterInv
    <3>. QED
      BY <1>3, <1>5, <2>1, <3>1
  <2>. QED
    BY <1>1, <1>3, <2>1, <2>2
<1>. QED
  BY <1>4, <1>5

\* What Allow does to the buckets and to the grants, case by case.
LEMMA AllowStep ==
  ASSUME LimiterInv, IdleAfter >= Burst, NEW c \in Clients, Allow(c)
  PROVE  LimiterInv'
<1>. USE Sizes
<1>0. /\ clock \in Nat /\ clock' = clock
      /\ grants \in [Clients -> Seq(Nat)]
  BY DEF LimiterInv, Allow
<1>1. CASE Full(c, Room(c))
  <2>1. buckets' = Room(c) /\ grants' = grants
    BY <1>1 DEF Allow
  <2>. QED
    BY <1>0, <2>1, TokensFound DEF LimiterInv, Spent
<1>2. CASE ~ Full(c, Room(c))
  <2>. DEFINE n == Tokens(c, Room(c))
              m == IF n >= Cost THEN n - Cost ELSE n
  <2>1. n \in 0..Burst /\ m \in 0..Burst
    BY TokensFound
  <2>2. buckets' = Put(Room(c), c, m)
    BY <1>2 DEF Allow
  <2>3. grants' = IF n >= Cost THEN [grants EXCEPT ![c] = Append(@, clock)] ELSE grants
    BY <1>2 DEF Allow
  <2>. HIDE DEF n, m
  <2>4. /\ buckets' \in [DOMAIN buckets' -> Bucket]
        /\ DOMAIN buckets' = DOMAIN Room(c) \cup {c}
        /\ buckets'[c] = [tokens |-> m, last |-> clock]
        /\ \A d \in DOMAIN Room(c) \ {c} : buckets'[d] = buckets[d]
    BY <1>0, <2>1, <2>2, TokensFound DEF Put, Bucket
  <2>5. grants' \in [Clients -> Seq(Nat)]
    BY <1>0, <2>3
  <2>6. ASSUME NEW i \in 1..Len(grants'[c])
        PROVE  Spent(c, i)' + m + grants'[c][i] <= Burst + clock
    <3>1. grants[c] \in Seq(Nat) /\ Len(grants[c]) \in Nat
      BY <1>0
    <3>2. \A j \in 1..Len(grants[c]) : grants[c][j] \in Nat /\ Spent(c, j) \in Nat
      BY <3>1, SpentMore DEF Spent
    <3>3. \A j \in 1..Len(grants[c]) : Spent(c, j) + n + grants[c][j] <= Burst + clock
      BY TokensFound DEF n
    <3>4. CASE n < Cost
      BY <2>1, <2>3, <3>3, <3>4 DEF m, Spent
    <3>5. CASE n >= Cost
      <4>1. grants'[c] = Append(grants[c], clock)
        BY <1>0, <2>3, <3>5
      <4>2. /\ Len(grants'[c]) = Len(grants[c]) + 1
            /\ grants'[c][Len(grants[c]) + 1] = clock
            /\ \A j \in 1..Len(grants[c]) : grants'[c][j] = grants[c][j]
        BY <1>0, <3>1, <4>1
      <4>3. CASE i = Len(grants[c]) + 1
        <5>1. Spent(c, i)' = Cost
          BY <3>1, <4>2, <4>3 DEF Spent
        <5>. QED
          BY <1>0, <2>1, <3>5, <4>2, <4>3, <5>1 DEF m
      <4>4. CASE i \in 1..Len(grants[c])
        <5>1. Spent(c, i)' = Spent(c, i) + Cost
          BY <3>1, <4>2, <4>4, SpentMore DEF Spent
        <5>. QED
          BY <1>0, <2>1, <3>2, <3>3, <3>5, <4>2, <4>4, <5>1 DEF m
      <4>. QED
        BY <3>1, <4>2, <4>3, <4>4
    <3>. QED
      BY <2>1, <3>4, <3>5
  <2>7. ASSUME NEW d \in Clients \ {c}, NEW i \in 1..Len(grants'[d])
        PROVE  grants'[d] = grants[d] /\ Spent(d, i)' = Spent(d, i)
    BY <1>0, <2>3 DEF Spent
  <2>8. \A d \in Clients \cap DOMAIN buckets' :
          /\ buckets'[d].last <= clock'
          /\ \A i \in 1..Len(grants'[d]) :
               Spent(d, i)' + buckets'[d].tokens + grants'[d][i]
                 <= Burst + buckets'[d].last
    <3>1. CASE c \in DOMAIN buckets'
      BY <1>0, <2>4, <2>6, <2>7, TokensFound, SMTT(30) DEF LimiterInv
    <3>. QED
      BY <2>4, <3>1
  <2>9. \A d \in Clients \ DOMAIN buckets' : \A i \in 1..Len(grants'[d]) :
          Spent(d, i)' + grants'[d][i] <= clock'
    BY <1>0, <2>4, <2>7, TokensFound
  <2>. QED
    BY <1>0, <2>4, <2>5, <2>8, <2>9 DEF LimiterInv
<1>. QED
  BY <1>1, <1>2

(***************************************************************************)
(* Limiter.Allow never serves a client more than a burst and what the time *)
(* since refilled, evictions included, when ten idle minutes refill a      *)
(* bucket.                                                                 *)
(***************************************************************************)
THEOREM BudgetHeld == Spec => []WithinBudget
<1>. USE Sizes
<1>1. CASE IdleAfter >= Burst
  <2>1. Init => LimiterInv
    BY DEF Init, LimiterInv, Clients, Bucket
  <2>2. LimiterInv /\ [Next]_vars => LimiterInv'
    <3>. SUFFICES ASSUME LimiterInv, [Next]_vars PROVE LimiterInv'
      OBVIOUS
    <3>1. CASE Tick
      <4>1. /\ clock \in Nat /\ clock' = clock + 1
            /\ buckets' = buckets /\ grants' = grants
        BY <3>1 DEF Tick, LimiterInv
      <4>2. \A c \in Clients : \A i \in 1..Len(grants[c]) :
              grants[c][i] \in Nat /\ Spent(c, i) \in Nat /\ Spent(c, i)' = Spent(c, i)
        <5>1. \A c \in Clients : grants[c] \in Seq(Nat)
          BY DEF LimiterInv
        <5>. QED
          BY <4>1, <5>1, SpentMore DEF Spent
      <4>. QED
        BY <4>1, <4>2 DEF LimiterInv, Bucket
    <3>2. ASSUME NEW remote \in Clients, NEW forwarded \in Clients,
                 Allow(ClientIP(remote, forwarded))
          PROVE  LimiterInv'
      <4>1. ClientIP(remote, forwarded) \in Clients
        BY DEF ClientIP
      <4>. QED
        BY <1>1, <3>2, <4>1, AllowStep
    <3>3. CASE UNCHANGED vars
      BY <3>3 DEF vars, LimiterInv, Spent
    <3>. QED
      BY <3>1, <3>2, <3>3 DEF Next
  <2>3. LimiterInv => WithinBudget
    <3>. SUFFICES ASSUME LimiterInv, NEW c \in Clients, NEW i \in 1..Len(grants[c])
                  PROVE  Spent(c, i) <= Burst + (clock - grants[c][i])
      BY DEF WithinBudget
    <3>1. /\ grants[c] \in Seq(Nat) /\ Len(grants[c]) \in Nat
          /\ grants[c][i] \in Nat /\ Spent(c, i) \in Nat /\ clock \in Nat
      <4>1. grants[c] \in Seq(Nat) /\ clock \in Nat
        BY DEF LimiterInv
      <4>. QED
        BY <4>1, SpentMore DEF Spent
    <3>2. CASE c \in DOMAIN buckets
      <4>1. buckets[c] \in Bucket /\ buckets[c].last <= clock
        BY <3>2 DEF LimiterInv
      <4>2. Spent(c, i) + buckets[c].tokens + grants[c][i] <= Burst + buckets[c].last
        BY <3>2 DEF LimiterInv
      <4>3. buckets[c].tokens \in Nat /\ buckets[c].last \in Nat
        BY <4>1 DEF Bucket
      <4>. QED
        <5>. DEFINE x == Spent(c, i) + grants[c][i]
        <5>1. x \in Int /\ x + buckets[c].tokens <= Burst + buckets[c].last
          BY <3>1, <4>2, <4>3, SMTT(60)
        <5>2. Burst + buckets[c].last <= Burst + clock
          BY <3>1, <4>1, <4>3
        <5>. HIDE DEF x
        <5>3. x <= Burst + clock
          BY <3>1, <4>3, <5>1, <5>2, LeftAlone, SMTT(30)
        <5>. QED
          BY <3>1, <5>3, SMTT(30) DEF x
    <3>3. CASE c \notin DOMAIN buckets
      <4>1. Spent(c, i) + grants[c][i] <= clock
        BY <3>3 DEF LimiterInv
      <4>. QED
        BY <3>1, <4>1, SMTT(30)
    <3>. QED
      BY <3>2, <3>3
  <2>. QED
    BY <2>1, <2>2, <2>3, PTL DEF Spec
<1>2. CASE ~ (IdleAfter >= Burst)
  <2>1. WithinBudget
    BY <1>2 DEF WithinBudget
  <2>. QED
    BY <2>1, PTL
<1>. QED
  BY <1>1, <1>2

-----------------------------------------------------------------------------
(***************************************************************************)
(* Why a client is refused.  A bucket that is not full was last full just  *)
(* before one of its client's served requests, and everything spent since  *)
(* is missing from it: nobody else's requests are.                         *)
(***************************************************************************)
Tight(c) ==
  \/ buckets[c].tokens = Burst
  \/ \E i \in 1..Len(grants[c]) :
       Spent(c, i) + buckets[c].tokens + grants[c][i] >= Burst + buckets[c].last

RefusalInv ==
  /\ TypeOK
  /\ IsFiniteSet(DOMAIN buckets)
  /\ \A c \in DOMAIN buckets : buckets[c].last <= clock /\ Tight(c)
  /\ answer.at <= clock
  /\ RefusedForItsOwn

\* The table a client finds is part of the table there was.
LEMMA RoomFound ==
  ASSUME RefusalInv, NEW c \in Clients
  PROVE  /\ Room(c) \in [DOMAIN Room(c) -> Bucket]
         /\ DOMAIN Room(c) \subseteq DOMAIN buckets
         /\ \A d \in DOMAIN Room(c) : Room(c)[d] = buckets[d]
         /\ IsFiniteSet(DOMAIN Room(c))
         /\ Cardinality(DOMAIN Room(c)) \in Nat
         /\ Cardinality(DOMAIN Room(c)) <= MaxClients
         /\ Full(c, Room(c)) => \A d \in DOMAIN Room(c) : clock - buckets[d].last <= IdleAfter
<1>. USE Sizes
<1>1. buckets \in [DOMAIN buckets -> Bucket] /\ clock \in Nat
  BY DEF RefusalInv, TypeOK
<1>2. /\ Room(c) \in [DOMAIN Room(c) -> Bucket]
      /\ DOMAIN Room(c) \subseteq DOMAIN buckets
      /\ \A d \in DOMAIN Room(c) : Room(c)[d] = buckets[d]
  BY <1>1 DEF Room, RemoveIdle
<1>3. /\ IsFiniteSet(DOMAIN Room(c))
      /\ Cardinality(DOMAIN Room(c)) <= Cardinality(DOMAIN buckets)
  BY <1>2, FS_Subset DEF RefusalInv
<1>4. Cardinality(DOMAIN Room(c)) \in Nat /\ Cardinality(DOMAIN buckets) \in Nat
  BY <1>3, FS_CardinalityType DEF RefusalInv
<1>5. Cardinality(DOMAIN Room(c)) <= MaxClients
  BY <1>3, <1>4, LimiterAssumption DEF RefusalInv, TypeOK
<1>6. ASSUME Full(c, Room(c)), NEW d \in DOMAIN Room(c)
      PROVE  clock - buckets[d].last <= IdleAfter
  <2>1. Room(c) = RemoveIdle(clock - IdleAfter)
    BY <1>6 DEF Room
  <2>2. d \in DOMAIN buckets /\ buckets[d].last >= clock - IdleAfter
    BY <1>6, <2>1 DEF RemoveIdle
  <2>3. buckets[d].last \in Nat
    BY <1>1, <2>2 DEF Bucket
  <2>. QED
    BY <1>1, <2>2, <2>3
<1>. QED
  BY <1>2, <1>3, <1>4, <1>5, <1>6

\* The arithmetic of a bucket that the time since `last` has not filled.
LEMMA StillTight ==
  ASSUME NEW x \in Int, NEW tokens \in Int, NEW last \in Int, NEW now \in Int,
         x + tokens >= Burst + last
  PROVE  x + (tokens + (now - last)) >= Burst + now
  BY Sizes

LEMMA ServedTight ==
  ASSUME NEW x \in Int, NEW g \in Int, NEW tokens \in Int, NEW y \in Int,
         x + g + tokens >= y
  PROVE  (x + Cost) + (tokens - Cost) + g >= y
  BY Sizes

LEMMA RefusalStep ==
  ASSUME RefusalInv, NEW c \in Clients, Allow(c)
  PROVE  RefusalInv'
<1>. USE Sizes
<1> DEFINE table == Room(c)
           n == Tokens(c, table)
           m == IF n >= Cost THEN n - Cost ELSE n
<1>0. /\ clock \in Nat /\ clock' = clock /\ grants \in [Clients -> Seq(Nat)]
      /\ DOMAIN buckets \subseteq Clients /\ MaxClients \in Nat \ {0}
      /\ \A d \in DOMAIN buckets :
           buckets[d] \in Bucket /\ buckets[d].last <= clock /\ Tight(d)
  BY LimiterAssumption DEF RefusalInv, TypeOK, Allow
<1>1. /\ table \in [DOMAIN table -> Bucket]
      /\ DOMAIN table \subseteq DOMAIN buckets
      /\ \A d \in DOMAIN table : table[d] = buckets[d]
      /\ IsFiniteSet(DOMAIN table)
      /\ Cardinality(DOMAIN table) \in Nat
      /\ Cardinality(DOMAIN table) <= MaxClients
      /\ Full(c, table) => \A d \in DOMAIN table : clock - buckets[d].last <= IdleAfter
  BY RoomFound
<1>2. answer' = [client |-> c, at |-> clock, served |-> ~ Full(c, table) /\ n >= Cost]
  BY DEF Allow
<1>3. CASE Full(c, table)
  <2>1. /\ buckets' = table /\ grants' = grants
        /\ answer' = [client |-> c, at |-> clock, served |-> FALSE]
    <3>1. buckets' = table /\ grants' = grants
      BY <1>3 DEF Allow
    <3> HIDE DEF table, n
    <3>. QED
      BY <1>2, <1>3, <3>1
  <2>2. c \notin DOMAIN table /\ Cardinality(DOMAIN table) = MaxClients
    BY <1>0, <1>1, <1>3 DEF Full
  <2>3. DOMAIN table \ {c} = DOMAIN table
    BY <2>2
  <2>4. \A d \in DOMAIN table : Tight(d)'
    BY <1>0, <1>1, <2>1 DEF Tight, Spent
  <2>5. TypeOK'
    <3>1. answer' \in [client : Clients, at : Nat, served : BOOLEAN]
      BY <1>0, <2>1
    <3>. QED
      BY <1>0, <1>1, <2>1, <3>1 DEF TypeOK
  <2>6. RefusedForItsOwn'
    BY <1>0, <1>1, <1>3, <2>1, <2>2, <2>3 DEF RefusedForItsOwn
  <2>. QED
    BY <1>0, <1>1, <2>1, <2>4, <2>5, <2>6 DEF RefusalInv
<1>4. CASE ~ Full(c, table)
  <2>1. /\ buckets' = Put(table, c, m)
        /\ grants' = IF n >= Cost THEN [grants EXCEPT ![c] = Append(@, clock)] ELSE grants
        /\ answer' = [client |-> c, at |-> clock, served |-> n >= Cost]
    BY <1>4 DEF Allow
  <2>2. /\ n \in 0..Burst
        /\ \/ n = Burst
           \/ c \in DOMAIN table /\ n = buckets[c].tokens + (clock - buckets[c].last)
    BY <1>0, <1>1 DEF Tokens, Refill, Least, Bucket
  <2>3. m \in 0..Burst
    BY <2>2
  <2> HIDE DEF n, m, table
  <2>4. /\ buckets' \in [DOMAIN buckets' -> Bucket]
        /\ DOMAIN buckets' = DOMAIN table \cup {c}
        /\ buckets'[c] = [tokens |-> m, last |-> clock]
        /\ \A d \in DOMAIN table \ {c} : buckets'[d] = buckets[d]
    BY <1>0, <1>1, <2>1, <2>3 DEF Put, Bucket
  <2>5. IsFiniteSet(DOMAIN buckets') /\ Cardinality(DOMAIN buckets') <= MaxClients
    <3>1. CASE c \in DOMAIN table
      <4>1. DOMAIN buckets' = DOMAIN table
        BY <2>4, <3>1
      <4>. QED
        BY <1>1, <4>1
    <3>2. CASE c \notin DOMAIN table
      <4>1. Cardinality(DOMAIN table) < MaxClients
        BY <1>0, <1>1, <1>4, <3>2 DEF Full
      <4>2. /\ IsFiniteSet(DOMAIN table \cup {c})
            /\ Cardinality(DOMAIN table \cup {c}) = Cardinality(DOMAIN table) + 1
        BY <1>1, <3>2, FS_AddElement
      <4>. QED
        BY <1>0, <1>1, <2>4, <4>1, <4>2
    <3>. QED
      BY <3>1, <3>2
  <2>6. grants' \in [Clients -> Seq(Nat)]
    BY <1>0, <2>1
  <2>7. TypeOK'
    <3>1. answer' \in [client : Clients, at : Nat, served : BOOLEAN]
      BY <1>0, <2>1
    <3>. QED
      BY <1>0, <1>1, <2>4, <2>5, <2>6, <3>1 DEF TypeOK
  <2>8. \A d \in DOMAIN table \ {c} : Tight(d)'
    <3>1. \A d \in DOMAIN table \ {c} : grants'[d] = grants[d]
      BY <1>0, <1>1, <2>1
    <3>. QED
      BY <1>0, <1>1, <2>4, <3>1 DEF Tight, Spent
  <2>9. \/ m = Burst
        \/ \E i \in 1..Len(grants'[c]) : Spent(c, i)' + m + grants'[c][i] >= Burst + clock
    <3>1. grants[c] \in Seq(Nat) /\ Len(grants[c]) \in Nat
      BY <1>0
    <3>2. \A j \in 1..Len(grants[c]) : grants[c][j] \in Nat /\ Spent(c, j) \in Nat
      BY <3>1, SpentMore DEF Spent
    <3>3. \/ n = Burst
          \/ \E j \in 1..Len(grants[c]) : Spent(c, j) + grants[c][j] + n >= Burst + clock
      <4>1. CASE n = Burst
        BY <4>1
      <4>2. CASE n # Burst
        <5>1. c \in DOMAIN table /\ n = buckets[c].tokens + (clock - buckets[c].last)
          BY <2>2, <4>2
        <5>2. buckets[c].tokens \in Int /\ buckets[c].last \in Int /\ buckets[c].last <= clock
          BY <1>0, <1>1, <5>1 DEF Bucket
        <5>3. buckets[c].tokens # Burst
          BY <1>0, <2>2, <4>2, <5>1, <5>2
        <5>4. PICK j \in 1..Len(grants[c]) :
                Spent(c, j) + buckets[c].tokens + grants[c][j] >= Burst + buckets[c].last
          BY <1>0, <1>1, <5>1, <5>3 DEF Tight
        <5> DEFINE x == Spent(c, j) + grants[c][j]
        <5>5. x \in Int /\ x + buckets[c].tokens >= Burst + buckets[c].last
          BY <3>2, <5>2, <5>4
        <5> HIDE DEF x
        <5>6. x + n >= Burst + clock
          <6>1. x + (buckets[c].tokens + (clock - buckets[c].last)) >= Burst + clock
            BY <1>0, <5>2, <5>5, StillTight, SMTT(30)
          <6>. QED
            BY <5>1, <6>1
        <5>. QED
          BY <5>6 DEF x
      <4>. QED
        BY <4>1, <4>2
    <3>4. CASE n < Cost
      BY <1>0, <2>1, <2>2, <3>2, <3>3, <3>4 DEF m, Spent
    <3>5. CASE n >= Cost
      <4>1. grants'[c] = Append(grants[c], clock)
        BY <1>0, <2>1, <3>5
      <4>2. /\ Len(grants'[c]) = Len(grants[c]) + 1
            /\ grants'[c][Len(grants[c]) + 1] = clock
            /\ \A j \in 1..Len(grants[c]) : grants'[c][j] = grants[c][j]
        BY <1>0, <3>1, <4>1
      <4>3. CASE n = Burst
        <5>0. PICK i \in Nat : i = Len(grants[c]) + 1
          BY <3>1
        <5>1. i \in 1..Len(grants'[c]) /\ Spent(c, i)' = Cost
          BY <3>1, <4>2, <5>0 DEF Spent
        <5>2. Spent(c, i)' + m + grants'[c][i] >= Burst + clock
          BY <1>0, <3>5, <4>2, <4>3, <5>0, <5>1 DEF m
        <5>. QED
          BY <5>1, <5>2
      <4>4. ASSUME NEW j \in 1..Len(grants[c]),
                   Spent(c, j) + grants[c][j] + n >= Burst + clock
            PROVE  \E i \in 1..Len(grants'[c]) :
                     Spent(c, i)' + m + grants'[c][i] >= Burst + clock
        <5>1. j \in 1..Len(grants'[c]) /\ Spent(c, j)' = Spent(c, j) + Cost
          BY <3>1, <4>2, SpentMore DEF Spent
        <5>2. Spent(c, j)' + m + grants'[c][j] >= Burst + clock
          <6>1. m = n - Cost /\ n \in Int /\ Spent(c, j) \in Int /\ grants[c][j] \in Int
            BY <2>2, <3>2, <3>5 DEF m
          <6> DEFINE x == Spent(c, j)
                     g == grants[c][j]
                     y == Burst + clock
          <6>2. x \in Int /\ g \in Int /\ y \in Int /\ x + g + n >= y
            BY <1>0, <4>4, <6>1
          <6>. HIDE DEF x, g, y, n
          <6>3. (x + Cost) + (n - Cost) + g >= y
            BY <6>1, <6>2, ServedTight
          <6>. QED
            BY <4>2, <5>1, <6>1, <6>3 DEF x, g, y
        <5>. QED
          BY <5>1, <5>2
      <4>. QED
        BY <3>3, <4>3, <4>4
    <3>. QED
      BY <2>2, <3>4, <3>5
  <2>10. Tight(c)'
    BY <2>4, <2>9 DEF Tight
  <2>11. RefusedForItsOwn'
    <3>. SUFFICES ASSUME ~ answer'.served
                  PROVE  \E i \in 1..Len(grants'[c]) :
                           Spent(c, i)' + Cost > Burst + (clock - grants'[c][i])
      BY <1>0, <2>1 DEF RefusedForItsOwn
    <3>0. answer'.served = (n >= Cost)
      BY <2>1
    <3>1. n < Cost /\ m = n /\ m # Burst /\ grants' = grants
      <4>1. ~ (n >= Cost)
        BY <3>0
      <4>2. grants' = grants
        BY <2>1, <4>1
      <4>3. Burst >= Cost
        BY LimiterAssumption
      <4>. QED
        BY <2>2, <4>1, <4>2, <4>3 DEF m
    <3>2. PICK i \in 1..Len(grants'[c]) : Spent(c, i)' + m + grants'[c][i] >= Burst + clock
      BY <2>9, <3>1
    <3>3. grants'[c][i] \in Nat /\ Spent(c, i)' \in Nat
      <4>1. grants'[c] \in Seq(Nat) /\ Len(grants'[c]) \in Nat
        BY <2>6
      <4>. QED
        BY <4>1, SpentMore, SMTT(30) DEF Spent
    <3>4. Cost \in Nat /\ Burst \in Nat /\ clock \in Nat /\ m \in Nat
      BY <1>0, <2>2, <3>1
    <3>5. Spent(c, i)' + Cost > Burst + (clock - grants'[c][i])
      <4> DEFINE sp == Spent(c, i)'
                 gr == grants'[c][i]
      <4>1. sp \in Nat /\ gr \in Nat /\ sp + m + gr >= Burst + clock /\ m < Cost
        BY <3>1, <3>2, <3>3
      <4> HIDE DEF sp, gr, m
      <4>2. sp + Cost > Burst + (clock - gr)
        BY <3>4, <4>1
      <4>. QED
        BY <4>2 DEF sp, gr
    <3>. QED
      BY <3>5, Zenon
  <2>. QED
    BY <1>0, <1>1, <2>1, <2>4, <2>5, <2>7, <2>8, <2>10, <2>11 DEF RefusalInv
<1>. QED
  BY <1>3, <1>4

LEMMA RefusalCorrect == Spec => []RefusalInv
<1>1. Init => RefusalInv
  <2>. SUFFICES ASSUME Init PROVE RefusalInv
    OBVIOUS
  <2>1. DOMAIN buckets = {} /\ Cardinality({}) = 0 /\ IsFiniteSet({})
    BY FS_EmptySet DEF Init
  <2>2. TypeOK
    BY <2>1, LimiterAssumption DEF Init, TypeOK, Clients
  <2>. QED
    BY <2>1, <2>2 DEF Init, RefusalInv, RefusedForItsOwn
<1>2. RefusalInv /\ [Next]_vars => RefusalInv'
  <2>. SUFFICES ASSUME RefusalInv, [Next]_vars PROVE RefusalInv'
    OBVIOUS
  <2>1. CASE Tick
    <3>1. /\ clock \in Nat /\ clock' = clock + 1 /\ UNCHANGED <<buckets, grants, answer>>
          /\ answer.at \in Nat /\ answer.at <= clock
      BY <2>1 DEF Tick, RefusalInv, TypeOK
    <3>2. answer'.at # clock' /\ answer'.at <= clock'
      BY <3>1
    <3>3. \A c \in DOMAIN buckets : buckets'[c].last <= clock' /\ Tight(c)'
      BY <3>1 DEF RefusalInv, TypeOK, Bucket, Tight, Spent
    <3>4. TypeOK'
      BY <3>1 DEF RefusalInv, TypeOK
    <3>. QED
      BY <3>1, <3>2, <3>3, <3>4 DEF RefusalInv, RefusedForItsOwn
  <2>2. ASSUME NEW remote \in Clients, NEW forwarded \in Clients,
               Allow(ClientIP(remote, forwarded))
        PROVE  RefusalInv'
    <3>1. ClientIP(remote, forwarded) \in Clients
      BY DEF ClientIP
    <3>. QED
      BY <2>2, <3>1, RefusalStep
  <2>3. CASE UNCHANGED vars
    BY <2>3 DEF vars, RefusalInv, TypeOK, Tight, Spent, RefusedForItsOwn
  <2>. QED
    BY <2>1, <2>2, <2>3 DEF Next
<1>. QED
  BY <1>1, <1>2, PTL DEF Spec

\* The table never outgrows maxClients, and no bucket holds more than a burst.
THEOREM LimiterTypeCorrect == Spec => []TypeOK
<1>1. RefusalInv => TypeOK
  BY DEF RefusalInv
<1>. QED
  BY <1>1, RefusalCorrect, PTL

(***************************************************************************)
(* limiter_test.go's "one buyer must not consume another buyer's budget",  *)
(* for any number of clients: whoever is refused has spent its own budget, *)
(* or is new to a table full of clients seen in the last ten minutes.      *)
(***************************************************************************)
THEOREM RefusalsDeserved == Spec => []RefusedForItsOwn
<1>1. RefusalInv => RefusedForItsOwn
  BY DEF RefusalInv
<1>. QED
  BY <1>1, RefusalCorrect, PTL
=============================================================================
