----------------------------- MODULE RateLimiter -----------------------------
(***************************************************************************)
(* internal/ratelimit and the middleware in front of every /api route: a   *)
(* token bucket per client address, in a table of at most MaxClients       *)
(* buckets from which idle ones are evicted when room is needed.  The unit *)
(* of time is the time in which a bucket gains one unit, and a request     *)
(* costs Cost units: the code's tokens are floating point, and may lie     *)
(* between two whole requests.                                             *)
(***************************************************************************)
EXTENDS Integers, Sequences, FiniteSets

CONSTANTS
  Addresses,      \* what netip.ParseAddr accepts
  Trusted,        \* the addresses in cfg.TrustedProxyCIDRs
  Unparsable,     \* a RemoteAddr or a forwarded entry ParseAddr rejects
  Cost,           \* units of one request (1 token)
  Burst,          \* l.burst in units
  IdleAfter,      \* 10 minutes in units of time
  MaxClients,     \* maxClients
  MaxTime         \* bound: the clock stops here

\* config.Load wants both RATE_LIMIT_REQUESTS and RATE_LIMIT_BURST to be at least 1.
ASSUME LimiterAssumption ==
  /\ Trusted \subseteq Addresses
  /\ Unparsable \notin Addresses
  /\ Cost \in Nat \ {0} /\ Burst \in Nat /\ Burst >= Cost
  /\ IdleAfter \in Nat
  /\ MaxClients \in Nat \ {0}
  /\ MaxTime \in Nat

VARIABLES
  clock,
  buckets,   \* l.buckets
  grants,    \* history: when each client's requests were served
  answer     \* history: the client last answered, when, and whether served

vars == <<clock, buckets, grants, answer>>

Clients == Addresses \cup {Unparsable}
Bucket  == [tokens : 0..Burst, last : Nat]

\* clientIP and rateLimit: the client a request is charged to.  Every request
\* whose remote address cannot be parsed is charged to one client, "unknown".
ClientIP(remote, forwarded) ==
  IF remote \in Trusted /\ forwarded \in Addresses THEN forwarded ELSE remote

-----------------------------------------------------------------------------
Least(a, b) == IF a < b THEN a ELSE b

\* Every bucket is evicted to make room.
RemoveAll(before) == [c \in {} |-> buckets[c]]

RemoveIdle(before) ==
  [c \in {d \in DOMAIN buckets : buckets[d].last >= before} |-> buckets[c]]

\* The refill counted in whole requests only, the rest forgotten.
RefillWhole(b) == Least(Burst, b.tokens + Cost * ((clock - b.last) \div Cost))

Refill(b) == Least(Burst, b.tokens + (clock - b.last))

\* The client's tokens as Allow finds them; a new bucket is full.
Tokens(c, table) == IF c \in DOMAIN table THEN Refill(table[c]) ELSE Burst

Put(table, c, n) ==
  [d \in DOMAIN table \cup {c} |-> IF d = c THEN [tokens |-> n, last |-> clock] ELSE table[d]]

\* One client too many.
FullOffByOne(c, table) == c \notin DOMAIN table /\ Cardinality(DOMAIN table) > MaxClients

\* There is no room for a bucket of c.
Full(c, table) == c \notin DOMAIN table /\ Cardinality(DOMAIN table) >= MaxClients

\* The table a client finds, after a removal if there is no room for it.
Room(c) == IF Full(c, buckets) THEN RemoveIdle(clock - IdleAfter) ELSE buckets

\* Allow, all of it under l.mu.
Allow(c) ==
  LET table  == Room(c)
      n      == Tokens(c, table)
      served == ~ Full(c, table) /\ n >= Cost
  IN /\ buckets' = CASE Full(c, table) -> table
                     [] served           -> Put(table, c, n - Cost)
                     [] OTHER            -> Put(table, c, n)
     /\ grants' = IF served THEN [grants EXCEPT ![c] = Append(@, clock)] ELSE grants
     /\ answer' = [client |-> c, at |-> clock, served |-> served]
     /\ UNCHANGED clock

Tick ==
  /\ clock < MaxTime
  /\ clock' = clock + 1
  /\ UNCHANGED <<buckets, grants, answer>>

Init ==
  /\ clock = 0
  /\ buckets = [c \in {} |-> [tokens |-> 0, last |-> 0]]
  /\ grants = [c \in Clients |-> <<>>]
  /\ answer = [client |-> Unparsable, at |-> 0, served |-> TRUE]

Next ==
  \/ Tick
  \/ \E remote \in Clients, forwarded \in Clients : Allow(ClientIP(remote, forwarded))

Spec == Init /\ [][Next]_vars

-----------------------------------------------------------------------------
(***************************************************************************)
(* The table never outgrows maxClients, which is what bounds the memory    *)
(* the limiter can be made to use, and no bucket holds more than a burst.  *)
(***************************************************************************)
TypeOK ==
  /\ clock \in Nat
  /\ buckets \in [DOMAIN buckets -> Bucket]
  /\ DOMAIN buckets \subseteq Clients
  /\ Cardinality(DOMAIN buckets) <= MaxClients
  /\ grants \in [Clients -> Seq(Nat)]
  /\ answer \in [client : Clients, at : Nat, served : BOOLEAN]

\* Units the i-th and all later served requests of c cost.
Spent(c, i) == Cost * (Len(grants[c]) - i + 1)

(***************************************************************************)
(* What a token bucket is for: from any served request on, a client is     *)
(* served no more than a burst and what the time since then refilled.      *)
(* Evicting a bucket and starting a full one later must not give a client  *)
(* anything: that holds as long as ten idle minutes refill a bucket, which *)
(* is so for the default 20 requests per second and a burst of 40.         *)
(***************************************************************************)
WithinBudget ==
  IdleAfter >= Burst =>
    \A c \in Clients : \A i \in 1..Len(grants[c]) :
      Spent(c, i) <= Burst + (clock - grants[c][i])

(***************************************************************************)
(* "one buyer must not consume another buyer's budget" (limiter_test.go):  *)
(* a client is refused only if one more request would exceed its own       *)
(* budget since one of its own served requests, or if it has no bucket and *)
(* the table is full of clients seen in the last ten minutes.              *)
(***************************************************************************)
RefusedForItsOwn ==
  LET c == answer.client IN
  ~ answer.served /\ answer.at = clock =>
    \/ \E i \in 1..Len(grants[c]) :
         Spent(c, i) + Cost > Burst + (clock - grants[c][i])
    \/ /\ Cardinality(DOMAIN buckets \ {c}) = MaxClients
       /\ \A d \in DOMAIN buckets : clock - buckets[d].last <= IdleAfter
=============================================================================
