------------------------------- MODULE Config -------------------------------
(***************************************************************************)
(* internal/config: Load turns the environment into a configuration, or    *)
(* refuses it.  An environment gives some variables a value.  Durations    *)
(* are in microseconds.  A number or duration that does not parse is       *)
(* refused like one out of range; URLs, origins and the hash of the        *)
(* administrator's key are the classes validateProduction tells apart.     *)
(***************************************************************************)
EXTENDS Integers

CONSTANT
  TimeoutLimit   \* ms: the greatest timeout PostgreSQL takes (2147483647)

ASSUME ConfigAssumption == TimeoutLimit \in Nat

Millisecond == 1000
Second == 1000 * Millisecond
Minutes(n) == n * 60 * Second

\* intValue: the fallback and the two bounds.
IntSettings ==
  [HTTP_PORT            |-> [fallback |-> 8080, min |-> 1, max |-> 65535],
   DATABASE_MAX_CONNS   |-> [fallback |-> 8,    min |-> 1, max |-> 100],
   DATABASE_MIN_CONNS   |-> [fallback |-> 1,    min |-> 0, max |-> 100],
   WORKER_BATCH_SIZE    |-> [fallback |-> 50,   min |-> 1, max |-> 1000],
   RATE_LIMIT_REQUESTS  |-> [fallback |-> 20,   min |-> 1, max |-> 100000],
   RATE_LIMIT_BURST     |-> [fallback |-> 40,   min |-> 1, max |-> 100000],
   DEMO_MAX_CONCURRENCY |-> [fallback |-> 20,   min |-> 1, max |-> 100]]

\* durationValue: the fallback.
DurationSettings ==
  [RESERVATION_TTL              |-> Minutes(2),
   DATABASE_MAX_CONN_LIFETIME   |-> Minutes(30),
   DATABASE_STATEMENT_TIMEOUT   |-> 5 * Second,
   DATABASE_TRANSACTION_TIMEOUT |-> 10 * Second,
   WORKER_POLL_INTERVAL         |-> Second,
   SHUTDOWN_TIMEOUT             |-> 10 * Second]

\* boolValue.
Flags == {"DEMO_MODE", "DEMO_RESET_ENABLED", "PUBLIC_MUTATIONS_ENABLED", "RUN_WORKER",
          "RUN_MIGRATIONS", "PUBLIC_DEMO_SEED_ENABLED"}

\* The flags and the strings: what they fall back to in the environment named.
Fallbacks(env) ==
  [DEMO_MODE                |-> env = "development",
   DEMO_RESET_ENABLED       |-> env = "development",
   PUBLIC_MUTATIONS_ENABLED |-> env = "development",
   RUN_WORKER               |-> FALSE,
   RUN_MIGRATIONS           |-> FALSE,
   PUBLIC_DEMO_SEED_ENABLED |-> FALSE,
   APP_ENV                  |-> env,
   PUBLIC_BASE_URL          |-> "none",
   DATABASE_URL             |-> "none",
   LOG_LEVEL                |-> "info",
   CORS_ALLOWED_ORIGINS     |-> {"http"},
   TRUSTED_PROXY_CIDRS      |-> {},
   ADMIN_API_KEY_HASH       |-> "none"]

Get(environ, name, fallback) == IF name \in DOMAIN environ THEN environ[name] ELSE fallback

Production(c) == c.APP_ENV = "production"

\* What the environment says, before any of it is validated.
Read(environ) ==
  LET rest == Fallbacks(Get(environ, "APP_ENV", "development")) IN
  [name \in DOMAIN IntSettings \cup DOMAIN DurationSettings \cup DOMAIN rest |->
     Get(environ, name,
         IF name \in DOMAIN IntSettings THEN IntSettings[name].fallback
         ELSE IF name \in DOMAIN DurationSettings THEN DurationSettings[name]
         ELSE rest[name])]

ValidateProduction(c) ==
  /\ c.PUBLIC_BASE_URL = "https"
  /\ c.DATABASE_URL = "tls"
  /\ c.CORS_ALLOWED_ORIGINS \subseteq {"https"}
  /\ c.LOG_LEVEL # "debug"
  /\ ~ c.DEMO_MODE /\ ~ c.DEMO_RESET_ENABLED
  /\ c.ADMIN_API_KEY_HASH = "strong"

\* Without the comparison of the two pool sizes.
LoadsUnpaired(environ) ==
  LET c == Read(environ) IN
  /\ \A name \in DOMAIN IntSettings :
       c[name] \in IntSettings[name].min .. IntSettings[name].max
  /\ \A name \in DOMAIN DurationSettings : c[name] > 0
  /\ \A name \in Flags : c[name] \in BOOLEAN
  /\ c.DATABASE_URL # "none"

\* Whether Load returns Read(environ) or an error.
Loads(environ) ==
  LET c == Read(environ) IN
  /\ \A name \in DOMAIN IntSettings :
       c[name] \in IntSettings[name].min .. IntSettings[name].max
  /\ \A name \in DOMAIN DurationSettings : c[name] > 0
  /\ \A name \in Flags : c[name] \in BOOLEAN
  /\ c.DATABASE_MIN_CONNS <= c.DATABASE_MAX_CONNS
  /\ c.TRUSTED_PROXY_CIDRS \cap {"malformed", "everything"} = {}
  /\ c.DATABASE_URL # "none"
  /\ c.CORS_ALLOWED_ORIGINS # {}
  /\ Production(c) => ValidateProduction(c)

-----------------------------------------------------------------------------
\* PoolConfig: a duration in whole milliseconds.  One of less than a millisecond
\* is sent as 0, which to PostgreSQL is no timeout.
Timeout(duration) == duration \div Millisecond

PoolConfig(c) ==
  [maxConns            |-> c.DATABASE_MAX_CONNS,
   minConns            |-> c.DATABASE_MIN_CONNS,
   statement_timeout   |-> Timeout(c.DATABASE_STATEMENT_TIMEOUT),
   transaction_timeout |-> Timeout(c.DATABASE_TRANSACTION_TIMEOUT)]

\* The pool's connections: PostgreSQL refuses each of them, the one of the ping
\* of OpenWithOptions first, when a timeout sent with it is out of its range.
Connects(options) ==
  options.statement_timeout <= TimeoutLimit /\ options.transaction_timeout <= TimeoutLimit

\* Load returns a configuration, and OpenWithOptions a pool.
Starts(environ) == Loads(environ) /\ Connects(PoolConfig(Read(environ)))
=============================================================================
