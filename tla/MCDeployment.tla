---------------------------- MODULE MCDeployment ----------------------------
(***************************************************************************)
(* A migrate command and the worker process that waits for it, and an API  *)
(* of a later release that migrates by itself and runs a worker, over a    *)
(* pool of one connection; and the environments that set one or two        *)
(* variables at a bound or just past it, and durations around the greatest *)
(* timeout that PostgreSQL takes.                                          *)
(***************************************************************************)
EXTENDS Deployment, TLC

CONSTANTS m, w, a

OldAndNew == (m :> 1) @@ (w :> 1) @@ (a :> 2)

Roles == (m :> "migrate") @@ (w :> "worker") @@ (a :> "api")

Plain == "DATABASE_URL" :> "plain"

Environs ==
  (m :> Plain) @@ (w :> Plain)
  @@ (a :> (("RUN_MIGRATIONS" :> TRUE) @@ ("RUN_WORKER" :> TRUE)
            @@ ("DATABASE_MAX_CONNS" :> 1) @@ Plain))

AtBounds ==
  UNION {{name :> v : v \in {IntSettings[name].min - 1, IntSettings[name].min,
                             IntSettings[name].max, IntSettings[name].max + 1}}
           : name \in DOMAIN IntSettings}
  \cup UNION {{name :> v : v \in {-1, 0, 1, Millisecond - 1, Millisecond,
                                  (TimeoutLimit + 1) * Millisecond - 1,
                                  (TimeoutLimit + 1) * Millisecond}}
           : name \in DOMAIN DurationSettings}

Tried == {x @@ y @@ Plain : x, y \in AtBounds} \cup {Environs[p] : p \in Processes}
=============================================================================
