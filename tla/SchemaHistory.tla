--------------------------- MODULE SchemaHistory ---------------------------
(***************************************************************************)
(* What database.Migrate promises a deployment: the migrations are applied *)
(* one after the other in the order of their numbers, each of them once,   *)
(* none is ever taken back, and a process is told that the schema is up to *)
(* date only when every migration of its own release has been applied.     *)
(***************************************************************************)
EXTENDS Naturals, Sequences

CONSTANTS Processes, Files

VARIABLES
  applied,    \* the migrations that have taken effect, in that order
  upToDate    \* the processes whose Migrate has returned without an error

Apply ==
  /\ \E p \in Processes : Len(applied) < Files[p]
  /\ applied' = Append(applied, Len(applied) + 1)
  /\ UNCHANGED upToDate

Return(p) ==
  /\ p \notin upToDate
  /\ Files[p] <= Len(applied)
  /\ upToDate' = upToDate \cup {p}
  /\ UNCHANGED applied

Spec ==
  /\ applied = <<>> /\ upToDate = {}
  /\ [][Apply \/ \E p \in Processes : Return(p)]_<<applied, upToDate>>
=============================================================================
