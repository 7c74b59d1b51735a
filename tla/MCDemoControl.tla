--------------------------- MODULE MCDemoControl ---------------------------
(***************************************************************************)
(* Any two drivers, each of any kind, with two buyers for one unit.  Ids   *)
(* are numbers, drawn in order.  Sale 0 is an administrator's.             *)
(***************************************************************************)
EXTENDS DemoControl, TLC

SaleIds == 1..4

\* Those of the resets, and the administrator's sale of one unit.
AllIds == {0} \cup SaleIds
AllItself == [s \in AllIds |-> s]
OneOfAll == [s \in AllIds |-> 1]
AllOpen == [s \in AllIds |-> 0]
AllClose == [s \in AllIds |-> 9]

Ids == 11..18
AllKeys == {ProofKey} \cup ((Drivers \cup RequestIDs) \X Buyers)
AllUsers == {ProofKey} \cup (Kinds \X Buyers)

Interchangeable == Permutations(Buyers) \cup Permutations(Drivers)
=============================================================================
