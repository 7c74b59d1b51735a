---------------------------- MODULE MCPublicDemo ----------------------------
(* The seeded demo: one product and one sale of two units, one to a user. *)
EXTENDS PublicDemo, TLC

CONSTANTS p1, s1

DemoProduct == s1 :> p1
DemoUnits == s1 :> 2
DemoLimit == s1 :> 1
DemoOpens == s1 :> 0
DemoCloses == s1 :> 3
DemoStock == p1 :> 2

DemoSymmetry == Permutations(Calls) \cup Permutations(Keys) \cup Permutations(ReservationIDs)
=============================================================================
