------------------------------- MODULE MCStore -------------------------------
(* Values of Store's constants for TLC. *)
EXTENDS Store, TLC

CONSTANTS p1, p2, s1, s2, u1, u2, lower, upper

\* Requests that write the sale's id in lower case, and in upper case.
ReqAs(x, s, u, q) == [sale_id |-> s, spelling |-> x, user_id |-> u, quantity |-> q]
Req(s, u, q) == ReqAs(lower, s, u, q)

\* One product with one sale of its whole stock.
OneSaleProduct == s1 :> p1
OneSaleAllocated2 == s1 :> 2
OneSaleLimit1 == s1 :> 1
OneSaleLimit2 == s1 :> 2
OneSaleOpens == s1 :> 0
OneSaleOpensAt1 == s1 :> 1
OneSaleClosesAt2 == s1 :> 2
OneSaleNeverCloses == s1 :> 9
OneStock2 == p1 :> 2

OneUnitRequests == {Req(s1, u1, 1)}
SpelledRequests == {ReqAs(lower, s1, u1, 1), ReqAs(upper, s1, u1, 1)}
OneSaleBothUnits == {Req(s1, u1, 2)}
LifeRequests == {Req(s1, u1, 1), Req(s1, u2, 2)}
CatalogRequests == {Req(s1, u1, 1), Req(s1, u2, 2)}

\* One product with two sales that allocate more than its stock between them.
TwoSaleProduct == (s1 :> p1) @@ (s2 :> p1)
TwoSaleAllocated == (s1 :> 2) @@ (s2 :> 1)
TwoSaleLimit == (s1 :> 2) @@ (s2 :> 1)
TwoSaleOpens == (s1 :> 0) @@ (s2 :> 0)
TwoSaleCloses == (s1 :> 1) @@ (s2 :> 9)

\* Two sales that share the stock exactly.
SharedAllocated == (s1 :> 1) @@ (s2 :> 1)

\* For the races: one sale whose limit is not what stops a user, and one whose is.
RaceAllocated == (s1 :> 3) @@ (s2 :> 2)
RaceLimit == (s1 :> 4) @@ (s2 :> 1)

TwoSaleRequests == {Req(s1, u1, 2), Req(s2, u2, 1), ReqAs(upper, s2, u2, 1)}
ExpireRequests == {Req(s1, u1, 1), Req(s2, u2, 1)}

KeySymmetric ==
  Permutations(Sessions) \cup Permutations(Keys) \cup Permutations(PaymentKeys)
=============================================================================
