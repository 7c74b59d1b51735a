---------------------------- MODULE TablesProofs ----------------------------
(***************************************************************************)
(* Facts about sums of quantities, on which the proofs about the tables    *)
(* rest.  A sum is the cardinality of a set of <<reservation, unit>>       *)
(* pairs, so each fact is one about finite sets.  The last two are about   *)
(* the rows of reservations that well-typed, reconciled tables hold.       *)
(***************************************************************************)
EXTENDS Tables, FiniteSetTheorems, TLAPS

\* The sum over a finite set of rows is a natural number.
LEMMA SumType ==
  ASSUME NEW t, NEW S, IsFiniteSet(S)
  PROVE  IsFiniteSet(Units(t, S)) /\ Sum(t, S) \in Nat
<1>1. IsFiniteSet(1..MaxQuantity)
  BY FS_Interval, SchemaAssumption
<1>2. IsFiniteSet(S \X (1..MaxQuantity))
  BY <1>1, FS_Product
<1>3. Units(t, S) \in SUBSET (S \X (1..MaxQuantity))
  BY DEF Units
<1>4. IsFiniteSet(Units(t, S))
  BY <1>2, <1>3, FS_Subset
<1>. QED
  BY <1>4, FS_CardinalityType DEF Sum

\* The sum over no rows (COALESCE(sum(quantity),0)) is 0.
LEMMA SumEmpty ==
  ASSUME NEW t
  PROVE  Sum(t, {}) = 0
<1>1. Units(t, {}) = {}
  BY DEF Units
<1>. QED
  BY <1>1, FS_EmptySet DEF Sum

\* The sum depends on nothing but the quantities of the rows.
LEMMA SumAgree ==
  ASSUME NEW t, NEW u, NEW S, \A r \in S : t[r].quantity = u[r].quantity
  PROVE  Sum(t, S) = Sum(u, S)
<1>1. Units(t, S) = Units(u, S)
  BY DEF Units
<1>. QED
  BY <1>1 DEF Sum

\* The sum over one row is its quantity.
LEMMA SumOne ==
  ASSUME NEW t, NEW r, t[r].quantity \in 1..MaxQuantity
  PROVE  Sum(t, {r}) = t[r].quantity
<1> DEFINE q == t[r].quantity
<1>1. Units(t, {r}) = {r} \X (1..q)
  BY SchemaAssumption DEF Units
<1>5. q \in Int /\ 1 \in Int /\ ~ (1 > q) /\ q - 1 + 1 = q
  BY SchemaAssumption
<1>2. IsFiniteSet(1..q) /\ Cardinality(1..q) = q
  <2>1. Cardinality(1..q) = IF 1 > q THEN 0 ELSE q - 1 + 1
    BY <1>5, FS_Interval
  <2>2. IsFiniteSet(1..q)
    BY <1>5, FS_Interval
  <2>. QED
    BY <1>5, <2>1, <2>2
<1>3. IsFiniteSet({r}) /\ Cardinality({r}) = 1
  BY FS_Singleton
<1>4. Cardinality({r} \X (1..q)) = 1 * q
  BY <1>2, <1>3, FS_Product, ZenonT(30)
<1>6. 1 * q = q
  BY <1>5
<1>. QED
  BY <1>1, <1>4, <1>6 DEF Sum

\* Sums over disjoint sets of rows add up.
LEMMA SumDisjoint ==
  ASSUME NEW t, NEW S, NEW T, IsFiniteSet(S), IsFiniteSet(T), S \cap T = {}
  PROVE  Sum(t, S \cup T) = Sum(t, S) + Sum(t, T)
<1>1. Units(t, S \cup T) = Units(t, S) \cup Units(t, T)
  BY DEF Units
<1>2. Units(t, S) \cap Units(t, T) = {}
  BY DEF Units
<1>3. /\ IsFiniteSet(Units(t, S))
      /\ IsFiniteSet(Units(t, T))
      /\ Sum(t, S) \in Nat
      /\ Sum(t, T) \in Nat
  BY SumType
<1>4. Cardinality(Units(t, S) \cup Units(t, T)) =
        Cardinality(Units(t, S)) + Cardinality(Units(t, T)) - Cardinality({})
  BY <1>2, <1>3, FS_Union
<1>5. Cardinality({}) = 0
  BY FS_EmptySet
<1>6. Sum(t, S \cup T) = Sum(t, S) + Sum(t, T) - 0
  BY <1>1, <1>4, <1>5 DEF Sum
<1>. QED
  BY <1>3, <1>6

\* One more row adds its quantity.
LEMMA SumAdd ==
  ASSUME NEW t, NEW S, NEW r, IsFiniteSet(S), r \notin S,
         t[r].quantity \in 1..MaxQuantity
  PROVE  Sum(t, S \cup {r}) = Sum(t, S) + t[r].quantity
<1>1. IsFiniteSet({r}) /\ S \cap {r} = {}
  BY FS_Singleton
<1>2. Sum(t, S \cup {r}) = Sum(t, S) + Sum(t, {r})
  BY <1>1, SumDisjoint
<1>3. Sum(t, {r}) = t[r].quantity
  BY SumOne
<1>. QED
  BY <1>2, <1>3

\* Leaving rows out takes their sum away, and never gains.
LEMMA SumMinus ==
  ASSUME NEW t, NEW S, IsFiniteSet(S), NEW T, T \subseteq S
  PROVE  /\ Sum(t, S \ T) = Sum(t, S) - Sum(t, T)
         /\ Sum(t, T) <= Sum(t, S)
<1>1. IsFiniteSet(S \ T) /\ IsFiniteSet(T)
  BY FS_Difference, FS_Subset
<1>2. (S \ T) \cap T = {} /\ (S \ T) \cup T = S
  OBVIOUS
<1>3. Sum(t, (S \ T) \cup T) = Sum(t, S \ T) + Sum(t, T)
  BY <1>1, <1>2, SumDisjoint
<1>4. Sum(t, S) = Sum(t, S \ T) + Sum(t, T)
  BY <1>2, <1>3, Zenon
<1>5. Sum(t, S \ T) \in Nat /\ Sum(t, T) \in Nat
  BY <1>1, SumType
<1>. QED
  BY <1>4, <1>5

\* Sets of rows are finite: ids are 16 bytes.
LEMMA RowsFinite ==
  ASSUME TablesTypeOK, NEW S, S \subseteq DOMAIN reservations
  PROVE  IsFiniteSet(S)
  BY FS_Subset, SchemaAssumption DEF TablesTypeOK, IsTable

\* The units that reservations of S hold of a product are among its reserved.
LEMMA HeldIsReserved ==
  ASSUME TablesTypeOK, InventoryReconciled, NEW p \in DOMAIN inventory, NEW S,
         S \subseteq OfProduct(reservations, p, Holding)
  PROVE  /\ Sum(reservations, S) \in Nat
         /\ Sum(reservations, S) <= inventory[p].reserved
<1> DEFINE H == OfProduct(reservations, p, Holding)
<1>1. H \subseteq DOMAIN reservations
  BY DEF OfProduct
<1>2. IsFiniteSet(H) /\ IsFiniteSet(S)
  BY <1>1, RowsFinite
<1>3. Sum(reservations, S) <= Sum(reservations, H)
  BY <1>2, SumMinus
<1>4. inventory[p].reserved = Sum(reservations, H)
  BY DEF InventoryReconciled
<1>5. Sum(reservations, S) \in Nat
  BY <1>2, SumType
<1>. QED
  BY <1>3, <1>4, <1>5
=============================================================================
