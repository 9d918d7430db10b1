---------------------------- MODULE MCCartServer ----------------------------
(***************************************************************************)
(* CartServer for TLC: two restaurants, one with three dishes, and two     *)
(* requests at a time.  The third dish finds the basket full.              *)
(***************************************************************************)
EXTENDS CartServer, TLC

CONSTANTS q1, q2, v1, v2, d1, d2, d3, d4

TwoReqs == {q1, q2}
TwoVendors == {v1, v2}
FourDishes == {d1, d2, d3, d4}
MCVendorOf == [d \in Dishes |-> IF d = d4 THEN v2 ELSE v1]

\* One dish runs out before a line is full, the others do not.
MCStock == [d \in Dishes |-> IF d = d2 THEN 1 ELSE 3]

RowSymmetry == Permutations(Reqs) \union Permutations({d1, d3})
=============================================================================
