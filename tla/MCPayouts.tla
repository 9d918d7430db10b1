------------------------------ MODULE MCPayouts ------------------------------
(***************************************************************************)
(* Payouts for TLC: two windows of the desk, one restaurant, one rider and *)
(* two orders, of which one was paid in cash and leaves the rider owing.   *)
(***************************************************************************)
EXTENDS Payouts, TLC

CONSTANTS w1, w2, o1, o2, v, r

TwoWindows == {w1, w2}
TwoOrders == {o1, o2}
OneVendor == {v}
OneRider == {r}
MCVendorOf == [o \in Orders |-> v]
MCRiderOf == [o \in Orders |-> r]
MCVendorNet == [o \in Orders |-> 2]
MCRiderNet == [o \in Orders |-> IF o = o1 THEN 3 ELSE -2]
MCAmounts == {-2}

RowSymmetry == Permutations(Windows)
=============================================================================
