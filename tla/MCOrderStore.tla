---------------------------- MODULE MCOrderStore ----------------------------
(***************************************************************************)
(* Instances of OrderStore for TLC: one or two orders, two couriers with   *)
(* different codes, ranks and zones, and prices of one or two units.       *)
(***************************************************************************)
EXTENDS OrderStore, TLC

CONSTANTS o1, o2, r1, r2

OneOrder == {o1}
TwoOrders == {o1, o2}
TwoRiders == {r1, r2}

\* The code of each courier is his own, the same on every order here; "c0" is
\* nobody's.
MCCodes == {"c0", "c1", "c2"}
MCHandoverCode == [p \in Orders \X Riders |-> IF p[2] = r1 THEN "c1" ELSE "c2"]

\* Where the question is only who carries what, the couriers are alike and nobody
\* types a wrong code.
TheCode == {"c1"}
SameCode == [p \in Orders \X Riders |-> "c1"]
SameRank == [r \in Riders |-> 1]
OneZone == [o \in Orders |-> Riders]

MCRank == [r \in Riders |-> IF r = r1 THEN 2 ELSE 1]
MCInZone == [o \in Orders |-> {r1}]

\* One cash order in hand leaves no room for a second.
MCCashLimit == [r \in Riders |-> Total]

AllKinds == Fulfillment \X Method \X BOOLEAN
CashOnly == {<<"delivery", "cash", FALSE>>}
Prepaid == {k \in AllKinds : k[2] # "cash" \/ k[1] = "pickup"}

\* Out of range on both sides, nothing, a part and the whole.
MCRefunds == {-1, 0, 1, 2, 3}
SomeRefunds == {1}
\* Two sessions: an operator, and one who only moves orders.
OrdersDesk == {"orders.manage"}
FullDesk == {"orders.manage", "refunds.manage"}

\* Bound: a rating, or a refund asked for on a failed delivery, changes nobody's
\* job, so at most one order has either.
FewAfterthoughts ==
  Cardinality({o \in Orders : orders[o].rated \/ orders[o].refund # "none"}) <= 1

\* Nothing tells the two orders apart, nor then the two couriers.
Alike == Permutations(Orders) \cup Permutations(Riders)
=============================================================================
