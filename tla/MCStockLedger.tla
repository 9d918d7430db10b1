---------------------------- MODULE MCStockLedger ----------------------------
(***************************************************************************)
(* StockLedger for TLC: two terminals on one dish.                         *)
(***************************************************************************)
EXTENDS StockLedger, TLC

CONSTANTS q1, q2

TwoReqs == {q1, q2}
MCCounts == {0, 2}
\* A portion sold, a tray wasted, a portion returned.
MCDeltas == {-1, -3, 1}

RowSymmetry == Permutations(Reqs)
=============================================================================
