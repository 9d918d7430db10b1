----------------------------- MODULE MCMenuBoard -----------------------------
(***************************************************************************)
(* MenuBoard for TLC: two editors, two menus, a group of up to three       *)
(* options of which a customer may be asked for two.                       *)
(***************************************************************************)
EXTENDS MenuBoard, TLC

CONSTANTS q1, q2, lunch, dinner, rice, naan, salad

TwoReqs == {q1, q2}
TwoMenus == {lunch, dinner}
ThreeOptions == {rice, naan, salad}

BoardSymmetry == Permutations(Reqs) \union Permutations(Menus) \union Permutations(Options)
=============================================================================
