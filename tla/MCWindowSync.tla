---------------------------- MODULE MCWindowSync ----------------------------
(***************************************************************************)
(* WindowSync for TLC: a store of two values, such as a dish that is on or *)
(* off the menu, in two windows.                                           *)
(***************************************************************************)
EXTENDS WindowSync, TLC

CONSTANTS w1, w2, on, off

TwoWindows == {w1, w2}
OnOrOff == {on, off}
=============================================================================
