-------------------------- MODULE MCOrderAutopilot --------------------------
(***************************************************************************)
(* OrderAutopilot with the constants of MCOrderStore: two prepaid orders   *)
(* and two couriers, none, one or both of whom are on shift.               *)
(***************************************************************************)
EXTENDS MCOrderStore, OrderAutopilot
=============================================================================
