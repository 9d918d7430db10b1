----------------------------- MODULE OrderAutopilot -----------------------------
(***************************************************************************)
(* Nobody in the room: the orders store left to checkout, the clock and    *)
(* the demo autopilot (frontend/components/demo/demo-engine.tsx), while    *)
(* couriers go on and off shift as they like (frontend/stores/fleet.ts).   *)
(*                                                                         *)
(* Dispatch offers an order only to who is on shift and free at that tick, *)
(* so orders wait when nobody is, and compete when there are fewer         *)
(* couriers than orders.                                                   *)
(***************************************************************************)
EXTENDS OrderStore

VARIABLE offDuty    \* couriers off shift, suspended or not approved

autoVars == <<vars, offDuty>>

\* A courier who has never opened the app counts as available.
AutoInit == Init /\ offDuty = {}

\* A courier's shift begins or ends, whatever he carries.
ChangeShift(r) ==
  /\ offDuty' = IF r \in offDuty THEN offDuty \ {r} ELSE offDuty \cup {r}
  /\ UNCHANGED vars

\* One move of the engine on one order, at one tick.
TickMove(o) == AutoMove(o) /\ Stamp /\ UNCHANGED offDuty

TickDispatch(o) == AutoAssign(o, offDuty) /\ Stamp /\ UNCHANGED offDuty

Release ==
  /\ \E due \in SUBSET Orders : ReleaseScheduled(due)
  /\ Stamp
  /\ UNCHANGED offDuty

Unattended ==
  \/ Release
  \/ \E o \in Orders :
       \/ Checkout(o) /\ Stamp /\ UNCHANGED offDuty
       \/ TickMove(o)
       \/ TickDispatch(o)
  \/ \E r \in Riders : ChangeShift(r)
  \/ Midnight /\ UNCHANGED offDuty

\* The sweep and the engine run on timers of the page; nobody has to come to work.
UnattendedSpec ==
  /\ AutoInit /\ [][Unattended]_autoVars
  /\ WF_autoVars(Release)
  /\ \A o \in Orders : WF_autoVars(TickMove(o)) /\ WF_autoVars(TickDispatch(o))

-----------------------------------------------------------------------------

\* An order that has its courier is carried to its end, whoever goes off shift;
\* and if from some moment on there is always somebody on shift, be it now one
\* courier and now another, so is every order that was placed, however many wait
\* for however few (lib/order-sim.nextMove, the engine's tick).
AutopilotFinishes ==
  /\ \A o \in Orders :
       orders[o].rider # NoRider ~> orders[o].status = "completed"
  /\ <>[](offDuty # Riders) =>
       \A o \in Orders :
         orders[o].status \in {"scheduled", "placed"} ~> orders[o].status = "completed"
=============================================================================
