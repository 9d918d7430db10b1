---------------------------- MODULE OrderMachine ----------------------------
(***************************************************************************)
(* The order state machine of frontend/lib/order-machine.ts: the graph of  *)
(* statuses, who may take which edge, the guards of transition() and the   *)
(* fields it stamps, and the refund lifecycle.                             *)
(*                                                                         *)
(* Everything here is a pure operator on one order, as it is in the code.  *)
(* The surfaces and the store that call it are in OrderStore.              *)
(*                                                                         *)
(* Abstracted: timestamps are left out or become a BOOLEAN ("has been      *)
(* stamped"); reasons, notes, the prepared minutes and the event log are   *)
(* wording; the four-item handover checklist is "complete" or not; the     *)
(* list of riders who handed the job back is a set.                        *)
(***************************************************************************)
EXTENDS Integers, FiniteSets

CONSTANTS
  Orders,         \* order ids
  Riders,         \* courier ids
  NoRider,        \* lifecycle.rider = null
  Codes,          \* what can be typed at the counter
  NoCode,         \* the transition carries no handover
  HandoverCode,   \* handoverCodeFor(orderId, riderId)
  Total,          \* pricing.total
  OtpMax,         \* OTP_MAX_ATTEMPTS
  HandoverMax     \* HANDOVER_MAX_ATTEMPTS

ASSUME OrdersAssumption == IsFiniteSet(Orders)
ASSUME NoRiderAssumption == NoRider \notin Riders
ASSUME NoCodeAssumption == NoCode \notin Codes
ASSUME TotalAssumption == Total \in Nat
ASSUME AttemptsAssumption == OtpMax \in Nat /\ HandoverMax \in Nat
ASSUME HandoverCodeAssumption == HandoverCode \in [Orders \X Riders -> Codes]

-----------------------------------------------------------------------------
(* The data of one order.                                                  *)

\* Before checkout has finished there is no order, only a basket and, for a
\* while, an authorised payment; both are states of the checkout page.
NotPlaced == {"basket", "authorised"}

Status ==
  {"scheduled", "placed", "confirmed", "preparing", "packing", "ready",
   "rider-assigned", "picked-up", "on-the-way", "arrived", "delivered",
   "completed", "rejected", "cancelled", "delivery-failed", "returned",
   "refunded"}

TerminalStatuses == {"completed", "rejected", "cancelled", "returned", "refunded"}

Actor == {"customer", "restaurant", "rider", "system", "admin"}
Fulfillment == {"delivery", "pickup"}
Method == {"cash", "card", "wallet"}
RefundState == {"none", "requested", "approved", "rejected", "refunded"}

Order ==
  [ status      : Status \cup NotPlaced,
    fulfillment : Fulfillment,
    method      : Method,                \* payment.method
    payment     : {"pending", "paid", "refunded"},
    rider       : Riders \cup {NoRider},
    rejected    : SUBSET Riders,         \* rejectedRiderIds
    otp         : 0..OtpMax,             \* otpAttempts
    handover    : 0..HandoverMax,        \* handoverAttempts
    verified    : BOOLEAN,               \* handoverVerifiedAt # null
    refund      : RefundState,
    amount      : 0..Total,              \* refundAmount
    settled     : BOOLEAN,               \* refundSettledAt # null
    financials  : BOOLEAN,               \* financials # null
    rated       : BOOLEAN ]              \* rating # null

\* What a transition may carry besides its target (TransitionPatch).
Patch ==
  [ prep : BOOLEAN, rider : Riders \cup {NoRider}, code : Codes \cup {NoCode},
    checks : BOOLEAN, cash : BOOLEAN, amount : 0..Total ]

NoPatch ==
  [ prep |-> FALSE, rider |-> NoRider, code |-> NoCode, checks |-> FALSE,
    cash |-> FALSE, amount |-> 0 ]

-----------------------------------------------------------------------------
(* The graph, and who may take each edge.                                  *)

Transitions ==
  [ s \in Status |->
      CASE s = "scheduled"       -> {"placed", "cancelled"}
        [] s = "placed"          -> {"confirmed", "rejected", "cancelled"}
        [] s = "confirmed"       -> {"preparing", "cancelled"}
        [] s = "preparing"       -> {"packing", "cancelled"}
        [] s = "packing"         -> {"ready", "cancelled"}
        [] s = "ready"           -> {"rider-assigned", "delivered", "cancelled"}
        [] s = "rider-assigned"  -> {"picked-up", "ready", "cancelled"}
        [] s = "picked-up"       -> {"on-the-way"}
        [] s = "on-the-way"      -> {"arrived", "delivery-failed"}
        [] s = "arrived"         -> {"delivered", "delivery-failed"}
        [] s = "delivered"       -> {"completed"}
        [] s = "delivery-failed" -> {"on-the-way", "returned"}
        [] s \in {"rejected", "cancelled", "returned"} -> {"refunded"}
        [] s \in {"completed", "refunded"} -> {} ]

Actors ==
  [ s \in Status |->
      CASE s = "scheduled"      -> {"customer"}
        [] s = "placed"         -> {"customer", "system"}
        [] s = "ready"          -> {"restaurant", "rider", "system"}
        [] s = "rider-assigned" -> {"system", "restaurant", "rider"}
        [] s \in {"picked-up", "delivered", "returned"} -> {"rider", "restaurant"}
        [] s = "arrived"        -> {"rider", "system"}
        [] s = "completed"      -> {"system", "customer"}
        [] s = "cancelled"      -> {"customer", "restaurant"}
        [] s \in {"on-the-way", "delivery-failed"} -> {"rider"}
        [] s = "refunded"       -> {"system"}
        [] OTHER                -> {"restaurant"} ]

CanTransition(from, to) == from \in Status /\ to \in Transitions[from]
ActorCan(actor, to) == actor = "admin" \/ actor \in Actors[to]

\* isFailure: what the customer's tracker calls "failed".
IsFailure(s) ==
  s \in {"rejected", "cancelled", "returned", "refunded", "delivery-failed"}

CanCustomerCancel(ord) == ord.status \in {"scheduled", "placed", "confirmed"}
CanRestaurantCancel(ord) ==
  ord.status \in {"confirmed", "preparing", "packing", "ready"}

-----------------------------------------------------------------------------
(* The guards of transition().                                             *)

\* Mutant: the counter checks only the couriers who will carry cash.
RequiresHandoverForCash(ord) ==
  ord.fulfillment = "delivery" /\ ord.rider # NoRider /\ ord.method = "cash"

RequiresHandover(ord) == ord.fulfillment = "delivery" /\ ord.rider # NoRider
IsOtpLocked(ord) == ord.otp >= OtpMax
IsHandoverLocked(ord) == ord.handover >= HandoverMax

CashDueOn(ord) ==
  IF ord.method = "cash" /\ ord.payment = "pending" THEN Total ELSE 0

\* The counter's check: not locked out, the checklist complete, and the code
\* the one derived from this order and the courier on it.
HandoverPasses(o, ord, patch) ==
  /\ ~IsHandoverLocked(ord)
  /\ patch.checks
  /\ patch.code = HandoverCode[o, ord.rider]

\* transition() commits: every early return has been passed.
Accepts(o, ord, to, actor, patch) ==
  /\ CanTransition(ord.status, to)
  /\ ActorCan(actor, to)
  /\ to = "confirmed" => patch.prep
  /\ to = "rider-assigned" => patch.rider # NoRider \/ ord.rider # NoRider
  /\ to = "delivered" => ~IsOtpLocked(ord)
  /\ to = "picked-up" /\ RequiresHandover(ord) => HandoverPasses(o, ord, patch)
  /\ to = "delivered" /\ ord.fulfillment = "delivery" /\ CashDueOn(ord) > 0
       => patch.cash

-----------------------------------------------------------------------------
(* The refund lifecycle: requested -> approved | rejected -> refunded.     *)

IsRefundable(ord) == ord.payment = "paid" /\ ord.refund # "refunded"
CanDecideRefund(ord) == IsRefundable(ord) /\ ord.refund \in {"none", "requested"}
CanSettleRefund(ord) == ord.refund = "approved" /\ ~ord.settled

\* Mutant: every refund waits for a provider.
RefundIsInstantNever(method) == FALSE

RefundIsInstant(method) == method = "wallet"

\* What is owed back: whatever was agreed, else the whole order.
RefundAmountOn(ord) == IF ord.amount > 0 THEN ord.amount ELSE Total

\* Mutant: only a return makes money owed.
OpenRefundOwedOnReturn(ord) ==
  IF ord.payment = "paid" /\ ord.refund = "none" /\ ord.status = "delivery-failed"
    THEN [ord EXCEPT !.refund = "requested", !.amount = Total]
    ELSE ord

\* A cancellation, rejection or return makes paid money owed.
OpenRefundOwed(ord) ==
  IF ord.payment = "paid" /\ ord.refund = "none"
    THEN [ord EXCEPT !.refund = "requested", !.amount = Total]
    ELSE ord

\* Mutant: the payment flag is left behind.
StampRefundSettledOnly(ord, amount) ==
  [ord EXCEPT !.refund = "refunded", !.amount = amount, !.settled = TRUE]

StampRefundSettled(ord, amount) ==
  [ord EXCEPT !.refund = "refunded", !.amount = amount, !.settled = TRUE,
              !.payment = "refunded"]

RequestRefund(ord) == [ord EXCEPT !.refund = "requested", !.amount = Total]

\* The amount is clamped to 0..Total.
Clamp(n) == IF n < 0 THEN 0 ELSE IF n > Total THEN Total ELSE n

ApproveRefund(ord, n) == [ord EXCEPT !.refund = "approved", !.amount = Clamp(n)]
RejectRefund(ord) == [ord EXCEPT !.refund = "rejected", !.amount = 0]

\* The lifecycle route, for an order that did not end badly.
SettleOnLifecycle(ord) == StampRefundSettled(ord, RefundAmountOn(ord))

-----------------------------------------------------------------------------
(* What transition() stamps, by target.                                    *)

\* Mutant: the courier is taken off and forgotten.
HandBackForgets(ord) ==
  IF ord.status = "rider-assigned" /\ ord.rider # NoRider
    THEN [ord EXCEPT !.rider = NoRider]
    ELSE ord

\* Back to `ready` from an assignment: the rider handed the job back.
HandBack(ord) ==
  IF ord.status = "rider-assigned" /\ ord.rider # NoRider
    THEN [ord EXCEPT !.rejected = @ \cup {ord.rider}, !.rider = NoRider]
    ELSE ord

Stamped(ord, to, patch) ==
  CASE to = "rider-assigned" ->
         [ord EXCEPT !.rider = IF patch.rider # NoRider THEN patch.rider ELSE @]
    [] to = "ready" -> HandBack(ord)
    [] to = "picked-up" -> [ord EXCEPT !.verified = @ \/ patch.code # NoCode]
    [] to = "delivered" ->
         [ord EXCEPT !.payment =
            IF ord.method = "cash" /\ @ = "pending" THEN "paid" ELSE @]
    [] to \in {"rejected", "cancelled", "returned"} -> OpenRefundOwed(ord)
    [] to = "refunded" -> StampRefundSettled(ord, patch.amount)
    [] to = "completed" -> [ord EXCEPT !.financials = TRUE]
    [] OTHER -> ord

Transition(ord, to, patch) == [Stamped(ord, to, patch) EXCEPT !.status = to]

\* isActiveDelivery: somebody is carrying it or on the way to collect it.
IsActiveDelivery(ord) ==
  ord.status \notin TerminalStatuses \cup NotPlaced \cup {"delivered"}
=============================================================================
