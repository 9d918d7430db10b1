------------------------------ MODULE OrderStore ------------------------------
(***************************************************************************)
(* One window of the order platform: the orders store                      *)
(* (frontend/stores/orders.ts), the wallet ledger it settles into          *)
(* (frontend/stores/wallet.ts), checkout, the surfaces of the customer,    *)
(* the restaurant, the rider and the desk, and the demo autopilot.         *)
(*                                                                         *)
(* A store action runs to completion before anything else in the window,   *)
(* so it is one step here.  What a surface awaits is not: a checkout is    *)
(* authorised, and only later placed; a cancellation and a doorstep code   *)
(* make a round trip before they are applied to whatever the order has     *)
(* become.                                                                 *)
(*                                                                         *)
(* Abstracted: the clock, but for the change of day that the cash ceiling  *)
(* reads (a sweep releases any set of due orders); who is on shift, which  *)
(* is chosen afresh at each dispatch here and is state in OrderAutopilot;  *)
(* notifications, the audit trail, and minutes, reasons and notes.         *)
(***************************************************************************)
EXTENDS OrderMachine, Sequences

CONSTANTS
  Kinds,          \* <<fulfillment, method, scheduled>> a customer may choose
  Refunds,        \* amounts that may be typed into the refund field
  DeskRights,     \* what the operator's session may do
  InZone,         \* riders of the drop's zone, per order
  Rank,           \* rating x acceptance rate, per rider
  CashLimit,      \* the ceiling of each rider's zone
  Opening,        \* wallet balance to start with
  Autopilot       \* whether the demo autopilot is on

ASSUME KindsAssumption == Kinds \subseteq Fulfillment \X Method \X BOOLEAN
ASSUME RefundsAssumption == Refunds \subseteq Int
ASSUME DeskAssumption == DeskRights \subseteq {"orders.manage", "refunds.manage"}
ASSUME FleetAssumption ==
  /\ InZone \in [Orders -> SUBSET Riders]
  /\ Rank \in [Riders -> Nat]
  /\ CashLimit \in [Riders -> Nat]
ASSUME OpeningAssumption == Opening \in Nat
ASSUME AutopilotAssumption == Autopilot \in BOOLEAN

VARIABLES
  orders,         \* the persisted orders, one record per id
  ledger,         \* the wallet's transactions, filed by order number
  balance,        \* the wallet's balance
  cancelling,     \* orders whose customer has a cancellation under way
  otpCheck,       \* the doorstep code being verified for each order
  lapsed,         \* orders handed over, and last updated, before today
  handedEarlier   \* history: orders handed over before today

vars == <<orders, ledger, balance, cancelling, otpCheck, lapsed, handedEarlier>>

-----------------------------------------------------------------------------

Basket ==
  [ status |-> "basket", fulfillment |-> "delivery", method |-> "cash",
    payment |-> "pending", rider |-> NoRider, rejected |-> {}, otp |-> 0,
    handover |-> 0, verified |-> FALSE, refund |-> "none", amount |-> 0,
    settled |-> FALSE, financials |-> FALSE, rated |-> FALSE ]

Init ==
  /\ orders = [o \in Orders |-> Basket]
  /\ ledger = [o \in Orders |-> <<>>]
  /\ balance = Opening
  /\ cancelling = {}
  /\ otpCheck = [o \in Orders |-> "none"]
  /\ lapsed = {}
  /\ handedEarlier = {}

-----------------------------------------------------------------------------
(* The wallet: post(), isSettled(), pay() and refundOrder().               *)

Txn == [type : {"payment", "refund"}, amount : 0..Total]

IsSettled(txns, type) == \E i \in DOMAIN txns : txns[i].type = type

Post(o, type, amount, delta) ==
  /\ ledger' = [ledger EXCEPT ![o] = Append(@, [type |-> type, amount |-> amount])]
  /\ balance' = balance + delta

\* Mutant: the balance is trusted since the tender was chosen.
PayUncovered(o) ==
  IF ~IsSettled(ledger[o], "payment")
    THEN Post(o, "payment", Total, -Total)
    ELSE UNCHANGED <<ledger, balance>>

\* The debit is refused when it is not covered or already there; the caller
\* does not look at the answer.
Pay(o) ==
  IF balance >= Total /\ ~IsSettled(ledger[o], "payment")
    THEN Post(o, "payment", Total, -Total)
    ELSE UNCHANGED <<ledger, balance>>

RefundOrder(o, amount) ==
  IF IsSettled(ledger[o], "refund")
    THEN UNCHANGED <<ledger, balance>>
    ELSE Post(o, "refund", amount, amount)

-----------------------------------------------------------------------------
(* Settling money as part of a commit.                                     *)

\* Mutant: every refund is settled as a status.
SettleByStatus(ord) ==
  Transition(ord, "refunded", [NoPatch EXCEPT !.amount = ord.amount])

\* settleRefund(): by status where `refunded` is legal, else on the lifecycle.
Settle(ord) ==
  IF CanTransition(ord.status, "refunded")
    THEN Transition(ord, "refunded", [NoPatch EXCEPT !.amount = ord.amount])
    ELSE SettleOnLifecycle(ord)

\* A wallet order that has just ended badly is refunded on the spot.
OwesWalletRefund(ord) ==
  /\ ord.method = "wallet"
  /\ ord.status \in {"cancelled", "rejected", "returned"}
  /\ CanDecideRefund(ord)

\* Mutant: the refund is recorded and the wallet is not told.
AdvanceForgetsTheWallet(o, to, patch) ==
  LET moved == Transition(orders[o], to, patch)
      agreed == ApproveRefund(moved, RefundAmountOn(moved))
  IN  /\ orders' = [orders EXCEPT ![o] =
                      IF OwesWalletRefund(moved) THEN Settle(agreed) ELSE moved]
      /\ UNCHANGED <<ledger, balance>>

\* advance(): commit the transition, then settle what it owes the wallet.
Advance(o, to, patch) ==
  LET moved == Transition(orders[o], to, patch)
      agreed == ApproveRefund(moved, RefundAmountOn(moved))
  IN  IF OwesWalletRefund(moved)
        THEN /\ orders' = [orders EXCEPT ![o] = Settle(agreed)]
             /\ RefundOrder(o, agreed.amount)
        ELSE /\ orders' = [orders EXCEPT ![o] = moved]
             /\ UNCHANGED <<ledger, balance>>

Move(o, to, actor, patch) ==
  /\ Accepts(o, orders[o], to, actor, patch)
  /\ actor = "admin" => "orders.manage" \in DeskRights
  /\ Advance(o, to, patch)

-----------------------------------------------------------------------------
(* Checkout and the slot sweep.                                            *)

\* The tender is authorised against what is there now; the order comes later.
Authorise(o, kind) ==
  /\ orders[o].status = "basket"
  /\ kind[2] = "wallet" => balance >= Total
  /\ orders' = [orders EXCEPT ![o].status = "authorised",
                              ![o].fulfillment = kind[1], ![o].method = kind[2]]
  /\ UNCHANGED <<ledger, balance, cancelling, otpCheck>>

\* Mutant: every tender is taken when the order is placed.
PlaceOrderPaid(o, scheduled) ==
  LET ord == orders[o] IN
  /\ ord.status = "authorised"
  /\ <<ord.fulfillment, ord.method, scheduled>> \in Kinds
  /\ orders' = [orders EXCEPT
       ![o].status = IF scheduled THEN "scheduled" ELSE "placed",
       ![o].payment = "paid"]
  /\ IF ord.method = "wallet" THEN Pay(o) ELSE UNCHANGED <<ledger, balance>>
  /\ UNCHANGED <<cancelling, otpCheck>>

\* placeOrder() answers: the wallet is debited and the order joins the store.
PlaceOrder(o, scheduled) ==
  LET ord == orders[o] IN
  /\ ord.status = "authorised"
  /\ <<ord.fulfillment, ord.method, scheduled>> \in Kinds
  /\ orders' = [orders EXCEPT
       ![o].status = IF scheduled THEN "scheduled" ELSE "placed",
       ![o].payment = IF ord.method = "cash" THEN "pending" ELSE "paid"]
  /\ IF ord.method = "wallet" THEN Pay(o) ELSE UNCHANGED <<ledger, balance>>
  /\ UNCHANGED <<cancelling, otpCheck>>

\* placeOrder() fails: the page is back where it was, the tender untouched.
RefuseOrder(o) ==
  /\ orders[o].status = "authorised"
  /\ orders' = [orders EXCEPT ![o] = Basket]
  /\ UNCHANGED <<ledger, balance, cancelling, otpCheck>>

\* Every order whose slot is close enough is handed to its kitchen.
ReleaseScheduled(due) ==
  /\ due # {}
  /\ \A o \in due : Accepts(o, orders[o], "placed", "system", NoPatch)
  /\ orders' = [o \in Orders |->
                  IF o \in due THEN Transition(orders[o], "placed", NoPatch)
                               ELSE orders[o]]
  /\ UNCHANGED <<ledger, balance, cancelling, otpCheck>>

-----------------------------------------------------------------------------
(* The customer.                                                           *)

\* The button is there while the order can be cancelled; the request then
\* makes a round trip and is applied to the order as it has become.
RequestCancel(o) ==
  /\ CanCustomerCancel(orders[o])
  /\ o \notin cancelling
  /\ cancelling' = cancelling \cup {o}
  /\ UNCHANGED <<orders, ledger, balance, otpCheck>>

CommitCancel(o) ==
  /\ o \in cancelling
  /\ Move(o, "cancelled", "customer", NoPatch)
  /\ cancelling' = cancelling \ {o}
  /\ UNCHANGED otpCheck

RefuseCancel(o) ==
  /\ o \in cancelling
  /\ ~Accepts(o, orders[o], "cancelled", "customer", NoPatch)
  /\ cancelling' = cancelling \ {o}
  /\ UNCHANGED <<orders, ledger, balance, otpCheck>>

CustomerComplete(o) ==
  /\ Move(o, "completed", "customer", NoPatch)
  /\ UNCHANGED <<cancelling, otpCheck>>

\* Mutant: the tracker offers it again after a decision.
AskRefundAgain(o) ==
  /\ IsFailure(orders[o].status)
  /\ orders' = [orders EXCEPT ![o] = RequestRefund(@)]
  /\ UNCHANGED <<ledger, balance, cancelling, otpCheck>>

\* The tracker offers it on anything that failed and has no refund yet.
AskRefund(o) ==
  /\ IsFailure(orders[o].status)
  /\ orders[o].refund = "none"
  /\ orders' = [orders EXCEPT ![o] = RequestRefund(@)]
  /\ UNCHANGED <<ledger, balance, cancelling, otpCheck>>

RateOrder(o) ==
  /\ orders[o].status \in {"delivered", "completed"}
  /\ ~orders[o].rated
  /\ orders' = [orders EXCEPT ![o].rated = TRUE]
  /\ UNCHANGED <<ledger, balance, cancelling, otpCheck>>

-----------------------------------------------------------------------------
(* The restaurant.                                                         *)

\* restaurantActions() without the dialogs modelled below.  The cancel dialog
\* can outlive the state it was opened in by one step: dispatch may assign a
\* rider under it.
RestaurantActions(ord) ==
  { to \in Status :
      \/ to \in {"confirmed", "rejected"} /\ ord.status = "placed"
      \/ to = "preparing" /\ ord.status = "confirmed"
      \/ to = "packing" /\ ord.status = "preparing"
      \/ to = "ready" /\ ord.status = "packing"
      \/ to = "delivered" /\ ord.status = "ready" /\ ord.fulfillment = "pickup"
      \/ /\ to = "cancelled"
         /\ CanRestaurantCancel(ord) \/ ord.status = "rider-assigned" }

RestaurantMove(o) ==
  /\ \E to \in RestaurantActions(orders[o]) :
       Move(o, to, "restaurant", [NoPatch EXCEPT !.prep = TRUE])
  /\ UNCHANGED <<cancelling, otpCheck>>

-----------------------------------------------------------------------------
(* The counter: any of three surfaces can release the food.                *)

Handover(o, actor, code) ==
  /\ orders[o].status = "rider-assigned"
  /\ Move(o, "picked-up", actor, [NoPatch EXCEPT !.code = code, !.checks = TRUE])
  /\ UNCHANGED <<cancelling, otpCheck>>

\* Mutant: wrong codes are counted past the lock.
WrongHandoverCodeUnlocked(o, code) ==
  LET ord == orders[o] IN
  /\ ord.status = "rider-assigned"
  /\ RequiresHandover(ord)
  /\ code # HandoverCode[o, ord.rider]
  /\ orders' = [orders EXCEPT ![o].handover = @ + 1]
  /\ UNCHANGED <<ledger, balance, cancelling, otpCheck>>

\* A refused code is counted on the order.
WrongHandoverCode(o, code) ==
  LET ord == orders[o] IN
  /\ ord.status = "rider-assigned"
  /\ RequiresHandover(ord) /\ ~IsHandoverLocked(ord)
  /\ code # HandoverCode[o, ord.rider]
  /\ orders' = [orders EXCEPT ![o].handover = @ + 1]
  /\ UNCHANGED <<ledger, balance, cancelling, otpCheck>>

-----------------------------------------------------------------------------
(* Dispatch.                                                               *)

\* Mutant: whoever has had a job is busy for good.
HoldsAnotherForGood(o, r) == \E x \in Orders \ {o} : orders[x].rider = r

\* activeOrderForRider() finds another order this rider is carrying.
HoldsAnother(o, r) ==
  \E x \in Orders \ {o} : orders[x].rider = r /\ IsActiveDelivery(orders[x])

\* The courier has collected the cash of this order.
Carries(ord, r) ==
  /\ ord.rider = r
  /\ ord.status \in {"delivered", "completed"}
  /\ ord.method = "cash"

\* riderCashInHand(): the cash of the orders that were updated today.
CashInHand(r) ==
  Total * Cardinality({x \in Orders \ lapsed : Carries(orders[x], r)})

\* Mutant: the ceiling is compared with what is held now.
OverCashLimitNow(ord, r) ==
  /\ CashDueOn(ord) > 0
  /\ CashInHand(r) > CashLimit[r]

OverCashLimit(ord, r) ==
  /\ CashDueOn(ord) > 0
  /\ CashInHand(r) > 0
  /\ CashInHand(r) + CashDueOn(ord) > CashLimit[r]

\* Mutant: whether the courier is free is left to the dialogs.
AssignRiderBusy(o, r) ==
  /\ ~OverCashLimit(orders[o], r)
  /\ Move(o, "rider-assigned", "system", [NoPatch EXCEPT !.rider = r])

AssignRider(o, r) ==
  /\ ~HoldsAnother(o, r)
  /\ ~OverCashLimit(orders[o], r)
  /\ Move(o, "rider-assigned", "system", [NoPatch EXCEPT !.rider = r])

\* A rider takes a job, or one is picked in a dialog.  The dialog strikes out
\* the riders who had handed the job back when it was opened, nobody looks
\* again when it is confirmed.  Only the desk is offered a pickup order.
AssignManually(o, r) ==
  /\ orders[o].fulfillment = "pickup" => "orders.manage" \in DeskRights
  /\ AssignRider(o, r)
  /\ UNCHANGED <<cancelling, otpCheck>>

\* dispatchRider(): the best of those in the zone, else the best of all.
Eligible(o, offDuty) ==
  { r \in Riders : r \notin orders[o].rejected \cup offDuty /\ ~HoldsAnother(o, r) }

Pool(o, offDuty) ==
  IF Eligible(o, offDuty) \cap InZone[o] # {}
    THEN Eligible(o, offDuty) \cap InZone[o]
    ELSE Eligible(o, offDuty)

Best(r, pool) == r \in pool /\ \A q \in pool : Rank[q] <= Rank[r]

\* assignRider() would refuse an order that cannot take a courier; it is looked at first.
AutoDispatch(o, offDuty) ==
  /\ CanTransition(orders[o].status, "rider-assigned")
  /\ orders[o].fulfillment = "pickup" => "orders.manage" \in DeskRights
  /\ \E r \in Riders : Best(r, Pool(o, offDuty)) /\ AssignRider(o, r)
  /\ UNCHANGED <<cancelling, otpCheck>>

\* The desk gives the job to another courier: back to `ready`, then a fresh
\* assignment, which may still be refused for the cash the courier carries.
ReassignRider(o, r) ==
  LET ord == orders[o]
      released == Transition(ord, "ready", NoPatch)
  IN  /\ ord.status = "rider-assigned"
      /\ r # ord.rider
      /\ ~HoldsAnother(o, r)
      /\ "orders.manage" \in DeskRights
      /\ Accepts(o, ord, "ready", "admin", NoPatch)
      /\ orders' = [orders EXCEPT ![o] =
           IF OverCashLimit(released, r)
             THEN released
             ELSE Transition(released, "rider-assigned", [NoPatch EXCEPT !.rider = r])]
      /\ UNCHANGED <<ledger, balance, cancelling, otpCheck>>

-----------------------------------------------------------------------------
(* The rider.                                                              *)

\* riderActions() without the two that ask for a code.
RiderActions(ord) ==
  { to \in Status :
      \/ to = "ready" /\ ord.status = "rider-assigned"
      \/ to = "on-the-way" /\ ord.status \in {"picked-up", "delivery-failed"}
      \/ to = "arrived" /\ ord.status = "on-the-way"
      \/ to = "delivery-failed" /\ ord.status \in {"on-the-way", "arrived"}
      \/ to = "returned" /\ ord.status = "delivery-failed" }

RiderMove(o) ==
  /\ \E to \in RiderActions(orders[o]) : Move(o, to, "rider", NoPatch)
  /\ UNCHANGED <<cancelling, otpCheck>>

\* The doorstep code is checked by a call that answers later, one at a time: the
\* page locks its own button (live-trip-view.tsx, `submitting`), and a trip is on
\* one mounted page.
SubmitOtp(o, answer) ==
  /\ orders[o].status = "arrived"
  /\ ~IsOtpLocked(orders[o])
  /\ otpCheck[o] = "none"
  /\ otpCheck' = [otpCheck EXCEPT ![o] = answer]
  /\ UNCHANGED <<orders, ledger, balance, cancelling>>

\* A wrong code is counted whatever the order has become meanwhile.
FailOtp(o) ==
  /\ otpCheck[o] = "wrong"
  /\ orders' = [orders EXCEPT ![o].otp = @ + 1]
  /\ otpCheck' = [otpCheck EXCEPT ![o] = "none"]
  /\ UNCHANGED <<ledger, balance, cancelling>>

Deliver(o) ==
  LET patch == [NoPatch EXCEPT !.cash = TRUE] IN
  /\ otpCheck[o] = "right"
  /\ otpCheck' = [otpCheck EXCEPT ![o] = "none"]
  /\ UNCHANGED cancelling
  /\ \/ Move(o, "delivered", "rider", patch)
     \/ /\ ~Accepts(o, orders[o], "delivered", "rider", patch)
        /\ UNCHANGED <<orders, ledger, balance>>

-----------------------------------------------------------------------------
(* The desk.                                                               *)

\* adminActions(): every edge but `refunded`; a rider and a handover are
\* asked for in the dialogs above.
AdminActions(ord) ==
  { to \in Status \ {"refunded", "rider-assigned"} :
      /\ CanTransition(ord.status, to)
      /\ to = "picked-up" => ~RequiresHandover(ord) }

AdminMove(o) ==
  /\ \E to \in AdminActions(orders[o]) :
       Move(o, to, "admin", [NoPatch EXCEPT !.prep = TRUE, !.cash = TRUE])
  /\ UNCHANGED <<cancelling, otpCheck>>

\* decideRefund("approve"): a wallet refund is credited and settled at once.
ApproveRefundAtDesk(o, n) ==
  LET agreed == ApproveRefund(orders[o], n) IN
  /\ "refunds.manage" \in DeskRights
  /\ CanDecideRefund(orders[o])
  /\ IF RefundIsInstant(orders[o].method)
       THEN /\ RefundOrder(o, agreed.amount)
            /\ orders' = [orders EXCEPT ![o] = Settle(agreed)]
       ELSE /\ orders' = [orders EXCEPT ![o] = agreed]
            /\ UNCHANGED <<ledger, balance>>
  /\ UNCHANGED <<cancelling, otpCheck>>

RejectRefundAtDesk(o) ==
  /\ "refunds.manage" \in DeskRights
  /\ CanDecideRefund(orders[o])
  /\ orders' = [orders EXCEPT ![o] = RejectRefund(@)]
  /\ UNCHANGED <<ledger, balance, cancelling, otpCheck>>

\* "Mark settled": the provider, or a person with cash, has paid it back.
SettleRefund(o) ==
  /\ "refunds.manage" \in DeskRights
  /\ CanSettleRefund(orders[o])
  /\ orders' = [orders EXCEPT ![o] = Settle(@)]
  /\ UNCHANGED <<ledger, balance, cancelling, otpCheck>>

-----------------------------------------------------------------------------
(* The autopilot plays whoever is not in the room.                         *)

AutoNext ==
  { <<"placed", "confirmed", "restaurant">>, <<"confirmed", "preparing", "restaurant">>,
    <<"preparing", "packing", "restaurant">>, <<"packing", "ready", "restaurant">>,
    <<"rider-assigned", "picked-up", "rider">>, <<"picked-up", "on-the-way", "rider">>,
    <<"on-the-way", "arrived", "rider">>, <<"arrived", "delivered", "rider">>,
    <<"delivered", "completed", "system">> }

\* It knows the courier's code, and carries no word about cash.
AutoPatch(o, to) ==
  IF to = "confirmed" THEN [NoPatch EXCEPT !.prep = TRUE]
  ELSE IF to = "picked-up" /\ RequiresHandover(orders[o])
    THEN [NoPatch EXCEPT !.checks = TRUE, !.code = HandoverCode[o, orders[o].rider]]
  ELSE NoPatch

AutoMove(o) ==
  /\ Autopilot
  /\ \/ \E m \in AutoNext :
          orders[o].status = m[1] /\ Move(o, m[2], m[3], AutoPatch(o, m[2]))
     \/ /\ orders[o].status = "ready" /\ orders[o].fulfillment = "pickup"
        /\ Move(o, "delivered", "restaurant", NoPatch)
  /\ UNCHANGED <<cancelling, otpCheck>>

AutoAssign(o, offDuty) ==
  /\ Autopilot
  /\ orders[o].status = "ready" /\ orders[o].fulfillment = "delivery"
  /\ orders[o].rider = NoRider
  /\ AutoDispatch(o, offDuty)

-----------------------------------------------------------------------------
(* The day.                                                                *)

Handed == {o \in Orders : orders[o].status \in {"delivered", "completed"}}

\* A new day begins: nothing has been updated in it yet.  Only orders that were
\* handed over are told apart, nothing reads the day of another.
Midnight ==
  /\ lapsed' = Handed
  /\ handedEarlier' = Handed
  /\ UNCHANGED <<orders, ledger, balance, cancelling, otpCheck>>

\* Whatever is done to an order stamps its updatedAt; whatever stamps it changes
\* what is kept of it here.
Stamp ==
  /\ lapsed' = {o \in lapsed : orders'[o] = orders[o]}
  /\ UNCHANGED handedEarlier

-----------------------------------------------------------------------------

Checkout(o) ==
  \/ \E kind \in Kinds : Authorise(o, kind)
  \/ \E scheduled \in BOOLEAN : PlaceOrder(o, scheduled)
  \/ RefuseOrder(o)

Customer(o) ==
  \/ RequestCancel(o)
  \/ CommitCancel(o)
  \/ RefuseCancel(o)
  \/ CustomerComplete(o)
  \/ AskRefund(o)
  \/ RateOrder(o)

Counter(o) ==
  \E code \in Codes :
    \/ \E actor \in {"restaurant", "rider", "admin"} : Handover(o, actor, code)
    \/ WrongHandoverCode(o, code)

Dispatch(o) ==
  \/ \E r \in Riders : AssignManually(o, r) \/ ReassignRider(o, r)
  \/ \E offDuty \in SUBSET Riders : AutoDispatch(o, offDuty)

Rider(o) ==
  \/ RiderMove(o)
  \/ \E answer \in {"right", "wrong"} : SubmitOtp(o, answer)
  \/ FailOtp(o)
  \/ Deliver(o)

Desk(o) ==
  \/ AdminMove(o)
  \/ \E n \in Refunds : ApproveRefundAtDesk(o, n)
  \/ RejectRefundAtDesk(o)
  \/ SettleRefund(o)

Engine(o) ==
  \/ AutoMove(o)
  \/ \E offDuty \in SUBSET Riders : AutoAssign(o, offDuty)

Act(o) ==
  \/ Checkout(o) \/ Customer(o) \/ RestaurantMove(o) \/ Counter(o)
  \/ Dispatch(o) \/ Rider(o) \/ Desk(o) \/ Engine(o)

Next ==
  \/ /\ \/ \E due \in SUBSET Orders : ReleaseScheduled(due)
        \/ \E o \in Orders : Act(o)
     /\ Stamp
  \/ Midnight

Spec == Init /\ [][Next]_vars

-----------------------------------------------------------------------------
(* What the store keeps true.                                              *)

\* Every variable holds a value of its kind; the attempt counters stay within
\* the locks that bound them, a pending wrong code included.
TypeOK ==
  /\ orders \in [Orders -> Order]
  /\ ledger \in [Orders -> Seq(Txn)]
  /\ balance \in Int
  /\ cancelling \subseteq Orders
  /\ otpCheck \in [Orders -> {"none", "right", "wrong"}]
  /\ \A o \in Orders : otpCheck[o] # "none" => orders[o].otp < OtpMax
  /\ lapsed \subseteq handedEarlier /\ handedEarlier \subseteq Orders

\* A rider carries one order at a time, whichever of the three surfaces
\* assigned it (stores/orders.assignRider).
OneOrderPerRider ==
  \A o, x \in Orders :
    /\ o # x
    /\ IsActiveDelivery(orders[o]) /\ IsActiveDelivery(orders[x])
    /\ orders[o].rider # NoRider
    => orders[o].rider # orders[x].rider

\* What a courier has collected since midnight.
CollectedToday(r) ==
  Total * Cardinality({x \in Orders \ handedEarlier : Carries(orders[x], r)})

\* In one day a courier never collects more of the platform's cash than his zone
\* allows, unless it all came from one order (lib/risk.overCashLimit), whatever
\* order the assignments, reassignments, deliveries and midnights happened in.
\* What he collected on an earlier day does not count against it.
CashWithinCeiling ==
  \A r \in Riders :
    CollectedToday(r) <= CashLimit[r] \/ CollectedToday(r) <= Total

\* Food out of the kitchen is with a courier the counter has verified: nobody
\* loses the job, and no verification lapses, between the counter and the end
\* of the ride.
CustodyIsVerified ==
  \A o \in Orders :
    /\ orders[o].fulfillment = "delivery"
    /\ orders[o].status \in
         {"picked-up", "on-the-way", "arrived", "delivery-failed", "returned"}
    => orders[o].rider # NoRider /\ orders[o].verified

\* The payment and the refund record are two accounts of one fact: the payment
\* reads "refunded" exactly when the refund does and has been stamped, and
\* nothing is approved or refused on money that was never taken.
RefundFollowsPayment ==
  \A o \in Orders :
    LET ord == orders[o] IN
    /\ ord.refund = "refunded" <=> ord.payment = "refunded"
    /\ ord.refund = "refunded" <=> ord.settled
    /\ ord.refund \in {"approved", "rejected"} => ord.payment = "paid"

\* The wallet pays an order back at most once, never more than its price, and
\* exactly when the order says it has; no other tender touches the ledger.
WalletRefundedOnce ==
  \A o \in Orders :
    LET credits == {i \in DOMAIN ledger[o] : ledger[o][i].type = "refund"} IN
    /\ \A i, j \in credits : i = j
    /\ credits # {} <=> orders[o].method = "wallet" /\ orders[o].refund = "refunded"
    /\ \A i \in credits : ledger[o][i].amount <= Total

\* Neither the tender's stale authorisation nor a second checkout can take the
\* wallet below zero.
WalletNotOverdrawn == balance >= 0

\* There is nothing to wait for in a ledger the application owns, so a wallet
\* refund is never seen between approved and settled.
WalletRefundNeverWaits ==
  \A o \in Orders : orders[o].method = "wallet" => orders[o].refund # "approved"

\* A cash order is unpaid until it has been handed over, and paid from then on.
CashIsTakenAtTheDoor ==
  \A o \in Orders :
    orders[o].method = "cash" =>
      (orders[o].payment = "pending" <=>
         orders[o].status \notin {"delivered", "completed"})

\* A money record that has been settled is never touched again.
SettledMoneyIsFinal ==
  [][\A o \in Orders :
       orders[o].settled =>
         /\ orders'[o].settled
         /\ orders'[o].refund = orders[o].refund
         /\ orders'[o].amount = orders[o].amount
         /\ orders'[o].payment = orders[o].payment
         /\ ledger'[o] = ledger[o]]_vars

\* Whoever loses a job is remembered, so that dispatch offers it to somebody
\* else (lib/order-machine.ts, case "ready"): no path replaces or clears the
\* courier without filing him, and the file only grows.
LostJobsAreRemembered ==
  [][\A o \in Orders :
       /\ orders[o].rejected \subseteq orders'[o].rejected
       /\ orders[o].rider \in Riders /\ orders'[o].rider # orders[o].rider
            => orders[o].rider \in orders'[o].rejected]_vars

\* Whatever the surface, an order that has been placed moves along the graph of
\* lib/order-machine.ts; a bad end that is repaid in the same step is two edges of
\* it.  One that has ended leaves its end only together with its money.
AlongTheGraph ==
  [][\A o \in Orders :
       LET from == orders[o].status
           to == orders'[o].status
       IN  from \notin NotPlaced /\ to # from =>
             /\ \/ CanTransition(from, to)
                \/ \E end \in {"cancelled", "rejected", "returned"} :
                     CanTransition(from, end) /\ CanTransition(end, to)
             /\ from \in TerminalStatuses =>
                  to = "refunded" /\ orders'[o].refund = "refunded"]_vars

\* Ending a paid order badly makes its whole price owed, in the same step,
\* unless a refund of it had already been opened or decided.
BadEndOwesMoney ==
  [][\A o \in Orders :
       /\ orders[o].status \notin TerminalStatuses
       /\ orders'[o].status \in {"cancelled", "rejected", "returned", "refunded"}
       /\ orders[o].payment = "paid" /\ orders[o].refund = "none"
       => /\ orders'[o].refund \in {"requested", "refunded"}
          /\ orders'[o].amount = Total]_vars

\* A reassignment puts the new courier on the order, or was refused and
\* leaves the order exactly as it was (stores/orders.reassignRider).
RefusedReassignmentIsHarmless ==
  [][\A o \in Orders, r \in Riders :
       ReassignRider(o, r) =>
         orders'[o].rider = r \/ orders'[o] = orders[o]]_vars

\* A customer cancels only while the kitchen has not started.
CancelledInsideTheWindow ==
  [][\A o \in Orders : CommitCancel(o) => CanCustomerCancel(orders[o])]_vars

-----------------------------------------------------------------------------
(* What the customer is promised.                                          *)

\* An order as its customer sees it: on the way to the table or not, paid or
\* not, and what has come back.
Stage(status) ==
  CASE status \in NotPlaced -> "basket"
    [] status = "delivered" -> "served"
    [] status = "completed" -> "closed"
    [] status \in TerminalStatuses \ {"completed"} -> "ended"
    [] OTHER -> "open"

Account(ord) ==
  [ stage |-> Stage(ord.status),
    price |-> IF ord.payment = "pending" THEN "due" ELSE "taken",
    claim |-> ord.refund,
    agreed |-> IF ord.refund = "approved" THEN ord.amount ELSE 0,
    back  |-> IF ord.settled THEN ord.amount ELSE 0 ]

accounts == [o \in Orders |-> Account(orders[o])]

Promise == INSTANCE OrderPromise WITH account <- accounts, Price <- Total

\* The store implements the contract of OrderPromise: whatever the status, the
\* tender and the actor, a meal is served once and paid by then, and money that
\* was taken is owed as soon as there will be no meal, is decided on once, and
\* comes back once, for the amount that was approved (an approval of nothing is
\* the contract's one exception, Due).
KeepsItsPromise == Promise!Spec

=============================================================================
