-------------------------- MODULE OrderStore_proofs --------------------------
(***************************************************************************)
(* The safety properties of OrderStore, for every value of the constants.  *)
(*                                                                         *)
(* None of them is inductive on its own.  That food on the road is         *)
(* verified needs to know that an order whose rider is assigned has a      *)
(* rider; that the refund agrees with the payment needs to know that only  *)
(* paid money is ever approved; that the wallet pays back once needs the   *)
(* order's own refund record; that cash is taken at the door needs to know *)
(* that nothing is paid in a basket.  Together they are: Inv is TypeOK, a  *)
(* predicate Sound of each order taken by itself, and the facts that       *)
(* relate an order to something else: to the other orders (one order per   *)
(* rider, and the cash that a rider holds), to its ledger (paid back once) *)
(* and to the balance (never below zero).                                  *)
(*                                                                         *)
(* The argument has the layers of the code.                                *)
(* - transition() keeps an order Sound, and says what it does to the       *)
(*   courier and the money (TransitionSound, TransitionKeeps,              *)
(*   SettleSound).                                                         *)
(* - A step of the store that rewrites one order preserves Inv when it is  *)
(*   a SoundStep: the new order is Sound, the wallet moved exactly when    *)
(*   the order says so, and a courier who is new on it was free.           *)
(* - Every action is a SoundStep: AdvanceSound for those that go through   *)
(*   advance(), then one lemma per actor.                                  *)
(* - The slot sweep is the one action that rewrites several orders, and    *)
(*   midnight the one that rewrites none.                                  *)
(*                                                                         *)
(* A SoundStep is also a step of OrderPromise: what makes an order Sound   *)
(* is what its contract needs to know of it (NextKeeps).  What follows     *)
(* from the contract alone is proved once, in OrderPromise_proofs, and     *)
(* carried over to the store.                                              *)
(*                                                                         *)
(* The action properties compare an order with what becomes of it: every   *)
(* step follows the record of the order it rewrites (NextFollows), its     *)
(* courier, its money and its end taken one by one.                        *)
(***************************************************************************)
EXTENDS OrderStore, FiniteSetTheorems, TLAPS

\* What every order satisfies taken by itself.
Sound(ord) ==
  /\ ord \in Order
  /\ ord.status \in NotPlaced =>
       /\ ord.rider = NoRider /\ ord.rejected = {}
       /\ ord.refund = "none" /\ ord.payment = "pending"
  /\ ord.status \in {"scheduled", "placed", "confirmed", "preparing", "packing", "ready"} =>
       ord.rider = NoRider
  /\ ord.status = "rider-assigned" => ord.rider # NoRider
  /\ ord.status = "refunded" => ord.refund = "refunded"
  /\ ord.refund = "refunded" <=> ord.payment = "refunded"
  /\ ord.refund = "refunded" <=> ord.settled
  /\ ord.refund \in {"approved", "rejected"} => ord.payment = "paid"
  /\ ord.method = "wallet" => ord.refund # "approved"
  /\ ord.method = "cash" =>
       (ord.payment = "pending" <=> ord.status \notin {"delivered", "completed"})
  /\ ord.method # "cash" /\ ord.status \notin NotPlaced => ord.payment # "pending"
  /\ ord.refund = "requested" => ord.amount = Total
  /\ ord.fulfillment = "delivery"
     /\ ord.status \in {"picked-up", "on-the-way", "arrived", "delivery-failed", "returned"}
       => ord.rider # NoRider /\ ord.verified

\* A committed transition leaves a sound order: no edge of the graph, whatever
\* it stamps, loses the courier of food that has left the counter, takes cash
\* before the door or separates the refund from the payment.
LEMMA TransitionSound ==
  ASSUME NEW o \in Orders, NEW ord, Sound(ord), NEW to, NEW actor,
         NEW patch \in Patch, Accepts(o, ord, to, actor, patch), to # "refunded"
  PROVE  Sound(Transition(ord, to, patch))
<1> DEFINE new == Transition(ord, to, patch)
<1>1. ord \in Order
  BY DEF Sound
<1>2. to \in Status /\ ord.status \in Status /\ to \in Transitions[ord.status]
  BY <1>1 DEF Accepts, CanTransition, Transitions, Status
<1>3. CASE to \in {"placed", "confirmed", "preparing", "packing", "on-the-way", "arrived", "delivery-failed"}
  <2>1. new = [ord EXCEPT !.status = to]
    BY <1>3 DEF Transition, Stamped
  <2> QED BY <2>1, <1>1, <1>2, <1>3 DEF Sound, Order, Transitions, Status, NotPlaced
<1>4. CASE to = "rider-assigned"
  <2>1. new = [ord EXCEPT !.rider = IF patch.rider # NoRider THEN patch.rider ELSE @, !.status = to]
    BY <1>4 DEF Transition, Stamped
  <2> QED BY <2>1, <1>1, <1>2, <1>4 DEF Sound, Order, Transitions, Status, NotPlaced, Patch, Accepts
<1>5. CASE to = "ready"
  <2>1. CASE ord.status = "rider-assigned"
    <3>1. ord.rider \in Riders /\ ord.rider # NoRider
      BY <1>1, <2>1 DEF Sound, Order
    <3>2. new = [ord EXCEPT !.rejected = @ \cup {ord.rider}, !.rider = NoRider, !.status = to]
      BY <1>5, <2>1, <3>1 DEF Transition, Stamped, HandBack
    <3>3. new \in Order
      <4>1. ord.rejected \cup {ord.rider} \in SUBSET Riders
        BY <3>1, <1>1 DEF Order
      <4> QED BY <3>2, <4>1, <1>1, <1>5 DEF Order, Status
    <3> QED BY <3>2, <3>3, <2>1, <1>1, <1>5 DEF Sound, Order, NotPlaced
  <2>2. CASE ord.status # "rider-assigned"
    <3>1. new = [ord EXCEPT !.status = to]
      BY <1>5, <2>2 DEF Transition, Stamped, HandBack
    <3>2. ord.status = "packing"
      BY <1>2, <1>5, <2>2 DEF Transitions, Status
    <3> QED BY <3>1, <3>2, <1>1, <1>5 DEF Sound, Order, Status, NotPlaced
  <2> QED BY <2>1, <2>2
<1>6. CASE to = "picked-up"
  <2>1. new = [ord EXCEPT !.verified = @ \/ patch.code # NoCode, !.status = to]
    BY <1>6 DEF Transition, Stamped
  <2>2. ord.status = "rider-assigned" /\ ord.rider \in Riders /\ ord.rider # NoRider
    BY <1>1, <1>2, <1>6 DEF Transitions, Sound, Order, Status
  <2>3. ord.fulfillment = "delivery" => patch.code # NoCode
    BY <1>6, <2>2, HandoverCodeAssumption, NoCodeAssumption
       DEF Accepts, RequiresHandover, HandoverPasses
  <2> QED BY <2>1, <2>2, <2>3, <1>1, <1>2, <1>6 DEF Sound, Order, NotPlaced
<1>7. CASE to = "delivered"
  <2>1. new = [ord EXCEPT
                 !.payment = IF ord.method = "cash" /\ ord.payment = "pending" THEN "paid" ELSE @,
                 !.status = to]
    BY <1>7, <1>1 DEF Transition, Stamped, Order
  <2> QED BY <2>1, <1>1, <1>2, <1>7 DEF Sound, Order, Transitions, Status, NotPlaced
<1>8. CASE to \in {"rejected", "cancelled", "returned"}
  <2>0. /\ ord.status \notin {"delivered", "completed"}
        /\ to = "returned" => ord.status = "delivery-failed"
    BY <1>2, <1>8 DEF Transitions, Status
  <2>1. new = [OpenRefundOwed(ord) EXCEPT !.status = to]
    BY <1>8 DEF Transition, Stamped
  <2>2. CASE ord.payment = "paid" /\ ord.refund = "none"
    <3>1. new = [ord EXCEPT !.refund = "requested", !.amount = Total, !.status = to]
      BY <2>1, <2>2 DEF OpenRefundOwed
    <3>2. Total \in 0..Total
      BY TotalAssumption
    <3>3. new \in Order
      BY <3>1, <3>2, <1>1, <1>8 DEF Order, RefundState, Status
    <3> QED BY <3>1, <3>3, <2>0, <2>2, <1>1, <1>8 DEF Sound, Order, NotPlaced
  <2>3. CASE ~(ord.payment = "paid" /\ ord.refund = "none")
    <3>1. new = [ord EXCEPT !.status = to]
      BY <2>1, <2>3 DEF OpenRefundOwed
    <3>2. new \in Order /\ ord.status \notin NotPlaced
      BY <3>1, <1>1, <1>2, <1>8 DEF Order, Status, NotPlaced
    <3> QED BY <3>1, <3>2, <2>0, <1>1, <1>8 DEF Sound, Order, NotPlaced
  <2> QED BY <2>2, <2>3
<1>9. CASE to = "completed"
  <2>1. new = [ord EXCEPT !.financials = TRUE, !.status = to]
    BY <1>9 DEF Transition, Stamped
  <2> QED BY <2>1, <1>1, <1>2, <1>9 DEF Sound, Order, Transitions, Status, NotPlaced
<1> QED
  <2>1. to # "scheduled"
    BY <1>2 DEF Transitions, Status
  <2> QED BY <2>1, <1>2, <1>3, <1>4, <1>5, <1>6, <1>7, <1>8, <1>9 DEF Status

-----------------------------------------------------------------------------

\* A transition to anything but an assignment keeps the courier or takes him
\* off, and nothing that was over comes alive.
LEMMA TransitionKeeps ==
  ASSUME NEW ord, Sound(ord), NEW to, NEW patch \in Patch,
         CanTransition(ord.status, to), to # "refunded"
  PROVE  LET new == Transition(ord, to, patch) IN
         /\ new.status = to /\ new.otp = ord.otp /\ new.method = ord.method
         /\ new.refund = "refunded" <=> ord.refund = "refunded"
         /\ IsActiveDelivery(new) => IsActiveDelivery(ord)
         /\ to # "rider-assigned" => new.rider \in {ord.rider, NoRider}
         /\ to = "rider-assigned" => new.rider \in {ord.rider, patch.rider}
<1> DEFINE new == Transition(ord, to, patch)
<1>1. ord \in Order
  BY DEF Sound
<1>2. to \in Status /\ ord.status \in Status /\ to \in Transitions[ord.status]
  BY <1>1 DEF CanTransition, Transitions, Status
<1>3. IsActiveDelivery([status |-> to]) => IsActiveDelivery(ord)
  BY <1>2 DEF IsActiveDelivery, Transitions, Status, TerminalStatuses, NotPlaced
<1>4. new.status = to
  BY <1>1 DEF Transition, Stamped, Order, HandBack, OpenRefundOwed, StampRefundSettled
<1>5. /\ new.otp = ord.otp /\ new.method = ord.method
      /\ new.refund = "refunded" <=> ord.refund = "refunded"
  BY <1>1 DEF Transition, Stamped, Order, HandBack, OpenRefundOwed
<1>6. /\ to # "rider-assigned" => new.rider \in {ord.rider, NoRider}
      /\ to = "rider-assigned" => new.rider \in {ord.rider, patch.rider}
  BY <1>1 DEF Transition, Stamped, Order, HandBack, OpenRefundOwed
<1> QED BY <1>3, <1>4, <1>5, <1>6 DEF IsActiveDelivery

\* The courier will have the cash of this order, once he has delivered.
Collects(ord, r) ==
  IsActiveDelivery(ord) /\ ord.rider = r /\ ord.method = "cash"

\* What a step may do to what was recorded of an order: nothing to money that
\* is settled, ...
MoneyKept(old, new) ==
  old.settled =>
    /\ new.settled /\ new.refund = old.refund
    /\ new.amount = old.amount /\ new.payment = old.payment

\* ... nobody disappears from it, ...
CourierKept(old, new) ==
  /\ old.rejected \subseteq new.rejected
  /\ old.rider \in Riders /\ new.rider # old.rider => old.rider \in new.rejected

\* ... it goes where the graph goes, and its end stays its end, ...
PathKept(old, new) ==
  old.status \notin NotPlaced /\ new.status # old.status =>
    /\ \/ CanTransition(old.status, new.status)
       \/ \E end \in {"cancelled", "rejected", "returned"} :
            CanTransition(old.status, end) /\ CanTransition(end, new.status)
    /\ old.status \in TerminalStatuses =>
         new.status = "refunded" /\ new.refund = "refunded"

\* ... a bad end opens the claim to what was paid, ...
ClaimOpened(old, new) ==
  /\ old.status \notin TerminalStatuses
  /\ new.status \in {"cancelled", "rejected", "returned", "refunded"}
  /\ old.payment = "paid" /\ old.refund = "none"
  => new.refund \in {"requested", "refunded"} /\ new.amount = Total

\* ... and cash gets into a courier's hand only on his own delivery.
CashKept(old, new) ==
  \A r \in Riders :
    /\ Carries(old, r) => Carries(new, r)
    /\ Carries(new, r) => Carries(old, r) \/ Collects(old, r)

Follows(old, new) ==
  /\ MoneyKept(old, new) /\ CourierKept(old, new) /\ PathKept(old, new)
  /\ ClaimOpened(old, new) /\ CashKept(old, new)

\* A transition respects the record, and gives no courier cash to collect but
\* the one it assigns, on an order whose cash is still due.
LEMMA TransitionFollows ==
  ASSUME NEW ord, Sound(ord), NEW to, NEW patch \in Patch,
         CanTransition(ord.status, to), to # "refunded"
  PROVE  LET new == Transition(ord, to, patch) IN
         /\ Follows(ord, new)
         /\ \A r \in Riders :
              Collects(new, r) =>
                \/ Collects(ord, r)
                \/ /\ to = "rider-assigned" /\ r = patch.rider
                   /\ ord.method = "cash" /\ ord.payment = "pending"
<1> DEFINE new == Transition(ord, to, patch)
           handback == to = "ready" /\ ord.status = "rider-assigned"
<1>1. ord \in Order
  BY DEF Sound
<1>2. to \in Status /\ ord.status \in Status /\ to \in Transitions[ord.status]
  BY <1>1 DEF CanTransition, Transitions, Status
<1>3. new.status = to /\ new.method = ord.method /\ new.settled = ord.settled
  BY <1>1 DEF Transition, Stamped, Order, HandBack, OpenRefundOwed
<1>4. /\ new.rejected = IF handback THEN ord.rejected \cup {ord.rider} ELSE ord.rejected
      /\ new.rider = IF handback THEN NoRider
                     ELSE IF to = "rider-assigned" /\ patch.rider # NoRider THEN patch.rider
                     ELSE ord.rider
  <2>1. ord.status = "rider-assigned" => ord.rider # NoRider
    BY DEF Sound
  <2> QED BY <1>1, <2>1 DEF Transition, Stamped, Order, HandBack, OpenRefundOwed
<1>5. MoneyKept(ord, new)
  <2>1. ord.settled => ord.payment = "refunded" /\ ord.refund = "refunded"
    BY DEF Sound
  <2> QED BY <1>1, <2>1 DEF MoneyKept, Transition, Stamped, Order, HandBack, OpenRefundOwed
<1>6. ClaimOpened(ord, new)
  <2>1. CASE to \in {"rejected", "cancelled", "returned"}
    BY <1>1, <2>1 DEF ClaimOpened, Transition, Stamped, Order, OpenRefundOwed
  <2>2. CASE to \notin {"rejected", "cancelled", "returned"}
    BY <1>3, <2>2 DEF ClaimOpened
  <2> QED BY <2>1, <2>2
<1>7. to = "rider-assigned" => ord.status = "ready" /\ ord.rider = NoRider
  BY <1>2 DEF Transitions, Status, Sound
<1> HIDE DEF new
<1>8. CourierKept(ord, new)
  BY <1>4, <1>7, NoRiderAssumption DEF CourierKept
<1>9. PathKept(ord, new)
  <2>1. ord.status \notin TerminalStatuses
    BY <1>2 DEF Transitions, Status, TerminalStatuses
  <2> QED BY <1>3, <2>1 DEF PathKept
<1>10. CashKept(ord, new)
  <2> SUFFICES ASSUME NEW r \in Riders
               PROVE  /\ Carries(ord, r) => Carries(new, r)
                      /\ Carries(new, r) => Carries(ord, r) \/ Collects(ord, r)
    BY DEF CashKept
  <2>1. ASSUME Carries(ord, r) PROVE Carries(new, r)
    <3>1. to = "completed" /\ ord.status = "delivered"
      BY <1>2, <2>1 DEF Carries, Transitions, Status
    <3> QED BY <1>3, <1>4, <2>1, <3>1 DEF Carries
  <2>2. ASSUME Carries(new, r) PROVE Carries(ord, r) \/ Collects(ord, r)
    <3>1. to \in {"delivered", "completed"} /\ ord.rider = r /\ ord.method = "cash"
      BY <1>3, <1>4, <2>2 DEF Carries
    <3>2. ord.status \in {"ready", "arrived", "delivered"}
      BY <1>2, <3>1 DEF Transitions, Status
    <3> QED BY <3>1, <3>2 DEF Carries, Collects, IsActiveDelivery, TerminalStatuses, NotPlaced
  <2> QED BY <2>1, <2>2
<1>11. ASSUME NEW r \in Riders, Collects(new, r)
       PROVE  \/ Collects(ord, r)
              \/ /\ to = "rider-assigned" /\ r = patch.rider
                 /\ ord.method = "cash" /\ ord.payment = "pending"
  <2>1. IsActiveDelivery(ord)
    <3>1. IsActiveDelivery(new) => IsActiveDelivery(ord)
      BY TransitionKeeps DEF new
    <3> QED BY <1>11, <3>1 DEF Collects
  <2>2. CASE to = "rider-assigned"
    <3>1. ord.method = "cash" /\ ord.status = "ready"
      BY <1>3, <1>7, <1>11, <2>2 DEF Collects
    <3>2. ord.payment = "pending"
      BY <3>1 DEF Sound
    <3>3. r = patch.rider
      BY <1>4, <1>7, <1>11, <2>2, NoRiderAssumption DEF Collects
    <3> QED BY <2>2, <3>1, <3>2, <3>3
  <2>3. CASE to # "rider-assigned"
    BY <1>3, <1>4, <1>11, <2>1, <2>3, NoRiderAssumption DEF Collects
  <2> QED BY <2>2, <2>3
<1> QED BY <1>5, <1>6, <1>8, <1>9, <1>10, <1>11 DEF Follows, new

\* What each kind of status is to the customer.
LEMMA Stages ==
  /\ \A s \in NotPlaced : Stage(s) = "basket"
  /\ Stage("delivered") = "served" /\ Stage("completed") = "closed"
  /\ \A s \in {"rejected", "cancelled", "returned", "refunded"} : Stage(s) = "ended"
  /\ \A s \in Status \ (TerminalStatuses \cup {"delivered"}) : Stage(s) = "open"
BY DEF Stage, NotPlaced, Status, TerminalStatuses

\* In the customer's eyes a transition serves the meal, closes the order, ends
\* it and makes what was taken owed, or changes nothing.
LEMMA TransitionKept ==
  ASSUME NEW ord, Sound(ord), NEW to, NEW patch \in Patch,
         CanTransition(ord.status, to), to # "refunded"
  PROVE  LET a == Account(ord)
             b == Account(Transition(ord, to, patch))
         IN  \/ b = a \/ Promise!Serve(a, b) \/ Promise!Close(a, b)
             \/ a.stage = "open" /\ b = [Promise!Owed(a) EXCEPT !.stage = "ended"]
<1> DEFINE new == Transition(ord, to, patch)
           a == Account(ord)
           b == Account(new)
<1>1. ord \in Order
  BY DEF Sound
<1>2. to \in Status /\ ord.status \in Status /\ to \in Transitions[ord.status]
  BY <1>1 DEF CanTransition, Transitions, Status
<1>3. /\ b.stage = Stage(new.status) /\ b.price = IF new.payment = "pending" THEN "due" ELSE "taken"
      /\ b.claim = new.refund /\ b.back = IF new.settled THEN new.amount ELSE 0
      /\ b.agreed = IF new.refund = "approved" THEN new.amount ELSE 0
      /\ b = [stage |-> b.stage, price |-> b.price, claim |-> b.claim,
              agreed |-> b.agreed, back |-> b.back]
  BY DEF Account
<1>4. a = [stage |-> Stage(ord.status), price |-> IF ord.payment = "pending" THEN "due" ELSE "taken",
           claim |-> ord.refund, agreed |-> IF ord.refund = "approved" THEN ord.amount ELSE 0,
           back |-> IF ord.settled THEN ord.amount ELSE 0]
  BY DEF Account
<1>5. CASE to \in {"rejected", "cancelled", "returned"}
  <2>1. Stage(ord.status) = "open" /\ Stage(to) = "ended"
    BY <1>2, <1>5, Stages DEF Transitions, Status, TerminalStatuses
  <2>2. /\ new.status = to /\ new.payment = ord.payment /\ new.settled = ord.settled
        /\ new.refund = IF ord.payment = "paid" /\ ord.refund = "none"
                          THEN "requested" ELSE ord.refund
        /\ ord.settled \/ ord.refund = "approved" => new.amount = ord.amount
    BY <1>1, <1>5 DEF Transition, Stamped, OpenRefundOwed, Order, Sound
  <2>3. ord.refund = "none" => (ord.payment = "paid" <=> ord.payment # "pending")
    BY <1>1 DEF Sound, Order
  <2> HIDE DEF new, b
  <2>4. b = [Promise!Owed(a) EXCEPT !.stage = "ended"]
    BY <1>3, <1>4, <2>1, <2>2, <2>3 DEF Promise!Owed
  <2> QED BY <1>4, <2>1, <2>4 DEF new, b
<1>6. CASE to = "delivered"
  <2>1. /\ Stage(ord.status) = "open" /\ Stage(to) = "served"
        /\ ord.status \notin NotPlaced
    BY <1>2, <1>6, Stages DEF Transitions, Status, TerminalStatuses, NotPlaced
  <2>2. /\ new.status = to /\ new.payment # "pending" /\ new.settled = ord.settled
        /\ new.refund = ord.refund /\ new.amount = ord.amount
    BY <1>1, <1>6, <2>1 DEF Transition, Stamped, Order, Sound
  <2> HIDE DEF new, b
  <2>3. /\ a.stage = "open" /\ b.stage = "served" /\ b.price = "taken"
        /\ b.claim = a.claim /\ b.agreed = a.agreed /\ b.back = a.back
    BY <1>3, <1>4, <2>1, <2>2
  <2>a. a = [stage |-> a.stage, price |-> a.price, claim |-> a.claim,
             agreed |-> a.agreed, back |-> a.back]
    BY DEF Account
  <2> HIDE DEF a
  <2>4. b = [a EXCEPT !.stage = "served", !.price = "taken"]
    BY <1>3, <2>a, <2>3
  <2>5. Promise!Serve(a, b)
    BY <2>3, <2>4 DEF Promise!Serve
  <2> QED BY <2>5 DEF new, a, b
<1>7. CASE to \notin {"rejected", "cancelled", "returned", "delivered"}
  <2>1. /\ new.status = to /\ new.payment = ord.payment /\ new.settled = ord.settled
        /\ new.refund = ord.refund /\ new.amount = ord.amount
    BY <1>1, <1>2, <1>7 DEF Transition, Stamped, HandBack, Order, Status
  <2>2. CASE to = "completed"
    <3>1. Stage(ord.status) = "served" /\ Stage(to) = "closed"
      BY <1>2, <2>2, Stages DEF Transitions, Status
    <3> HIDE DEF new, b
    <3>2. Promise!Close(a, b)
      BY <1>3, <1>4, <2>1, <3>1 DEF Promise!Close
    <3> QED BY <3>2 DEF new, b
  <2>3. CASE to # "completed"
    <3>1. Stage(ord.status) = "open" /\ Stage(to) = "open"
      BY <1>2, <1>7, <2>3, Stages DEF Transitions, Status, TerminalStatuses
    <3> HIDE DEF new, b
    <3>2. b = a
      BY <1>3, <1>4, <2>1, <3>1
    <3> QED BY <3>2 DEF new, b
  <2> QED BY <2>2, <2>3
<1> QED BY <1>5, <1>6, <1>7

\* Settling pays back what the contract says is due on what was agreed.
LEMMA SettleKept ==
  ASSUME NEW ord, Sound(ord), ord.payment = "paid", NEW n \in 0..Total
  PROVE  LET agreed == [ord EXCEPT !.refund = "approved", !.amount = n]
             a == Account(ord)
         IN  Account(Settle(agreed)) =
               [a EXCEPT !.claim = "refunded", !.agreed = 0,
                         !.back = Promise!Due([a EXCEPT !.agreed = n])]
<1> DEFINE agreed == [ord EXCEPT !.refund = "approved", !.amount = n]
           new == Settle(agreed)
           m == IF CanTransition(ord.status, "refunded") THEN n ELSE RefundAmountOn(agreed)
<1>1. ord \in Order
  BY DEF Sound
<1>2. agreed \in Order /\ agreed.status = ord.status /\ agreed.amount = n
  BY <1>1 DEF Order, RefundState
<1>3. m = IF n = 0 /\ Stage(ord.status) # "ended" THEN Total ELSE n
  <2>1. CASE ord.status \in {"rejected", "cancelled", "returned"}
    <3>1. CanTransition(ord.status, "refunded")
      BY <2>1 DEF CanTransition, Transitions, Status
    <3> QED BY <2>1, <3>1, Stages
  <2>2. CASE ord.status \notin {"rejected", "cancelled", "returned"}
    <3>1. ~CanTransition(ord.status, "refunded")
      BY <2>2 DEF CanTransition, Transitions, Status
    <3>2. ord.status # "refunded" /\ ord.status \in Status \cup NotPlaced
      BY <1>1 DEF Sound, Order
    <3>3. Stage(ord.status) # "ended"
      BY <2>2, <3>2 DEF Stage, TerminalStatuses
    <3> QED BY <1>2, <3>1, <3>3 DEF RefundAmountOn
  <2> QED BY <2>1, <2>2
<1>4. /\ new.payment = "refunded" /\ new.refund = "refunded" /\ new.settled
      /\ new.amount = m
  <2>1. CASE CanTransition(ord.status, "refunded")
    BY <1>1, <1>2, <2>1 DEF Settle, Transition, Stamped, StampRefundSettled, NoPatch, Order
  <2>2. CASE ~CanTransition(ord.status, "refunded")
    BY <1>1, <1>2, <2>2 DEF Settle, SettleOnLifecycle, StampRefundSettled, Order
  <2> QED BY <2>1, <2>2
<1>5. Stage(new.status) = Stage(ord.status)
  <2>1. CASE CanTransition(ord.status, "refunded")
    <3>1. ord.status \in {"rejected", "cancelled", "returned"}
      BY <2>1 DEF CanTransition, Transitions, Status
    <3>2. new.status = "refunded"
      BY <1>1, <1>2, <2>1 DEF Settle, Transition, Stamped, StampRefundSettled, NoPatch, Order
    <3> QED BY <3>1, <3>2, Stages
  <2>2. CASE ~CanTransition(ord.status, "refunded")
    <3>1. new.status = ord.status
      BY <1>1, <1>2, <2>2 DEF Settle, SettleOnLifecycle, StampRefundSettled, Order
    <3> QED BY <3>1
  <2> QED BY <2>1, <2>2
<1> HIDE DEF new, m
<1>6. Account(new) = [Account(ord) EXCEPT !.claim = "refunded", !.agreed = 0, !.back = m]
  <2> DEFINE a == Account(ord)
             b == Account(new)
  <2>1. /\ b.stage = a.stage /\ b.price = a.price /\ b.claim = "refunded"
        /\ b.agreed = 0 /\ b.back = m
    BY <1>4, <1>5 DEF Account
  <2>2. /\ a = [stage |-> a.stage, price |-> a.price, claim |-> a.claim,
                agreed |-> a.agreed, back |-> a.back]
        /\ b = [stage |-> b.stage, price |-> b.price, claim |-> b.claim,
                agreed |-> b.agreed, back |-> b.back]
    BY DEF Account
  <2> HIDE DEF a, b
  <2>3. b = [a EXCEPT !.claim = "refunded", !.agreed = 0, !.back = m]
    BY <2>1, <2>2
  <2> QED BY <2>3 DEF a, b
<1>7. Promise!Due([Account(ord) EXCEPT !.agreed = n]) = m
  BY <1>3 DEF Promise!Due, Account
<1> QED BY <1>6, <1>7 DEF new

\* Settling paid money that has just been agreed on leaves a sound order.
LEMMA SettleSound ==
  ASSUME NEW ord, Sound(ord), ord.payment = "paid", NEW n \in 0..Total
  PROVE  LET agreed == [ord EXCEPT !.refund = "approved", !.amount = n]
             new == Settle(agreed)
         IN  /\ Sound(new)
             /\ new.refund = "refunded" /\ new.otp = ord.otp
             /\ new.method = ord.method /\ new.rider = ord.rider
             /\ IsActiveDelivery(new) => IsActiveDelivery(ord)
<1> DEFINE agreed == [ord EXCEPT !.refund = "approved", !.amount = n]
           new == Settle(agreed)
<1>1. ord \in Order
  BY DEF Sound
<1>2. agreed \in Order /\ agreed.status = ord.status /\ agreed.amount = n
  BY <1>1 DEF Order, RefundState
<1>3. RefundAmountOn(agreed) \in 0..Total
  BY <1>2, TotalAssumption DEF RefundAmountOn
<1>4. CASE CanTransition(ord.status, "refunded")
  <2>1. ord.status \in {"rejected", "cancelled", "returned"}
    BY <1>4 DEF CanTransition, Transitions, Status
  <2>2. new = [ord EXCEPT !.refund = "refunded", !.amount = n, !.settled = TRUE,
                          !.payment = "refunded", !.status = "refunded"]
    BY <1>1, <1>2, <1>4 DEF Settle, Transition, Stamped, StampRefundSettled, NoPatch, Order
  <2>3. new \in Order
    BY <2>2, <1>1 DEF Order, Status, RefundState
  <2> QED BY <2>1, <2>2, <2>3, <1>1
          DEF Sound, Order, NotPlaced, IsActiveDelivery, TerminalStatuses
<1>5. CASE ~CanTransition(ord.status, "refunded")
  <2> DEFINE m == RefundAmountOn(agreed)
  <2>1. new = [ord EXCEPT !.refund = "refunded", !.amount = m, !.settled = TRUE,
                          !.payment = "refunded"]
    BY <1>1, <1>2, <1>5 DEF Settle, SettleOnLifecycle, StampRefundSettled, Order
  <2> HIDE DEF m
  <2>2. new \in Order
    BY <2>1, <1>1, <1>3 DEF Order, RefundState, m
  <2> QED BY <2>1, <2>2, <1>1 DEF Sound, Order, NotPlaced, IsActiveDelivery
<1> QED BY <1>4, <1>5

\* Settling respects the record, and an order that had just ended owing its
\* whole price is paid its whole price.
LEMMA SettleFollows ==
  ASSUME NEW ord, Sound(ord), ord.payment = "paid", NEW n \in 0..Total
  PROVE  LET agreed == [ord EXCEPT !.refund = "approved", !.amount = n]
             new == Settle(agreed)
         IN  /\ Follows(ord, new)
             /\ new.refund = "refunded" /\ new.rejected = ord.rejected
             /\ CanTransition(ord.status, "refunded") =>
                  new.amount = n /\ new.status = "refunded"
             /\ \A r \in Riders : Collects(new, r) => Collects(ord, r)
<1> DEFINE agreed == [ord EXCEPT !.refund = "approved", !.amount = n]
           new == Settle(agreed)
<1>1. ord \in Order /\ ~ord.settled
  BY DEF Sound
<1>2. agreed \in Order /\ agreed.status = ord.status /\ agreed.amount = n
  BY <1>1 DEF Order, RefundState
<1>3. /\ new.refund = "refunded" /\ new.rejected = ord.rejected
      /\ new.rider = ord.rider /\ new.method = ord.method
      /\ new.status = IF CanTransition(ord.status, "refunded") THEN "refunded" ELSE ord.status
      /\ CanTransition(ord.status, "refunded") => new.amount = n
  <2>1. CASE CanTransition(ord.status, "refunded")
    BY <1>1, <1>2, <2>1 DEF Settle, Transition, Stamped, StampRefundSettled, NoPatch, Order
  <2>2. CASE ~CanTransition(ord.status, "refunded")
    BY <1>1, <1>2, <2>2 DEF Settle, SettleOnLifecycle, StampRefundSettled, Order
  <2> QED BY <2>1, <2>2
<1>4. CanTransition(ord.status, "refunded") =>
        ord.status \in {"rejected", "cancelled", "returned"}
  BY DEF CanTransition, Transitions, Status
<1> HIDE DEF new
<1>5. MoneyKept(ord, new) /\ CourierKept(ord, new) /\ PathKept(ord, new)
  BY <1>1, <1>3, <1>4 DEF MoneyKept, CourierKept, PathKept
<1>6. ClaimOpened(ord, new) /\ CashKept(ord, new)
  BY <1>3, <1>4 DEF ClaimOpened, CashKept, Carries, TerminalStatuses
<1>7. \A r \in Riders : Collects(new, r) => Collects(ord, r)
  BY <1>3, <1>4 DEF Collects, IsActiveDelivery, TerminalStatuses
<1> QED BY <1>3, <1>5, <1>6, <1>7 DEF Follows, new

\* Two steps in one respect the record if each does, apart from the path and the
\* claim.
LEMMA FollowsTwice ==
  ASSUME NEW old, NEW mid, NEW new, Follows(old, mid), Follows(mid, new),
         Sound(mid), PathKept(old, new), ClaimOpened(old, new),
         \A r \in Riders : Carries(new, r) => Carries(mid, r)
  PROVE  Follows(old, new)
<1>1. MoneyKept(old, new)
  BY DEF Follows, MoneyKept
<1>2. CourierKept(old, new)
  BY DEF Follows, CourierKept
<1>3. CashKept(old, new)
  BY DEF Follows, CashKept
<1> QED BY <1>1, <1>2, <1>3 DEF Follows

-----------------------------------------------------------------------------
(* The wallet's ledger.                                                    *)

\* The places of the ledger where an order was paid back.
Credits(txns) == {i \in DOMAIN txns : txns[i].type = "refund"}

\* What WalletRefundedOnce says of one order and its transactions.
PaidBackOnce(txns, ord) ==
  /\ \A i, j \in Credits(txns) : i = j
  /\ Credits(txns) # {} <=> ord.method = "wallet" /\ ord.refund = "refunded"

\* Appending a transaction adds a credit exactly when it is a refund.
LEMMA AppendCredits ==
  ASSUME NEW txns \in Seq(Txn), NEW t \in Txn
  PROVE  Credits(Append(txns, t)) =
           IF t.type = "refund" THEN Credits(txns) \cup {Len(txns) + 1} ELSE Credits(txns)
<1>1. /\ DOMAIN Append(txns, t) = 1..(Len(txns) + 1)
      /\ DOMAIN txns = 1..Len(txns)
      /\ \A i \in 1..Len(txns) : Append(txns, t)[i] = txns[i]
      /\ Append(txns, t)[Len(txns) + 1] = t
      /\ Len(txns) \in Nat
  OBVIOUS
<1> QED BY <1>1 DEF Credits

\* The first refund posted for an order is its only credit.
LEMMA CreditOnce ==
  ASSUME NEW txns \in Seq(Txn), NEW t \in Txn, t.type = "refund", Credits(txns) = {}
  PROVE  /\ \A i, j \in Credits(Append(txns, t)) : i = j
         /\ Credits(Append(txns, t)) # {}
BY AppendCredits

-----------------------------------------------------------------------------
(* The cash in a courier's hand.                                           *)

\* How many orders of a book a courier has collected the cash of today.
Handful(book, r) == Cardinality({x \in Orders \ handedEarlier : Carries(book[x], r)})

\* It is a number, and one more when one more order is delivered.
LEMMA HandfulIsNat ==
  ASSUME NEW book, NEW r
  PROVE  /\ Handful(book, r) \in Nat
         /\ IsFiniteSet({x \in Orders \ handedEarlier : Carries(book[x], r)})
<1>1. IsFiniteSet({x \in Orders \ handedEarlier : Carries(book[x], r)})
  BY OrdersAssumption, FS_Subset
<1> QED BY <1>1, FS_CardinalityType DEF Handful

LEMMA HandfulGrows ==
  ASSUME NEW book, NEW later, NEW r, NEW o \in Orders \ handedEarlier,
         \A x \in Orders \ {o} : later[x] = book[x],
         ~Carries(book[o], r), Carries(later[o], r)
  PROVE  Handful(later, r) = Handful(book, r) + 1
<1> DEFINE S == {x \in Orders \ handedEarlier : Carries(book[x], r)}
           T == {x \in Orders \ handedEarlier : Carries(later[x], r)}
<1>1. T = S \cup {o} /\ o \notin S
  OBVIOUS
<1>2. IsFiniteSet(S)
  BY HandfulIsNat
<1> QED BY <1>1, <1>2, FS_AddElement DEF Handful

\* What he has collected is the price of each of them, now and after a step of
\* the same day.
LEMMA CashIsCounted ==
  ASSUME NEW r
  PROVE  /\ CollectedToday(r) = Total * Handful(orders, r)
         /\ handedEarlier' = handedEarlier =>
              CollectedToday(r)' = Total * Handful(orders', r)
BY DEF CollectedToday, Handful

LEMMA CashIsNat ==
  ASSUME NEW r
  PROVE  CollectedToday(r) \in Nat
<1>1. CollectedToday(r) = Total * Handful(orders, r) /\ Handful(orders, r) \in Nat
  BY HandfulIsNat, CashIsCounted
<1> QED BY <1>1, TotalAssumption

\* What the code finds in his hand is that or more: of the orders of an earlier
\* day it counts those that something was done to today (lib/risk.ts
\* riderCashInHand).
LEMMA FoundInHand ==
  ASSUME lapsed \subseteq handedEarlier, NEW r
  PROVE  CashInHand(r) \in Nat /\ CollectedToday(r) <= CashInHand(r)
<1> DEFINE S == {x \in Orders \ handedEarlier : Carries(orders[x], r)}
           T == {x \in Orders \ lapsed : Carries(orders[x], r)}
<1>1. S \subseteq T /\ T \subseteq Orders
  OBVIOUS
<1>2. IsFiniteSet(T)
  BY <1>1, OrdersAssumption, FS_Subset
<1>3. Cardinality(S) <= Cardinality(T) /\ Cardinality(S) \in Nat /\ Cardinality(T) \in Nat
  BY <1>1, <1>2, FS_Subset, FS_CardinalityType
<1>4. ASSUME NEW i \in Nat, NEW j \in Nat, i <= j
      PROVE  Total * i <= Total * j /\ Total * j \in Nat
  BY <1>4, TotalAssumption
<1> QED BY <1>3, <1>4 DEF CollectedToday, CashInHand

\* The courier has room for the whole price: he has collected nothing today, or
\* the ceiling of his zone is that far away.
Room(r) == CollectedToday(r) = 0 \/ CollectedToday(r) + Total <= CashLimit[r]

\* Whoever is on his way with a cash order still has room for it.
RoomForEveryCollection ==
  \A r \in Riders, o \in Orders : Collects(orders[o], r) => Room(r)

-----------------------------------------------------------------------------
(* The inductive invariant.                                                *)

\* What holds in every reachable state.
Inv ==
  /\ TypeOK
  /\ \A o \in Orders : Sound(orders[o])
  /\ OneOrderPerRider
  /\ \A o \in Orders : PaidBackOnce(ledger[o], orders[o])
  /\ WalletNotOverdrawn
  /\ RoomForEveryCollection
  /\ CashWithinCeiling

\* The wallet is credited in the step that settles the order, and in no other.
WalletStep(o, new) ==
  \/ /\ new.method = "wallet" /\ new.refund = "refunded"
          <=> orders[o].method = "wallet" /\ orders[o].refund = "refunded"
     /\ Pay(o) \/ UNCHANGED <<ledger, balance>>
  \/ /\ new.method = "wallet" /\ new.refund = "refunded"
     /\ ~(orders[o].method = "wallet" /\ orders[o].refund = "refunded")
     /\ \E n \in 0..Total : RefundOrder(o, n)

\* A courier who is working on the new order was on it, or was free.
RiderStep(o, new) ==
  IsActiveDelivery(new) /\ new.rider # NoRider =>
    \/ IsActiveDelivery(orders[o]) /\ new.rider = orders[o].rider
    \/ ~HoldsAnother(o, new.rider)

\* In the customer's eyes nothing happened, or a clause of the contract.
KeptStep(o, new) ==
  \/ Account(new) = Account(orders[o])
  \/ Promise!Keeps(Account(orders[o]), Account(new))

\* The step respects the record of the order, leaves the ledger of a settled one
\* alone, and gives cash to collect only to a courier who has room for it.
PastStep(o, new) ==
  /\ Follows(orders[o], new)
  /\ orders[o].settled => ledger' = ledger
  /\ \A r \in Riders : Collects(new, r) => Collects(orders[o], r) \/ Room(r)

\* Order o becomes `new`, and everything Inv says of it and around it survives.
SoundStep(o, new) ==
  /\ orders' = [orders EXCEPT ![o] = new]
  /\ Sound(new)
  /\ cancelling' \subseteq Orders
  /\ otpCheck' \in [Orders -> {"none", "right", "wrong"}]
  /\ \A x \in Orders : otpCheck'[x] # "none" => orders'[x].otp < OtpMax
  /\ WalletStep(o, new)
  /\ RiderStep(o, new)
  /\ KeptStep(o, new)
  /\ PastStep(o, new)

\* A delivery that puts cash into a courier's hand is the only one he was
\* collecting for, so the room he had for it was nobody else's.
LEMMA CashPreserved ==
  ASSUME Inv, NEW o \in Orders, NEW new, SoundStep(o, new), Stamp
  PROVE  RoomForEveryCollection' /\ CashWithinCeiling'
<1>1. orders'[o] = new /\ \A x \in Orders \ {o} : orders'[x] = orders[x]
  BY DEF Inv, TypeOK, SoundStep
<1>2. /\ CashKept(orders[o], new)
      /\ \A r \in Riders : Collects(new, r) => Collects(orders[o], r) \/ Room(r)
  BY DEF SoundStep, PastStep, Follows
<1> SUFFICES ASSUME NEW r \in Riders
             PROVE  /\ \A x \in Orders : Collects(orders'[x], r) => Room(r)'
                    /\ CollectedToday(r)' <= CashLimit[r] \/ CollectedToday(r)' <= Total
  BY DEF RoomForEveryCollection, CashWithinCeiling, Collects, IsActiveDelivery
<1>3. /\ \A x \in Orders : Collects(orders[x], r) => Room(r)
      /\ CollectedToday(r) <= CashLimit[r] \/ CollectedToday(r) <= Total
  BY DEF Inv, RoomForEveryCollection, CashWithinCeiling
<1>d. handedEarlier' = handedEarlier
  BY DEF Stamp
<1>4. CASE o \in handedEarlier \/ (Carries(orders'[o], r) <=> Carries(orders[o], r))
  <2>1. {x \in Orders \ handedEarlier : Carries(orders'[x], r)} =
          {x \in Orders \ handedEarlier : Carries(orders[x], r)}
    BY <1>1, <1>4
  <2>2. CollectedToday(r)' = CollectedToday(r)
    BY <1>d, <2>1, CashIsCounted DEF Handful
  <2>3. Room(r)' <=> Room(r)
    BY <2>2 DEF Room
  <2> QED BY <1>1, <1>2, <1>3, <2>2, <2>3
<1>5. CASE /\ o \notin handedEarlier
           /\ ~(Carries(orders'[o], r) <=> Carries(orders[o], r))
  <2>1. ~Carries(orders[o], r) /\ Carries(orders'[o], r) /\ Collects(orders[o], r)
    BY <1>1, <1>2, <1>5 DEF CashKept
  <2>2. ASSUME NEW x \in Orders PROVE ~Collects(orders'[x], r)
    <3>1. CASE x = o
      BY <2>1, <3>1 DEF Carries, Collects, IsActiveDelivery, TerminalStatuses
    <3>2. CASE x # o
      <4>1. ASSUME Collects(orders[x], r) PROVE FALSE
        BY <2>1, <3>2, <4>1, NoRiderAssumption DEF Inv, OneOrderPerRider, Collects
      <4> QED BY <1>1, <3>2, <4>1
    <3> QED BY <3>1, <3>2
  <2>3. Handful(orders', r) = Handful(orders, r) + 1
    BY <1>1, <1>5, <2>1, HandfulGrows
  <2>4. CollectedToday(r)' = CollectedToday(r) + Total /\ CollectedToday(r) \in Nat
    <3>1. \A n \in Nat : Total * (n + 1) = Total * n + Total
      BY TotalAssumption
    <3>2. Handful(orders, r) \in Nat
      BY HandfulIsNat
    <3> QED BY <1>d, <2>3, <3>1, <3>2, CashIsCounted, CashIsNat
  <2>5. CollectedToday(r) = 0 \/ CollectedToday(r) + Total <= CashLimit[r]
    BY <1>3, <2>1 DEF Room
  <2> QED BY <2>2, <2>4, <2>5, TotalAssumption
<1> QED BY <1>4, <1>5

\* A step that changes one order soundly preserves the whole invariant.
LEMMA SoundStepPreserves ==
  ASSUME Inv, NEW o \in Orders, NEW new, SoundStep(o, new), Stamp
  PROVE  Inv'
<1>1. /\ orders \in [Orders -> Order] /\ new \in Order
      /\ orders' = [orders EXCEPT ![o] = new]
  BY DEF Inv, TypeOK, SoundStep, Sound
<1>2. orders'[o] = new /\ \A x \in Orders \ {o} : orders'[x] = orders[x]
  BY <1>1
<1>3. \A x \in Orders : Sound(orders'[x])
  BY <1>2 DEF Inv, SoundStep
<1>4. OneOrderPerRider'
  <2> SUFFICES ASSUME NEW x \in Orders, NEW y \in Orders, x # y,
                      IsActiveDelivery(orders'[x]), IsActiveDelivery(orders'[y]),
                      orders'[x].rider # NoRider, orders'[x].rider = orders'[y].rider
               PROVE  FALSE
    BY DEF OneOrderPerRider, IsActiveDelivery
  <2>1. CASE x # o /\ y # o
    BY <2>1, <1>2 DEF Inv, OneOrderPerRider
  <2>2. CASE x = o
    BY <2>2, <1>2 DEF Inv, OneOrderPerRider, SoundStep, RiderStep, HoldsAnother
  <2>3. CASE y = o
    BY <2>3, <1>2 DEF Inv, OneOrderPerRider, SoundStep, RiderStep, HoldsAnother
  <2> QED BY <2>1, <2>2, <2>3
<1>5. /\ ledger' \in [Orders -> Seq(Txn)] /\ balance' \in Int /\ balance' >= 0
      /\ \A x \in Orders : PaidBackOnce(ledger'[x], orders'[x])
  <2>0. /\ ledger \in [Orders -> Seq(Txn)] /\ balance \in Int /\ balance >= 0
        /\ \A x \in Orders : PaidBackOnce(ledger[x], orders[x])
    BY DEF Inv, TypeOK, WalletNotOverdrawn
  <2>1. CASE UNCHANGED <<ledger, balance>>
           /\ (new.method = "wallet" /\ new.refund = "refunded"
                 <=> orders[o].method = "wallet" /\ orders[o].refund = "refunded")
    BY <2>0, <2>1, <1>2 DEF PaidBackOnce
  <2>2. ASSUME NEW type \in {"payment", "refund"}, NEW n \in 0..Total, NEW delta \in Int,
               Post(o, type, n, delta), balance + delta >= 0,
               PaidBackOnce(Append(ledger[o], [type |-> type, amount |-> n]), new)
        PROVE  /\ ledger' \in [Orders -> Seq(Txn)] /\ balance' \in Int /\ balance' >= 0
               /\ \A x \in Orders : PaidBackOnce(ledger'[x], orders'[x])
    <3>1. [type |-> type, amount |-> n] \in Txn
      BY DEF Txn
    <3>2. /\ ledger' \in [Orders -> Seq(Txn)]
          /\ ledger'[o] = Append(ledger[o], [type |-> type, amount |-> n])
          /\ \A x \in Orders \ {o} : ledger'[x] = ledger[x]
      BY <3>1, <2>0, <2>2 DEF Post
    <3>3. balance' = balance + delta
      BY <2>2 DEF Post
    <3>4. balance' \in Int /\ balance' >= 0
      BY <3>3, <2>0, <2>2
    <3>5. ASSUME NEW x \in Orders PROVE PaidBackOnce(ledger'[x], orders'[x])
      BY <3>2, <2>0, <2>2, <1>2
    <3> QED BY <3>2, <3>4, <3>5
  <2>3. CASE Pay(o) /\ (new.method = "wallet" /\ new.refund = "refunded"
                 <=> orders[o].method = "wallet" /\ orders[o].refund = "refunded")
    <3>1. CASE balance >= Total /\ ~IsSettled(ledger[o], "payment")
      <4>1. Post(o, "payment", Total, -Total)
        BY <2>3, <3>1 DEF Pay
      <4>2. Total \in 0..Total /\ -Total \in Int /\ balance + (-Total) >= 0
        BY <3>1, <2>0, TotalAssumption
      <4> DEFINE t == [type |-> "payment", amount |-> Total]
      <4>3. t \in Txn /\ t.type # "refund"
        BY <4>2 DEF Txn
      <4>4. Credits(Append(ledger[o], t)) = Credits(ledger[o])
        BY <4>3, <2>0, AppendCredits
      <4>5. PaidBackOnce(Append(ledger[o], t), new)
        BY <4>4, <2>3, <2>0 DEF PaidBackOnce
      <4> QED BY <4>1, <4>2, <4>5, <2>2
    <3>2. CASE ~(balance >= Total /\ ~IsSettled(ledger[o], "payment"))
      BY <3>2, <2>3, <2>1 DEF Pay
    <3> QED BY <3>1, <3>2
  <2>4. CASE /\ new.method = "wallet" /\ new.refund = "refunded"
             /\ ~(orders[o].method = "wallet" /\ orders[o].refund = "refunded")
             /\ \E n \in 0..Total : RefundOrder(o, n)
    <3>1. PICK n \in 0..Total : RefundOrder(o, n)
      BY <2>4
    <3>2. Credits(ledger[o]) = {}
      BY <2>0, <2>4 DEF PaidBackOnce
    <3>3. Post(o, "refund", n, n)
      BY <3>1, <3>2 DEF RefundOrder, IsSettled, Credits
    <3> DEFINE t == [type |-> "refund", amount |-> n]
    <3>4. t \in Txn /\ t.type = "refund"
      BY DEF Txn
    <3>5. PaidBackOnce(Append(ledger[o], t), new)
      BY <3>2, <3>4, <2>0, <2>4, CreditOnce DEF PaidBackOnce
    <3>6. n \in Int /\ balance + n >= 0
      BY <2>0, TotalAssumption
    <3> QED BY <3>3, <3>5, <3>6, <2>2
  <2> QED BY <2>1, <2>3, <2>4 DEF SoundStep, WalletStep
<1>6. RoomForEveryCollection' /\ CashWithinCeiling'
  BY CashPreserved
<1>7. lapsed' \subseteq handedEarlier' /\ handedEarlier' \subseteq Orders
  BY DEF Inv, TypeOK, Stamp
<1> QED BY <1>1, <1>2, <1>3, <1>4, <1>5, <1>6, <1>7
        DEF Inv, TypeOK, SoundStep, WalletNotOverdrawn

-----------------------------------------------------------------------------
(* Every action is a sound step.                                           *)

\* Whatever is typed into the refund field, what is approved is in 0..Total.
LEMMA ClampInRange ==
  ASSUME NEW n \in Int
  PROVE  Clamp(n) \in 0..Total
BY TotalAssumption DEF Clamp

\* Every patch a surface builds is a patch.
LEMMA PatchType ==
  /\ NoPatch \in Patch
  /\ [NoPatch EXCEPT !.prep = TRUE] \in Patch
  /\ [NoPatch EXCEPT !.cash = TRUE] \in Patch
  /\ [NoPatch EXCEPT !.prep = TRUE, !.cash = TRUE] \in Patch
  /\ \A code \in Codes : [NoPatch EXCEPT !.code = code, !.checks = TRUE] \in Patch
  /\ \A code \in Codes : [NoPatch EXCEPT !.checks = TRUE, !.code = code] \in Patch
  /\ \A r \in Riders : [NoPatch EXCEPT !.rider = r] \in Patch
  /\ \A r \in Riders : [NoPatch EXCEPT !.rider = r].rider = r
<1>1. 0 \in 0..Total
  BY TotalAssumption
<1> QED BY <1>1 DEF NoPatch, Patch

\* Nothing but the order moves: no check begins, no cancellation of a stranger.
Quiet ==
  /\ cancelling' \subseteq Orders
  /\ otpCheck' \in [Orders -> {"none", "right", "wrong"}]
  /\ \A x \in Orders : otpCheck'[x] # "none" => otpCheck[x] # "none"

\* A quiet rewrite of one order that keeps its attempt counter is a sound step.
LEMMA QuietStep ==
  ASSUME Inv, NEW o \in Orders, NEW new, Quiet, Sound(new),
         orders' = [orders EXCEPT ![o] = new], new.otp = orders[o].otp,
         WalletStep(o, new), RiderStep(o, new), KeptStep(o, new), PastStep(o, new)
  PROVE  SoundStep(o, new)
BY DEF Inv, TypeOK, SoundStep, Quiet

\* A courier who is not over his ceiling has room for a cash order that is due
\* (lib/risk.ts overCashLimit).
LEMMA RoomToCollect ==
  ASSUME Inv, NEW ord, ord.method = "cash", ord.payment = "pending", NEW r \in Riders,
         ~OverCashLimit(ord, r)
  PROVE  Room(r)
<1>1. /\ CollectedToday(r) \in Nat /\ CashInHand(r) \in Nat
      /\ CollectedToday(r) <= CashInHand(r)
  BY CashIsNat, FoundInHand DEF Inv, TypeOK
<1>2. CashDueOn(ord) = Total
  BY DEF CashDueOn
<1>3. CASE Total = 0
  <2>1. CollectedToday(r) = 0
    <3>1. \A n \in Nat : 0 * n = 0
      OBVIOUS
    <3>2. CollectedToday(r) = Total * Handful(orders, r) /\ Handful(orders, r) \in Nat
      BY HandfulIsNat, CashIsCounted
    <3> QED BY <1>3, <3>1, <3>2
  <2> QED BY <2>1 DEF Room
<1>4. CASE Total > 0
  BY <1>1, <1>2, <1>4, TotalAssumption, FleetAssumption DEF OverCashLimit, Room
<1> QED BY <1>3, <1>4, TotalAssumption

\* A step that leaves an order as it is, money and courier, respects its record.
LEMMA FollowsItself ==
  ASSUME NEW old, NEW new, MoneyKept(old, new), new.status = old.status,
         new.rider = old.rider, new.rejected = old.rejected, new.method = old.method
  PROVE  /\ Follows(old, new)
         /\ \A r \in Riders : Collects(new, r) => Collects(old, r)
BY DEF Follows, CourierKept, PathKept, ClaimOpened, CashKept, Carries, Collects,
       IsActiveDelivery, TerminalStatuses

\* advance(): a transition, and the wallet refund it may settle, is a sound step
\* provided an assignment names a courier who carries nothing else and is not
\* over his ceiling.
LEMMA AdvanceSound ==
  ASSUME Inv, Quiet, NEW o \in Orders, NEW to, NEW actor, NEW patch \in Patch,
         to # "refunded",
         to = "rider-assigned" =>
           ~HoldsAnother(o, patch.rider) /\ ~OverCashLimit(orders[o], patch.rider),
         Move(o, to, actor, patch)
  PROVE  \E new : SoundStep(o, new)
<1> DEFINE ord == orders[o]
           moved == Transition(ord, to, patch)
           n == Clamp(RefundAmountOn(moved))
           agreed == [moved EXCEPT !.refund = "approved", !.amount = n]
<1>1. Sound(ord) /\ Accepts(o, ord, to, actor, patch) /\ Advance(o, to, patch)
  BY DEF Inv, Move
<1>2. Sound(moved) /\ moved \in Order
  BY <1>1, TransitionSound DEF Sound
<1>3. CanTransition(ord.status, to)
  BY <1>1 DEF Accepts
<1>4. /\ moved.otp = ord.otp /\ moved.method = ord.method
      /\ moved.refund = "refunded" <=> ord.refund = "refunded"
      /\ IsActiveDelivery(moved) => IsActiveDelivery(ord)
      /\ to # "rider-assigned" => moved.rider \in {ord.rider, NoRider}
      /\ to = "rider-assigned" => moved.rider \in {ord.rider, patch.rider}
  BY <1>1, <1>3, TransitionKeeps
<1>a. \/ Account(moved) = Account(ord) \/ Promise!Serve(Account(ord), Account(moved))
      \/ Promise!Close(Account(ord), Account(moved))
      \/ /\ Account(ord).stage = "open"
         /\ Account(moved) = [Promise!Owed(Account(ord)) EXCEPT !.stage = "ended"]
  BY <1>1, <1>3, TransitionKept
<1>b. moved.status = to
  BY <1>1, <1>3, TransitionKeeps
<1>5. ApproveRefund(moved, RefundAmountOn(moved)) = agreed
  BY DEF ApproveRefund
<1>c. /\ Follows(ord, moved)
      /\ \A r \in Riders : Collects(moved, r) => Collects(ord, r) \/ Room(r)
  <2>1. /\ Follows(ord, moved)
        /\ \A r \in Riders :
             Collects(moved, r) =>
               \/ Collects(ord, r)
               \/ /\ to = "rider-assigned" /\ r = patch.rider
                  /\ ord.method = "cash" /\ ord.payment = "pending"
    BY <1>1, <1>3, TransitionFollows
  <2> QED BY <2>1, RoomToCollect
<1> HIDE DEF moved
<1>6. RiderStep(o, moved)
  BY <1>4 DEF RiderStep
<1>7. CASE OwesWalletRefund(moved)
  <2> DEFINE new == Settle(agreed)
  <2>1. moved.method = "wallet" /\ moved.payment = "paid" /\ moved.refund # "refunded"
    BY <1>7 DEF OwesWalletRefund, CanDecideRefund, IsRefundable
  <2>2. n \in 0..Total /\ agreed.amount = n
    BY <1>2, ClampInRange, TotalAssumption DEF RefundAmountOn, Order
  <2>3. orders' = [orders EXCEPT ![o] = new] /\ RefundOrder(o, n)
    BY <1>1, <1>5, <1>7, <2>2 DEF Advance, moved
  <2> HIDE DEF n
  <2>4. /\ Sound(new) /\ new.refund = "refunded" /\ new.otp = moved.otp
        /\ new.method = moved.method /\ new.rider = moved.rider
        /\ IsActiveDelivery(new) => IsActiveDelivery(moved)
    BY <1>2, <2>1, <2>2, SettleSound
  <2> HIDE DEF new
  <2>5. WalletStep(o, new)
    BY <1>4, <2>1, <2>2, <2>3, <2>4 DEF WalletStep
  <2>6. RiderStep(o, new)
    BY <1>6, <2>4 DEF RiderStep
  <2>7. KeptStep(o, new)
    <3> DEFINE a == Account(ord)
               b == Account(moved)
    <3>1. Stage(moved.status) = "ended"
      BY <1>7, Stages DEF OwesWalletRefund
    <3>2. a.stage = "open" /\ b = [Promise!Owed(a) EXCEPT !.stage = "ended"]
      <4>1. b.stage = "ended" /\ DOMAIN a = {"stage", "price", "claim", "agreed", "back"}
        BY <3>1 DEF Account
      <4>2. a.stage = Stage(ord.status)
        BY DEF Account
      <4>3. Stage(ord.status) # "ended"
        BY <1>3, <1>b, <1>7, <1>1, Stages DEF OwesWalletRefund, CanTransition, Transitions, Status,
               TerminalStatuses
      <4> QED BY <4>1, <4>2, <4>3, <1>a DEF Promise!Serve, Promise!Close
    <3>3. /\ moved.payment = "paid" /\ moved.refund \in {"none", "requested"}
          /\ moved.refund = "requested" => moved.amount = Total
      BY <1>2, <1>7 DEF OwesWalletRefund, CanDecideRefund, IsRefundable, Sound
    <3>4. b.price = "taken" /\ b.claim \in {"none", "requested"}
      BY <3>3 DEF Account
    <3>5. b.claim = "requested"
      BY <3>2, <3>4 DEF Promise!Owed, Account
    <3>6. n = Total
      <4>1. moved.amount = Total
        BY <3>3, <3>5 DEF Account
      <4> QED BY <4>1, TotalAssumption DEF n, Clamp, RefundAmountOn
    <3>7. Account(new) = [b EXCEPT !.claim = "refunded", !.back = Total]
      <4>1. Account(new) = [b EXCEPT !.claim = "refunded", !.agreed = 0,
                                     !.back = Promise!Due([b EXCEPT !.agreed = n])]
        BY <1>2, <2>1, <2>2, SettleKept DEF new
      <4>2. /\ b.agreed = 0
            /\ b = [stage |-> b.stage, price |-> b.price, claim |-> b.claim,
                    agreed |-> b.agreed, back |-> b.back]
        BY <3>3 DEF Account
      <4>3. Promise!Due([b EXCEPT !.agreed = n]) = Total
        <5> HIDE DEF b
        <5> QED BY <3>6, <4>2 DEF Promise!Due
      <4> HIDE DEF b
      <4> QED BY <4>1, <4>2, <4>3
    <3>8. Promise!Fail(a, Account(new))
      BY <3>2, <3>4, <3>7 DEF Promise!Fail, Promise!Undecided
    <3> QED BY <3>8 DEF KeptStep, Promise!Keeps
  <2>8. PastStep(o, new)
    <3>1. /\ Follows(moved, new) /\ new.refund = "refunded"
          /\ CanTransition(moved.status, "refunded") =>
               new.amount = n /\ new.status = "refunded"
          /\ \A r \in Riders : Collects(new, r) => Collects(moved, r)
      BY <1>2, <2>1, <2>2, SettleFollows DEF new
    <3>2. CanTransition(moved.status, "refunded")
      BY <1>7 DEF OwesWalletRefund, CanTransition, Transitions, Status
    <3>3. ClaimOpened(ord, new)
      <4>1. SUFFICES ASSUME ord.status \notin TerminalStatuses,
                            ord.payment = "paid", ord.refund = "none"
                     PROVE  new.amount = Total
        BY <3>1 DEF ClaimOpened
      <4>2. moved.amount = Total
        BY <4>1, <1>c, <1>7 DEF Follows, ClaimOpened, OwesWalletRefund
      <4>3. n = Total
        BY <4>2, TotalAssumption DEF n, Clamp, RefundAmountOn
      <4> QED BY <3>1, <3>2, <4>3
    <3>4. \A r \in Riders : Carries(new, r) => Carries(moved, r)
      <4>1. \A r \in Riders : Carries(new, r) => Carries(moved, r) \/ Collects(moved, r)
        BY <3>1 DEF Follows, CashKept
      <4>2. ~IsActiveDelivery(moved)
        BY <1>7 DEF OwesWalletRefund, IsActiveDelivery, TerminalStatuses
      <4> QED BY <4>1, <4>2 DEF Collects
    <3>p. PathKept(ord, new)
      <4>1. to \in {"cancelled", "rejected", "returned"} /\ new.status = "refunded"
        BY <1>b, <1>7, <3>1, <3>2 DEF OwesWalletRefund
      <4> QED BY <1>3, <1>b, <3>1, <3>2, <4>1 DEF PathKept
    <3>5. Follows(ord, new)
      BY <1>2, <1>c, <3>1, <3>3, <3>4, <3>p, FollowsTwice
    <3>6. ~ord.settled
      BY <1>1, <1>4, <2>1 DEF Sound
    <3> QED BY <1>c, <3>1, <3>5, <3>6 DEF PastStep
  <2> QED BY <1>4, <2>3, <2>4, <2>5, <2>6, <2>7, <2>8, QuietStep
<1>8. CASE ~OwesWalletRefund(moved)
  <2>1. orders' = [orders EXCEPT ![o] = moved] /\ UNCHANGED <<ledger, balance>>
    BY <1>1, <1>8 DEF Advance, moved
  <2>2. WalletStep(o, moved)
    BY <1>4, <2>1 DEF WalletStep
  <2>3. KeptStep(o, moved)
    BY <1>a DEF KeptStep, Promise!Keeps, Promise!Fail
  <2>4. PastStep(o, moved)
    BY <1>c, <2>1 DEF PastStep
  <2> QED BY <1>2, <1>4, <1>6, <2>1, <2>2, <2>3, <2>4, QuietStep
<1> QED BY <1>7, <1>8

\* A step that leaves the orders and the wallet alone is a sound step.
LEMMA UnchangedSound ==
  ASSUME Inv, Quiet, NEW o \in Orders, UNCHANGED <<orders, ledger, balance>>
  PROVE  \E new : SoundStep(o, new)
<1>1. orders' = [orders EXCEPT ![o] = orders[o]] /\ Sound(orders[o])
  BY DEF Inv, TypeOK
<1>2. WalletStep(o, orders[o]) /\ RiderStep(o, orders[o]) /\ KeptStep(o, orders[o])
  BY DEF WalletStep, RiderStep, KeptStep
<1>3. PastStep(o, orders[o])
  BY FollowsItself DEF PastStep, MoneyKept
<1> QED BY <1>1, <1>2, <1>3, QuietStep

\* An order rewritten in place, its money and its courier left alone.
LEMMA RewriteSound ==
  ASSUME Inv, Quiet, NEW o \in Orders, NEW new, Sound(new),
         orders' = [orders EXCEPT ![o] = new], UNCHANGED <<ledger, balance>>,
         new.otp = orders[o].otp, new.method = orders[o].method,
         new.refund = "refunded" <=> orders[o].refund = "refunded",
         new.rider = orders[o].rider, new.status = orders[o].status, KeptStep(o, new),
         new.rejected = orders[o].rejected, MoneyKept(orders[o], new)
  PROVE  \E n : SoundStep(o, n)
<1>1. WalletStep(o, new) /\ RiderStep(o, new)
  BY DEF WalletStep, RiderStep, IsActiveDelivery
<1>2. PastStep(o, new)
  BY FollowsItself DEF PastStep
<1> QED BY <1>1, <1>2, QuietStep

\* A page with nothing but a basket satisfies everything an order must.
LEMMA BasketSound == Sound(Basket)
<1>1. Basket \in Order
  <2>1. 0 \in 0..Total /\ 0 \in 0..OtpMax /\ 0 \in 0..HandoverMax
    BY TotalAssumption, AttemptsAssumption
  <2> QED BY <2>1 DEF Basket, Order, NotPlaced, Fulfillment, Method, RefundState
<1> QED BY <1>1 DEF Sound, Basket, NotPlaced

\* Nothing has been recorded of an order that is still at the checkout.
LEMMA NothingRecorded ==
  ASSUME NEW old, Sound(old), old.status \in NotPlaced, NEW new, Sound(new),
         new.rejected = {},
         new.status \in NotPlaced \cup {"scheduled", "placed"}
  PROVE  /\ Follows(old, new) /\ ~old.settled
         /\ \A r \in Riders : ~Collects(new, r)
<1>1. old.rider = NoRider /\ new.rider = NoRider /\ ~old.settled /\ old.rejected = {}
  BY DEF Sound, NotPlaced
<1> QED BY <1>1, NoRiderAssumption
        DEF Follows, MoneyKept, CourierKept, PathKept, ClaimOpened, CashKept, Carries,
            Collects, NotPlaced, TerminalStatuses

\* Authorising a tender and placing the order are sound steps, even when the
\* wallet no longer covers the order and the debit is refused.
LEMMA CheckoutSound ==
  ASSUME Inv, NEW o \in Orders, Checkout(o)
  PROVE  \E new : SoundStep(o, new)
<1> DEFINE ord == orders[o]
<1>0. Sound(ord) /\ ord \in Order
  BY DEF Inv, Sound
<1>1. Quiet
  BY DEF Checkout, Authorise, PlaceOrder, RefuseOrder, Quiet, Inv, TypeOK
<1>2. ASSUME NEW kind \in Kinds, Authorise(o, kind)
      PROVE  \E new : SoundStep(o, new)
  <2> DEFINE new == [ord EXCEPT !.status = "authorised", !.fulfillment = kind[1],
                                !.method = kind[2]]
  <2>1. kind[1] \in Fulfillment /\ kind[2] \in Method
    BY KindsAssumption
  <2>2. ord.status \in NotPlaced /\ orders' = [orders EXCEPT ![o] = new]
    BY <1>2, <1>0 DEF Authorise, NotPlaced, Inv, TypeOK
  <2>3. Sound(new) /\ new.otp = ord.otp
    <3>1. new \in Order /\ new.otp = ord.otp
      BY <1>0, <2>1 DEF Order, NotPlaced
    <3> QED BY <3>1, <1>0, <2>2 DEF Sound, Order, NotPlaced
  <2>4. WalletStep(o, new) /\ RiderStep(o, new)
    BY <1>0, <1>2, <2>2 DEF Authorise, WalletStep, RiderStep, IsActiveDelivery, Sound, Order, NotPlaced
  <2>5. KeptStep(o, new)
    <3>1. /\ new.status \in NotPlaced /\ new.payment = ord.payment
          /\ new.refund = ord.refund /\ new.settled = ord.settled /\ new.amount = ord.amount
      BY <1>0 DEF Order, NotPlaced
    <3> HIDE DEF new
    <3> QED BY <2>2, <3>1, Stages DEF KeptStep, Account
  <2>6. PastStep(o, new)
    <3>1. new.status = "authorised" /\ new.rejected = {}
      BY <1>0, <2>2 DEF Sound, Order
    <3> HIDE DEF new
    <3> QED BY <1>0, <2>2, <2>3, <3>1, NothingRecorded DEF PastStep, NotPlaced
  <2> QED BY <1>1, <2>2, <2>3, <2>4, <2>5, <2>6, QuietStep
<1>3. ASSUME NEW scheduled \in BOOLEAN, PlaceOrder(o, scheduled)
      PROVE  \E new : SoundStep(o, new)
  <2> DEFINE new == [ord EXCEPT !.status = IF scheduled THEN "scheduled" ELSE "placed",
                        !.payment = IF ord.method = "cash" THEN "pending" ELSE "paid"]
  <2>2. ord.status = "authorised" /\ orders' = [orders EXCEPT ![o] = new]
    BY <1>3, <1>0 DEF PlaceOrder, Inv, TypeOK
  <2>3. Sound(new) /\ new.otp = ord.otp
    <3>1. new \in Order /\ new.otp = ord.otp
      BY <1>0 DEF Order, Status
    <3> QED BY <3>1, <1>0, <2>2 DEF Sound, Order, NotPlaced
  <2>4. WalletStep(o, new) /\ RiderStep(o, new)
    BY <1>0, <1>3, <2>2 DEF PlaceOrder, WalletStep, RiderStep, Sound, Order, NotPlaced
  <2>5. KeptStep(o, new)
    <3>1. /\ new.status \in {"scheduled", "placed"} /\ new.refund = ord.refund
          /\ new.settled = ord.settled /\ new.amount = ord.amount
      BY <1>0 DEF Order
    <3>2. Stage(ord.status) = "basket" /\ Stage(new.status) = "open"
      BY <2>2, <3>1, Stages DEF NotPlaced, Status, TerminalStatuses
    <3> HIDE DEF new
    <3>3. \E price \in {"due", "taken"} :
            Account(new) = [Account(ord) EXCEPT !.stage = "open", !.price = price]
      <4> DEFINE a == Account(ord)
                 b == Account(new)
      <4>1. /\ b.stage = "open" /\ b.claim = a.claim
            /\ b.agreed = a.agreed /\ b.back = a.back
            /\ b.price \in {"due", "taken"}
        BY <3>1, <3>2 DEF Account
      <4>2. /\ a = [stage |-> a.stage, price |-> a.price, claim |-> a.claim,
                    agreed |-> a.agreed, back |-> a.back]
            /\ b = [stage |-> b.stage, price |-> b.price, claim |-> b.claim,
                    agreed |-> b.agreed, back |-> b.back]
        BY DEF Account
      <4> HIDE DEF a, b
      <4>3. b = [a EXCEPT !.stage = "open", !.price = b.price]
        BY <4>1, <4>2
      <4> QED BY <4>1, <4>3 DEF a, b
    <3>4. Account(ord).stage = "basket"
      BY <3>2 DEF Account
    <3>5. Promise!Accept(Account(ord), Account(new))
      BY <3>3, <3>4 DEF Promise!Accept
    <3> QED BY <3>5 DEF KeptStep, Promise!Keeps
  <2>6. PastStep(o, new)
    <3>1. new.status \in {"scheduled", "placed"} /\ new.rejected = {}
      BY <1>0, <2>2 DEF Sound, Order, NotPlaced
    <3> HIDE DEF new
    <3> QED BY <1>0, <2>2, <2>3, <3>1, NothingRecorded DEF PastStep, NotPlaced
  <2> QED BY <1>1, <2>2, <2>3, <2>4, <2>5, <2>6, QuietStep
<1>4. CASE RefuseOrder(o)
  <2> DEFINE new == Basket
  <2>1. /\ ord.status = "authorised" /\ UNCHANGED <<ledger, balance>>
        /\ orders' = [orders EXCEPT ![o] = new]
    BY <1>4 DEF RefuseOrder
  <2>2. Sound(new) /\ new.refund = "none" /\ new.rider = NoRider /\ ord.refund = "none"
    BY <2>1, <1>0, BasketSound DEF Sound, Basket, NotPlaced
  <2>3. \A x \in Orders : otpCheck'[x] # "none" => orders'[x].otp < OtpMax
    <3>1. new.otp = 0 /\ ord.otp \in Nat
      BY <1>0 DEF Basket, Order
    <3>2. /\ \A x \in Orders : otpCheck[x] # "none" => orders[x].otp < OtpMax
          /\ otpCheck' = otpCheck /\ orders \in [Orders -> Order]
      BY <1>4 DEF Inv, TypeOK, RefuseOrder
    <3> QED BY <2>1, <3>1, <3>2, AttemptsAssumption
  <2>4. WalletStep(o, new) /\ RiderStep(o, new)
    BY <2>1, <2>2 DEF WalletStep, RiderStep
  <2>5. KeptStep(o, new)
    <3>1. /\ new.status \in NotPlaced /\ new.payment = "pending" /\ new.refund = "none"
          /\ ~new.settled /\ ord.status \in NotPlaced
      BY <2>1 DEF Basket, NotPlaced
    <3>2. ord.payment = "pending" /\ ord.refund = "none" /\ ~ord.settled
      BY <1>0, <3>1 DEF Sound, Order
    <3> QED BY <3>1, <3>2, Stages DEF KeptStep, Account
  <2>6. PastStep(o, new)
    <3>1. new.status \in NotPlaced /\ new.rejected = {} /\ ord.status \in NotPlaced
      BY <2>1 DEF Basket, NotPlaced
    <3> QED BY <1>0, <2>2, <3>1, NothingRecorded DEF PastStep
  <2> QED BY <1>1, <2>1, <2>2, <2>3, <2>4, <2>5, <2>6 DEF SoundStep, Quiet
<1> QED BY <1>2, <1>3, <1>4 DEF Checkout

\* The customer's actions are sound steps, a cancellation applied late included.
LEMMA CustomerSound ==
  ASSUME Inv, NEW o \in Orders, Customer(o)
  PROVE  \E new : SoundStep(o, new)
<1> DEFINE ord == orders[o]
<1>0. Sound(ord) /\ ord \in Order
  BY DEF Inv, Sound
<1>1. Quiet
  BY DEF Customer, RequestCancel, CommitCancel, RefuseCancel, CustomerComplete, AskRefund,
         RateOrder, Quiet, Inv, TypeOK
<1>2. CASE RequestCancel(o) \/ RefuseCancel(o)
  BY <1>1, <1>2, UnchangedSound DEF RequestCancel, RefuseCancel
<1>3. CASE CommitCancel(o)
  BY <1>1, <1>3, AdvanceSound, PatchType DEF CommitCancel
<1>4. CASE CustomerComplete(o)
  BY <1>1, <1>4, AdvanceSound, PatchType DEF CustomerComplete
<1>5. CASE AskRefund(o)
  <2> DEFINE new == [ord EXCEPT !.refund = "requested", !.amount = Total]
  <2>0. ord.refund = "none" /\ ord.status \notin NotPlaced
    BY <1>5 DEF AskRefund, IsFailure, NotPlaced
  <2>1. orders' = [orders EXCEPT ![o] = new] /\ UNCHANGED <<ledger, balance>>
    <3>1. /\ orders' = [orders EXCEPT ![o] = RequestRefund(@)]
          /\ UNCHANGED <<ledger, balance>>
      BY <1>5 DEF AskRefund
    <3>2. RequestRefund(ord) = new
      BY DEF RequestRefund
    <3> QED BY <3>1, <3>2
  <2>2. new \in Order
    <3>1. Total \in 0..Total
      BY TotalAssumption
    <3> QED BY <3>1, <1>0 DEF Order, RefundState
  <2>3. Sound(new)
    BY <1>0, <2>0, <2>2 DEF Sound, Order, NotPlaced
  <2>4. /\ new.otp = ord.otp /\ new.method = ord.method
        /\ new.refund = "refunded" <=> ord.refund = "refunded"
        /\ new.rider = ord.rider /\ new.status = ord.status
        /\ new.rejected = ord.rejected /\ MoneyKept(ord, new)
    BY <1>0, <2>0 DEF Order, Sound, MoneyKept
  <2>5. KeptStep(o, new)
    <3>1. Stage(ord.status) \in {"open", "ended"}
      BY <1>5, Stages DEF AskRefund, IsFailure, Status, TerminalStatuses
    <3>2. ~ord.settled
      BY <1>0, <2>0 DEF Sound
    <3>3. /\ new.refund = "requested" /\ new.settled = ord.settled
          /\ new.payment = ord.payment
      BY <1>0 DEF Order
    <3> HIDE DEF new
    <3>4. Account(new) = [Account(ord) EXCEPT !.claim = "requested"]
      BY <2>0, <2>4, <3>2, <3>3 DEF Account
    <3>5. Account(ord).stage \in {"open", "ended"} /\ Account(ord).claim = "none"
      BY <2>0, <3>1 DEF Account
    <3> QED BY <3>4, <3>5 DEF KeptStep, Promise!Keeps, Promise!Ask
  <2> QED BY <1>1, <2>1, <2>3, <2>4, <2>5, RewriteSound
<1>6. CASE RateOrder(o)
  <2> DEFINE new == [ord EXCEPT !.rated = TRUE]
  <2>1. orders' = [orders EXCEPT ![o] = new] /\ UNCHANGED <<ledger, balance>>
    BY <1>6, <1>0 DEF RateOrder, Inv, TypeOK
  <2>2. new \in Order
    BY <1>0 DEF Order
  <2>3. Sound(new)
    BY <1>0, <2>2 DEF Sound, Order, NotPlaced
  <2>4. /\ new.otp = ord.otp /\ new.method = ord.method /\ new.refund = ord.refund
        /\ new.rider = ord.rider /\ new.status = ord.status
        /\ new.rejected = ord.rejected /\ MoneyKept(ord, new)
    BY <1>0 DEF Order, MoneyKept
  <2>5. KeptStep(o, new)
    <3>1. /\ new.payment = ord.payment /\ new.settled = ord.settled
          /\ new.amount = ord.amount
      BY <1>0 DEF Order
    <3> QED BY <2>4, <3>1 DEF KeptStep, Account
  <2> QED BY <1>1, <2>1, <2>3, <2>4, <2>5, RewriteSound
<1> QED BY <1>2, <1>3, <1>4, <1>5, <1>6 DEF Customer

\* The kitchen's moves, the handover at the counter and a refused code are sound
\* steps; the attempt counter stops at the lock.
LEMMA CounterSound ==
  ASSUME Inv, NEW o \in Orders, RestaurantMove(o) \/ Counter(o)
  PROVE  \E new : SoundStep(o, new)
<1> DEFINE ord == orders[o]
<1>0. Sound(ord) /\ ord \in Order
  BY DEF Inv, Sound
<1>1. Quiet
  BY DEF RestaurantMove, Counter, Handover, WrongHandoverCode, Quiet, Inv, TypeOK
<1>2. CASE RestaurantMove(o)
  <2>1. PICK to \in RestaurantActions(ord) :
           Move(o, to, "restaurant", [NoPatch EXCEPT !.prep = TRUE])
    BY <1>2 DEF RestaurantMove
  <2>2. to # "refunded" /\ to # "rider-assigned"
    BY DEF RestaurantActions
  <2> QED BY <1>1, <2>1, <2>2, AdvanceSound, PatchType
<1>3. ASSUME NEW code \in Codes, NEW actor, Handover(o, actor, code)
      PROVE  \E new : SoundStep(o, new)
  BY <1>1, <1>3, AdvanceSound, PatchType DEF Handover
<1>4. ASSUME NEW code \in Codes, WrongHandoverCode(o, code)
      PROVE  \E new : SoundStep(o, new)
  <2> DEFINE new == [ord EXCEPT !.handover = @ + 1]
  <2>1. orders' = [orders EXCEPT ![o] = new] /\ UNCHANGED <<ledger, balance>>
    BY <1>4, <1>0 DEF WrongHandoverCode, Inv, TypeOK
  <2>2. new \in Order
    <3>1. ord.handover \in 0..HandoverMax /\ ~(ord.handover >= HandoverMax)
      BY <1>0, <1>4 DEF WrongHandoverCode, IsHandoverLocked, Order
    <3>2. ord.handover + 1 \in 0..HandoverMax
      BY <3>1, AttemptsAssumption
    <3> QED BY <3>2, <1>0 DEF Order
  <2>3. Sound(new)
    BY <1>0, <2>2 DEF Sound, Order, NotPlaced
  <2>4. /\ new.otp = ord.otp /\ new.method = ord.method /\ new.refund = ord.refund
        /\ new.rider = ord.rider /\ new.status = ord.status
        /\ new.rejected = ord.rejected /\ MoneyKept(ord, new)
    BY <1>0 DEF Order, MoneyKept
  <2>5. KeptStep(o, new)
    <3>1. /\ new.payment = ord.payment /\ new.settled = ord.settled
          /\ new.amount = ord.amount
      BY <1>0 DEF Order
    <3> QED BY <2>4, <3>1 DEF KeptStep, Account
  <2> QED BY <1>1, <2>1, <2>3, <2>4, <2>5, RewriteSound
<1> QED BY <1>2, <1>3, <1>4 DEF Counter

\* assignRider() is a sound step: it checks that the courier is free first.
LEMMA AssignSound ==
  ASSUME Inv, Quiet, NEW o \in Orders, NEW r \in Riders, AssignRider(o, r)
  PROVE  \E new : SoundStep(o, new)
BY AdvanceSound, PatchType DEF AssignRider

\* Reassignment, two transitions in one step, is a sound step whether the second
\* is refused or not.
LEMMA ReassignSound ==
  ASSUME Inv, NEW o \in Orders, NEW r \in Riders, ReassignRider(o, r)
  PROVE  \E new : SoundStep(o, new)
<1> DEFINE ord == orders[o]
           patch == [NoPatch EXCEPT !.rider = r]
           released == Transition(ord, "ready", NoPatch)
           given == Transition(released, "rider-assigned", patch)
           new == IF OverCashLimit(released, r) THEN released ELSE given
<1>0. /\ Sound(ord) /\ Accepts(o, ord, "ready", "admin", NoPatch)
      /\ ~HoldsAnother(o, r)
      /\ orders' = [orders EXCEPT ![o] = new] /\ UNCHANGED <<ledger, balance>>
  <2>1. Sound(ord)
    BY DEF Inv
  <2>2. /\ Accepts(o, ord, "ready", "admin", NoPatch)
        /\ ~HoldsAnother(o, r)
        /\ UNCHANGED <<ledger, balance>>
    BY DEF ReassignRider
  <2>3. orders' = [orders EXCEPT ![o] = new]
    BY DEF ReassignRider
  <2> QED BY <2>1, <2>2, <2>3
<1>1. Quiet
  BY DEF ReassignRider, Quiet, Inv, TypeOK
<1>2. Sound(released)
  BY <1>0, PatchType, TransitionSound
<1>3. /\ released.status = "ready" /\ released.otp = ord.otp /\ released.method = ord.method
      /\ released.refund = "refunded" <=> ord.refund = "refunded"
      /\ IsActiveDelivery(released) => IsActiveDelivery(ord)
      /\ released.rider \in {ord.rider, NoRider}
  <2>1. CanTransition(ord.status, "ready") /\ Sound(ord) /\ NoPatch \in Patch
    BY <1>0, PatchType DEF Accepts
  <2> QED BY <2>1, TransitionKeeps
<1>p. patch \in Patch /\ patch.rider = r
  BY PatchType
<1>a. Account(released) = Account(ord)
  <2>1. ord.status = "rider-assigned" /\ ord \in Order
    BY <1>0 DEF ReassignRider, Sound
  <2>2. /\ released.payment = ord.payment /\ released.refund = ord.refund
        /\ released.settled = ord.settled /\ released.amount = ord.amount
    BY <2>1 DEF Transition, Stamped, HandBack, Order
  <2> HIDE DEF released
  <2> QED BY <1>3, <2>1, <2>2, Stages DEF Account, Status, TerminalStatuses
<1> HIDE DEF released, patch
<1>4. CanTransition(released.status, "rider-assigned")
  BY <1>3 DEF CanTransition, Transitions, Status
<1>d. /\ Follows(ord, released) /\ released.status = "ready"
      /\ \A q \in Riders : Collects(released, q) => Collects(ord, q)
  <2>1. CanTransition(ord.status, "ready") /\ NoPatch \in Patch
    BY <1>0, PatchType DEF Accepts
  <2> QED BY <1>0, <1>3, <2>1, TransitionFollows DEF released
<1>5. Accepts(o, released, "rider-assigned", "system", patch)
  BY <1>4, <1>p, NoRiderAssumption DEF Accepts, ActorCan, Actors, Status
<1>6. Sound(given)
  BY <1>2, <1>5, <1>p, TransitionSound
<1>7. /\ given.otp = ord.otp /\ given.method = ord.method
      /\ given.refund = "refunded" <=> ord.refund = "refunded"
      /\ given.rider \in {released.rider, r}
      /\ IsActiveDelivery(given) => IsActiveDelivery(ord)
  <2>1. /\ given.otp = released.otp /\ given.method = released.method
        /\ given.refund = "refunded" <=> released.refund = "refunded"
        /\ given.rider \in {released.rider, patch.rider}
        /\ IsActiveDelivery(given) => IsActiveDelivery(released)
    BY <1>2, <1>4, <1>p, TransitionKeeps
  <2> QED BY <2>1, <1>3, <1>p
<1>b. Account(given) = Account(released)
  <2>1. released \in Order
    BY <1>2 DEF Sound
  <2>2. /\ given.payment = released.payment /\ given.refund = released.refund
        /\ given.settled = released.settled /\ given.amount = released.amount
        /\ given.status = "rider-assigned"
    BY <2>1 DEF Transition, Stamped, Order
  <2> HIDE DEF given
  <2> QED BY <1>3, <2>2, Stages DEF Account, Status, TerminalStatuses
<1>e. /\ Follows(released, given) /\ given.status = "rider-assigned"
      /\ \A q \in Riders :
           Collects(given, q) =>
             \/ Collects(released, q)
             \/ q = r /\ released.method = "cash" /\ released.payment = "pending"
  <2>1. /\ Follows(released, given)
        /\ \A q \in Riders :
             Collects(given, q) =>
               \/ Collects(released, q)
               \/ /\ "rider-assigned" = "rider-assigned" /\ q = patch.rider
                  /\ released.method = "cash" /\ released.payment = "pending"
    BY <1>2, <1>4, <1>p, TransitionFollows
  <2>2. given.status = "rider-assigned"
    BY <1>2, <1>4, <1>p, TransitionKeeps
  <2> QED BY <2>1, <2>2, <1>p
<1> HIDE DEF given
<1>f. PastStep(o, released)
  BY <1>0, <1>d DEF PastStep
<1>g. ASSUME ~OverCashLimit(released, r) PROVE PastStep(o, given)
  <2>1. \A q \in Riders : Collects(given, q) => Collects(ord, q) \/ Room(q)
    BY <1>d, <1>e, <1>g, RoomToCollect
  <2>2. ClaimOpened(ord, given) /\ \A q \in Riders : Carries(given, q) => Carries(released, q)
    BY <1>e DEF ClaimOpened, Carries
  <2>p. PathKept(ord, given)
    <3>1. ord.status = "rider-assigned"
      BY DEF ReassignRider
    <3> QED BY <1>e, <3>1 DEF PathKept
  <2>3. Follows(ord, given)
    BY <1>2, <1>d, <1>e, <2>2, <2>p, FollowsTwice
  <2> QED BY <1>0, <2>1, <2>3 DEF PastStep
<1>h. PastStep(o, new)
  BY <1>f, <1>g
<1>c. KeptStep(o, new)
  BY <1>a, <1>b DEF KeptStep
<1>8. Sound(new) /\ new.otp = ord.otp
  BY <1>2, <1>3, <1>6, <1>7
<1>9. WalletStep(o, new) /\ RiderStep(o, new)
  BY <1>0, <1>3, <1>7 DEF WalletStep, RiderStep
<1> QED BY <1>0, <1>1, <1>8, <1>9, <1>c, <1>h, QuietStep

\* Every way of putting a courier on an order is a sound step.
LEMMA DispatchSound ==
  ASSUME Inv, NEW o \in Orders, Dispatch(o)
  PROVE  \E new : SoundStep(o, new)
<1>1. ASSUME NEW r \in Riders, AssignManually(o, r)
      PROVE  \E new : SoundStep(o, new)
  <2>1. Quiet
    BY <1>1 DEF AssignManually, Quiet, Inv, TypeOK
  <2> QED BY <1>1, <2>1, AssignSound DEF AssignManually
<1>2. ASSUME NEW offDuty \in SUBSET Riders, AutoDispatch(o, offDuty)
      PROVE  \E new : SoundStep(o, new)
  <2>1. Quiet
    BY <1>2 DEF AutoDispatch, Quiet, Inv, TypeOK
  <2> QED BY <1>2, <2>1, AssignSound DEF AutoDispatch
<1> QED BY <1>1, <1>2, ReassignSound DEF Dispatch

\* The rider's actions are sound steps; a wrong doorstep code that answers late
\* still finds room in the attempt counter.
LEMMA RiderSound ==
  ASSUME Inv, NEW o \in Orders, Rider(o)
  PROVE  \E new : SoundStep(o, new)
<1> DEFINE ord == orders[o]
<1>0. /\ Sound(ord) /\ ord \in Order /\ orders \in [Orders -> Order]
      /\ cancelling \subseteq Orders
      /\ otpCheck \in [Orders -> {"none", "right", "wrong"}]
      /\ \A x \in Orders : otpCheck[x] # "none" => orders[x].otp < OtpMax
  BY DEF Inv, TypeOK, Sound
<1>1. CASE RiderMove(o)
  <2>1. Quiet
    BY <1>0, <1>1 DEF RiderMove, Quiet
  <2>2. PICK to \in RiderActions(ord) : Move(o, to, "rider", NoPatch)
    BY <1>1 DEF RiderMove
  <2>3. to # "refunded" /\ to # "rider-assigned"
    BY DEF RiderActions
  <2> QED BY <2>1, <2>2, <2>3, AdvanceSound, PatchType
<1>2. ASSUME NEW answer \in {"right", "wrong"}, SubmitOtp(o, answer)
      PROVE  \E new : SoundStep(o, new)
  <2>1. /\ orders' = [orders EXCEPT ![o] = ord]
        /\ UNCHANGED <<orders, ledger, balance>> /\ cancelling' \subseteq Orders
        /\ otpCheck' = [otpCheck EXCEPT ![o] = answer]
    BY <1>0, <1>2 DEF SubmitOtp
  <2>2. ord.otp < OtpMax
    BY <1>0, <1>2, AttemptsAssumption DEF SubmitOtp, IsOtpLocked, Order
  <2>3. otpCheck' \in [Orders -> {"none", "right", "wrong"}]
    BY <1>0, <2>1
  <2>4. \A x \in Orders : otpCheck'[x] # "none" => orders'[x].otp < OtpMax
    BY <1>0, <2>1, <2>2
  <2>5. WalletStep(o, ord) /\ RiderStep(o, ord) /\ KeptStep(o, ord)
    BY <2>1 DEF WalletStep, RiderStep, KeptStep
  <2>6. PastStep(o, ord)
    BY <2>1, FollowsItself DEF PastStep, MoneyKept
  <2> QED BY <1>0, <2>1, <2>3, <2>4, <2>5, <2>6 DEF SoundStep
<1>3. CASE FailOtp(o)
  <2> DEFINE new == [ord EXCEPT !.otp = @ + 1]
  <2>1. /\ orders' = [orders EXCEPT ![o] = new]
        /\ UNCHANGED <<ledger, balance>> /\ cancelling' \subseteq Orders
        /\ otpCheck' = [otpCheck EXCEPT ![o] = "none"]
    BY <1>0, <1>3 DEF FailOtp
  <2>2. new \in Order
    <3>1. ord.otp \in 0..OtpMax /\ ord.otp < OtpMax
      BY <1>0, <1>3 DEF FailOtp, Order
    <3>2. ord.otp + 1 \in 0..OtpMax
      BY <3>1, AttemptsAssumption
    <3> QED BY <3>2, <1>0 DEF Order
  <2>3. Sound(new)
    BY <1>0, <2>2 DEF Sound, Order, NotPlaced
  <2>4. otpCheck' \in [Orders -> {"none", "right", "wrong"}] /\ otpCheck'[o] = "none"
    BY <1>0, <2>1
  <2>5. \A x \in Orders : otpCheck'[x] # "none" => orders'[x].otp < OtpMax
    BY <1>0, <2>1, <2>4
  <2>6. WalletStep(o, new) /\ RiderStep(o, new)
    <3>1. /\ new.method = ord.method /\ new.refund = ord.refund
          /\ new.rider = ord.rider /\ new.status = ord.status
      BY <1>0 DEF Order
    <3> QED BY <3>1, <2>1 DEF WalletStep, RiderStep, IsActiveDelivery
  <2>7. KeptStep(o, new)
    <3>1. /\ new.status = ord.status /\ new.payment = ord.payment
          /\ new.refund = ord.refund /\ new.settled = ord.settled
          /\ new.amount = ord.amount
      BY <1>0 DEF Order
    <3> QED BY <3>1 DEF KeptStep, Account
  <2>8. PastStep(o, new)
    <3>1. /\ MoneyKept(ord, new) /\ new.status = ord.status /\ new.rider = ord.rider
          /\ new.rejected = ord.rejected /\ new.method = ord.method
      BY <1>0 DEF Order, MoneyKept
    <3> QED BY <2>1, <3>1, FollowsItself DEF PastStep
  <2> QED BY <2>1, <2>3, <2>4, <2>5, <2>6, <2>7, <2>8 DEF SoundStep
<1>4. CASE Deliver(o)
  <2> DEFINE patch == [NoPatch EXCEPT !.cash = TRUE]
  <2>1. Quiet
    BY <1>0, <1>4 DEF Deliver, Quiet
  <2>2. patch \in Patch
    BY PatchType
  <2>3. CASE Move(o, "delivered", "rider", patch)
    BY <2>1, <2>2, <2>3, AdvanceSound
  <2>4. CASE UNCHANGED <<orders, ledger, balance>>
    BY <2>1, <2>4, UnchangedSound
  <2> QED BY <1>4, <2>3, <2>4 DEF Deliver
<1> QED BY <1>1, <1>2, <1>3, <1>4 DEF Rider

\* The desk's moves and its refund decisions are sound steps: an instant refund
\* credits the wallet in the step that records it.
LEMMA DeskSound ==
  ASSUME Inv, NEW o \in Orders, Desk(o)
  PROVE  \E new : SoundStep(o, new)
<1> DEFINE ord == orders[o]
<1>0. Sound(ord) /\ ord \in Order /\ orders \in [Orders -> Order]
  BY DEF Inv, TypeOK, Sound
<1>1. Quiet
  BY DEF Desk, AdminMove, ApproveRefundAtDesk, RejectRefundAtDesk, SettleRefund,
         Quiet, Inv, TypeOK
<1>2. CASE AdminMove(o)
  <2>1. PICK to \in AdminActions(ord) :
           Move(o, to, "admin", [NoPatch EXCEPT !.prep = TRUE, !.cash = TRUE])
    BY <1>2 DEF AdminMove
  <2>2. to # "refunded" /\ to # "rider-assigned"
    BY DEF AdminActions
  <2> QED BY <1>1, <2>1, <2>2, AdvanceSound, PatchType
<1>3. ASSUME NEW k \in Refunds, ApproveRefundAtDesk(o, k)
      PROVE  \E new : SoundStep(o, new)
  <2> DEFINE n == Clamp(k)
             agreed == [ord EXCEPT !.refund = "approved", !.amount = n]
             new == Settle(agreed)
  <2>1. ord.payment = "paid" /\ ord.refund # "refunded" /\ n \in 0..Total
    BY <1>3, RefundsAssumption, ClampInRange
       DEF ApproveRefundAtDesk, CanDecideRefund, IsRefundable
  <2>a. /\ Promise!Undecided(Account(ord)) /\ ~ord.settled
        /\ ord.refund \in {"none", "requested"}
    BY <1>0, <1>3 DEF ApproveRefundAtDesk, CanDecideRefund, IsRefundable, Account,
                      Promise!Undecided, Sound
  <2>2. ApproveRefund(ord, k) = agreed
    BY DEF ApproveRefund
  <2> HIDE DEF n
  <2>3. agreed.amount = n /\ agreed \in Order
    BY <1>0, <2>1 DEF Order, RefundState
  <2>4. CASE ord.method = "wallet"
    <3>1. orders' = [orders EXCEPT ![o] = new] /\ RefundOrder(o, n)
      BY <1>3, <2>2, <2>3, <2>4 DEF ApproveRefundAtDesk, RefundIsInstant
    <3>2. /\ Sound(new) /\ new.refund = "refunded" /\ new.otp = ord.otp
          /\ new.method = ord.method /\ new.rider = ord.rider
          /\ IsActiveDelivery(new) => IsActiveDelivery(ord)
      BY <1>0, <2>1, SettleSound
    <3> HIDE DEF new
    <3>3. WalletStep(o, new) /\ RiderStep(o, new)
      BY <2>1, <2>4, <3>1, <3>2 DEF WalletStep, RiderStep
    <3>4. KeptStep(o, new)
      <4> DEFINE a == Account(ord)
                 m == Promise!Due([a EXCEPT !.agreed = n])
      <4>1. Account(new) = [a EXCEPT !.claim = "refunded", !.agreed = 0, !.back = m]
        BY <1>0, <2>1, SettleKept DEF new
      <4>2. /\ a.agreed = 0
            /\ a = [stage |-> a.stage, price |-> a.price, claim |-> a.claim,
                    agreed |-> a.agreed, back |-> a.back]
        BY <2>a DEF Account, Promise!Undecided
      <4>3. m \in 0..Total
        BY <2>1, <4>2, TotalAssumption DEF Promise!Due
      <4> HIDE DEF a, m
      <4>4. Account(new) = [a EXCEPT !.claim = "refunded", !.back = m]
        BY <4>1, <4>2
      <4>5. Promise!PayAtOnce(a, Account(new))
        BY <2>a, <4>3, <4>4 DEF Promise!PayAtOnce, a
      <4> QED BY <4>5 DEF KeptStep, Promise!Keeps, a
    <3>5. PastStep(o, new)
      <4>1. Follows(ord, new) /\ \A r \in Riders : Collects(new, r) => Collects(ord, r)
        BY <1>0, <2>1, SettleFollows DEF new
      <4> QED BY <2>a, <4>1 DEF PastStep
    <3> QED BY <1>1, <3>1, <3>2, <3>3, <3>4, <3>5, QuietStep
  <2>5. CASE ord.method # "wallet"
    <3>1. orders' = [orders EXCEPT ![o] = agreed] /\ UNCHANGED <<ledger, balance>>
      BY <1>3, <2>2, <2>5 DEF ApproveRefundAtDesk, RefundIsInstant
    <3>2. Sound(agreed)
      BY <1>0, <2>1, <2>3, <2>5 DEF Sound, Order, NotPlaced
    <3>3. /\ agreed.otp = ord.otp /\ agreed.method = ord.method
          /\ agreed.refund = "refunded" <=> ord.refund = "refunded"
          /\ agreed.rider = ord.rider /\ agreed.status = ord.status
          /\ agreed.rejected = ord.rejected /\ MoneyKept(ord, agreed)
      BY <1>0, <2>1, <2>a DEF Order, MoneyKept
    <3>4. KeptStep(o, agreed)
      <4>1. /\ agreed.status = ord.status /\ agreed.payment = ord.payment
            /\ ~agreed.settled /\ agreed.refund = "approved" /\ agreed.amount = n
        BY <1>0, <2>a DEF Order
      <4>a. Account(ord) =
              [stage |-> Stage(ord.status),
               price |-> IF ord.payment = "pending" THEN "due" ELSE "taken",
               claim |-> ord.refund, agreed |-> 0, back |-> 0]
        BY <2>a DEF Account
      <4> HIDE DEF agreed
      <4>2. Account(agreed) = [Account(ord) EXCEPT !.claim = "approved", !.agreed = n]
        <5>1. Account(agreed) =
                [stage |-> Stage(ord.status),
                 price |-> IF ord.payment = "pending" THEN "due" ELSE "taken",
                 claim |-> "approved", agreed |-> n, back |-> 0]
          BY <4>1 DEF Account
        <5>2. [Account(ord) EXCEPT !.claim = "approved"] =
                [stage |-> Stage(ord.status),
                 price |-> IF ord.payment = "pending" THEN "due" ELSE "taken",
                 claim |-> "approved", agreed |-> 0, back |-> 0]
          BY <4>a
        <5> DEFINE asked == [Account(ord) EXCEPT !.claim = "approved"]
        <5>3. [Account(ord) EXCEPT !.claim = "approved", !.agreed = n] =
                [asked EXCEPT !.agreed = n]
          OBVIOUS
        <5>4. asked = [stage |-> Stage(ord.status),
                       price |-> IF ord.payment = "pending" THEN "due" ELSE "taken",
                       claim |-> "approved", agreed |-> 0, back |-> 0]
          BY <5>2
        <5> HIDE DEF asked
        <5> QED BY <5>1, <5>3, <5>4
      <4>3. Promise!Approve(Account(ord), Account(agreed))
        BY <2>1, <2>a, <4>2 DEF Promise!Approve
      <4> QED BY <4>3 DEF KeptStep, Promise!Keeps
    <3> QED BY <1>1, <3>1, <3>2, <3>3, <3>4, RewriteSound
  <2> QED BY <2>4, <2>5
<1>4. CASE RejectRefundAtDesk(o)
  <2> DEFINE new == [ord EXCEPT !.refund = "rejected", !.amount = 0]
  <2>1. ord.payment = "paid" /\ ord.refund # "refunded"
    BY <1>4 DEF RejectRefundAtDesk, CanDecideRefund, IsRefundable
  <2>2. orders' = [orders EXCEPT ![o] = new] /\ UNCHANGED <<ledger, balance>>
    <3>1. /\ orders' = [orders EXCEPT ![o] = RejectRefund(@)]
          /\ UNCHANGED <<ledger, balance>>
      BY <1>4 DEF RejectRefundAtDesk
    <3>2. RejectRefund(ord) = new
      BY DEF RejectRefund
    <3> QED BY <3>1, <3>2
  <2>3. new \in Order
    <3>1. 0 \in 0..Total
      BY TotalAssumption
    <3> QED BY <3>1, <1>0 DEF Order, RefundState
  <2>4. Sound(new)
    BY <1>0, <2>1, <2>3 DEF Sound, Order, NotPlaced
  <2>5. /\ new.otp = ord.otp /\ new.method = ord.method
        /\ new.refund = "refunded" <=> ord.refund = "refunded"
        /\ new.rider = ord.rider /\ new.status = ord.status
        /\ new.rejected = ord.rejected /\ MoneyKept(ord, new)
    BY <1>0, <2>1 DEF Order, Sound, MoneyKept
  <2>6. KeptStep(o, new)
    <3>1. Promise!Undecided(Account(ord)) /\ ~ord.settled
      BY <1>0, <1>4 DEF RejectRefundAtDesk, CanDecideRefund, IsRefundable, Account,
                        Promise!Undecided, Sound
    <3>2. /\ new.payment = ord.payment /\ new.settled = ord.settled
          /\ new.refund = "rejected"
      BY <1>0 DEF Order
    <3> HIDE DEF new
    <3>3. Account(new) = [Account(ord) EXCEPT !.claim = "rejected"]
      BY <2>5, <3>1, <3>2 DEF Account, Promise!Undecided
    <3> QED BY <3>1, <3>3 DEF KeptStep, Promise!Keeps, Promise!Refuse
  <2> QED BY <1>1, <2>2, <2>4, <2>5, <2>6, RewriteSound
<1>5. CASE SettleRefund(o)
  <2> DEFINE n == ord.amount
             agreed == [ord EXCEPT !.refund = "approved", !.amount = n]
             new == Settle(ord)
  <2>1. ord.refund = "approved" /\ ord.payment = "paid" /\ ord.method # "wallet"
    BY <1>5, <1>0 DEF SettleRefund, CanSettleRefund, Sound
  <2>2. agreed = ord /\ n \in 0..Total
    BY <1>0, <2>1 DEF Order
  <2>3. orders' = [orders EXCEPT ![o] = new] /\ UNCHANGED <<ledger, balance>>
    <3>1. /\ orders' = [orders EXCEPT ![o] = Settle(@)]
          /\ UNCHANGED <<ledger, balance>>
      BY <1>5 DEF SettleRefund
    <3> QED BY <3>1
  <2>4. /\ Sound(new) /\ new.refund = "refunded" /\ new.otp = ord.otp
        /\ new.method = ord.method /\ new.rider = ord.rider
        /\ IsActiveDelivery(new) => IsActiveDelivery(ord)
    <3>1. /\ Sound(Settle(agreed)) /\ Settle(agreed).refund = "refunded"
          /\ Settle(agreed).otp = ord.otp
          /\ Settle(agreed).method = ord.method /\ Settle(agreed).rider = ord.rider
          /\ IsActiveDelivery(Settle(agreed)) => IsActiveDelivery(ord)
      BY <1>0, <2>1, <2>2, SettleSound
    <3>2. Settle(agreed) = new
      BY <2>2
    <3> HIDE DEF agreed, new
    <3> QED BY <3>1, <3>2
  <2> HIDE DEF new
  <2>5. WalletStep(o, new) /\ RiderStep(o, new)
    BY <2>1, <2>3, <2>4 DEF WalletStep, RiderStep
  <2>6. KeptStep(o, new)
    <3> DEFINE a == Account(ord)
    <3>1. Account(Settle(agreed)) =
            [a EXCEPT !.claim = "refunded", !.agreed = 0,
                      !.back = Promise!Due([a EXCEPT !.agreed = n])]
      <4>1. Sound(ord) /\ ord.payment = "paid" /\ n \in 0..Total
        BY <1>0, <2>1, <2>2
      <4> HIDE DEF n
      <4> QED BY <4>1, SettleKept
    <3>2. Settle(agreed) = new
      BY <2>2 DEF new
    <3>3. a.price = "taken" /\ a.claim = "approved" /\ a.agreed = n
      BY <2>1 DEF Account
    <3>4. [a EXCEPT !.agreed = n] = a
      BY <3>3 DEF Account
    <3> HIDE DEF agreed, a
    <3>5. Promise!PayBack(a, Account(new))
      BY <3>1, <3>2, <3>3, <3>4 DEF Promise!PayBack
    <3> QED BY <3>5 DEF KeptStep, Promise!Keeps, a
  <2>7. PastStep(o, new)
    <3>1. /\ Follows(ord, Settle(agreed))
          /\ \A r \in Riders : Collects(Settle(agreed), r) => Collects(ord, r)
      <4>1. Sound(ord) /\ ord.payment = "paid" /\ n \in 0..Total
        BY <1>0, <2>1, <2>2
      <4> HIDE DEF n
      <4> QED BY <4>1, SettleFollows
    <3>2. Settle(agreed) = new
      BY <2>2 DEF new
    <3> HIDE DEF agreed
    <3> QED BY <2>3, <3>1, <3>2 DEF PastStep
  <2> QED BY <1>1, <2>3, <2>4, <2>5, <2>6, <2>7, QuietStep
<1> QED BY <1>2, <1>3, <1>4, <1>5 DEF Desk

\* The autopilot's moves are sound steps.
LEMMA AutoSound ==
  ASSUME Inv, NEW o \in Orders, Engine(o)
  PROVE  \E new : SoundStep(o, new)
<1>1. Quiet
  BY DEF Engine, AutoMove, AutoAssign, AutoDispatch, Quiet, Inv, TypeOK
<1>2. ASSUME NEW offDuty \in SUBSET Riders, AutoAssign(o, offDuty)
      PROVE  \E new : SoundStep(o, new)
  BY <1>1, <1>2, AssignSound DEF AutoAssign, AutoDispatch
<1>3. CASE AutoMove(o)
  <2>1. ASSUME NEW m \in AutoNext, orders[o].status = m[1],
               Move(o, m[2], m[3], AutoPatch(o, m[2]))
        PROVE  \E new : SoundStep(o, new)
    <3>1. m[2] # "refunded" /\ m[2] # "rider-assigned"
      BY DEF AutoNext
    <3>2. AutoPatch(o, m[2]) \in Patch
      <4>0. orders[o] \in Order
        BY DEF Inv, TypeOK
      <4>1. orders[o].rider \in Riders \cup {NoRider}
        BY <4>0 DEF Order
      <4>2. ASSUME RequiresHandover(orders[o])
            PROVE  HandoverCode[o, orders[o].rider] \in Codes
        <5>1. orders[o].rider \in Riders
          BY <4>1, <4>2 DEF RequiresHandover
        <5> QED BY <5>1, HandoverCodeAssumption
      <4>3. CASE m[2] = "confirmed"
        BY <4>3, PatchType DEF AutoPatch
      <4>4. CASE m[2] = "picked-up" /\ RequiresHandover(orders[o])
        <5> DEFINE code == HandoverCode[o, orders[o].rider]
        <5>1. code \in Codes
          BY <4>2, <4>4
        <5>2. AutoPatch(o, m[2]) = [NoPatch EXCEPT !.checks = TRUE, !.code = code]
          BY <4>4 DEF AutoPatch
        <5> HIDE DEF code
        <5> QED BY <5>1, <5>2, PatchType
      <4>5. CASE m[2] # "confirmed" /\ ~(m[2] = "picked-up" /\ RequiresHandover(orders[o]))
        BY <4>5, PatchType DEF AutoPatch
      <4> QED BY <4>3, <4>4, <4>5
    <3> QED BY <1>1, <2>1, <3>1, <3>2, AdvanceSound
  <2>2. CASE Move(o, "delivered", "restaurant", NoPatch)
    BY <1>1, <2>2, AdvanceSound, PatchType
  <2> QED BY <1>3, <2>1, <2>2 DEF AutoMove
<1> QED BY <1>2, <1>3 DEF Engine

\* Whoever acts on an order, the step is sound.
LEMMA ActSound ==
  ASSUME Inv, NEW o \in Orders, Act(o)
  PROVE  \E new : SoundStep(o, new)
BY CheckoutSound, CustomerSound, CounterSound, DispatchSound, RiderSound, DeskSound,
   AutoSound DEF Act

-----------------------------------------------------------------------------
(* The sweep is the one step of several orders at once.                    *)

\* The sweep respects the record of every order, and moves no cash.
LEMMA ReleaseFollows ==
  ASSUME Inv, NEW due \in SUBSET Orders, ReleaseScheduled(due), NEW x \in Orders
  PROVE  /\ Follows(orders[x], orders'[x])
         /\ \A r \in Riders :
              /\ Carries(orders'[x], r) <=> Carries(orders[x], r)
              /\ Collects(orders'[x], r) => Collects(orders[x], r)
<1>1. CASE x \in due
  <2>1. /\ orders'[x] = Transition(orders[x], "placed", NoPatch) /\ Sound(orders[x])
        /\ CanTransition(orders[x].status, "placed") /\ NoPatch \in Patch
    BY <1>1, PatchType DEF ReleaseScheduled, Inv, Accepts
  <2>2. Follows(orders[x], orders'[x])
    BY <2>1, TransitionFollows
  <2>3. \A r \in Riders : Collects(orders'[x], r) => Collects(orders[x], r)
    BY <2>1, TransitionFollows
  <2>4. orders'[x].status = "placed"
    BY <2>1, TransitionKeeps
  <2> QED BY <2>2, <2>3, <2>4 DEF Carries, Follows, CashKept
<1>2. CASE x \notin due
  <2>1. orders'[x] = orders[x]
    BY <1>2 DEF ReleaseScheduled
  <2> QED BY <2>1, FollowsItself DEF MoneyKept
<1> QED BY <1>1, <1>2

\* Handing any set of due orders to their kitchens preserves the invariant.
LEMMA ReleaseSound ==
  ASSUME Inv, NEW due \in SUBSET Orders, ReleaseScheduled(due), Stamp
  PROVE  Inv'
<1> DEFINE new(x) == Transition(orders[x], "placed", NoPatch)
<1>1. /\ orders \in [Orders -> Order]
      /\ \A x \in Orders : Sound(orders[x]) /\ PaidBackOnce(ledger[x], orders[x])
  BY DEF Inv, TypeOK
<1>2. UNCHANGED <<ledger, balance, cancelling, otpCheck>>
  BY DEF ReleaseScheduled
<1>3. ASSUME NEW x \in due
      PROVE  /\ Sound(new(x)) /\ new(x).otp = orders[x].otp
             /\ new(x).method = orders[x].method
             /\ new(x).refund = "refunded" <=> orders[x].refund = "refunded"
             /\ IsActiveDelivery(new(x)) => IsActiveDelivery(orders[x])
             /\ new(x).rider \in {orders[x].rider, NoRider}
  <2>1. x \in Orders /\ Accepts(x, orders[x], "placed", "system", NoPatch)
    BY DEF ReleaseScheduled
  <2>2. Sound(orders[x]) /\ CanTransition(orders[x].status, "placed") /\ NoPatch \in Patch
    BY <1>1, <2>1, PatchType DEF Accepts
  <2>3. Sound(new(x))
    BY <2>1, <2>2, TransitionSound
  <2>4. /\ new(x).otp = orders[x].otp /\ new(x).method = orders[x].method
        /\ new(x).refund = "refunded" <=> orders[x].refund = "refunded"
        /\ IsActiveDelivery(new(x)) => IsActiveDelivery(orders[x])
        /\ new(x).rider \in {orders[x].rider, NoRider}
    BY <2>2, TransitionKeeps
  <2> QED BY <2>3, <2>4
<1>4. /\ \A x \in due : orders'[x] = new(x)
      /\ \A x \in Orders \ due : orders'[x] = orders[x]
      /\ DOMAIN orders' = Orders
      /\ orders' = [x \in Orders |-> orders'[x]]
  BY DEF ReleaseScheduled
<1> HIDE DEF new
<1>5. ASSUME NEW x \in Orders
      PROVE  /\ Sound(orders'[x]) /\ orders'[x].otp = orders[x].otp
             /\ orders'[x].method = orders[x].method
             /\ orders'[x].refund = "refunded" <=> orders[x].refund = "refunded"
             /\ IsActiveDelivery(orders'[x]) => IsActiveDelivery(orders[x])
             /\ orders'[x].rider \in {orders[x].rider, NoRider}
  BY <1>1, <1>3, <1>4
<1>6. orders' \in [Orders -> Order]
  BY <1>4, <1>5 DEF Sound
<1>7. OneOrderPerRider'
  <2> SUFFICES ASSUME NEW x \in Orders, NEW y \in Orders, x # y,
                      IsActiveDelivery(orders'[x]), IsActiveDelivery(orders'[y]),
                      orders'[x].rider # NoRider, orders'[x].rider = orders'[y].rider
               PROVE  FALSE
    BY DEF OneOrderPerRider, IsActiveDelivery
  <2>1. /\ IsActiveDelivery(orders[x]) /\ IsActiveDelivery(orders[y])
        /\ orders[x].rider # NoRider /\ orders[x].rider = orders[y].rider
    BY <1>5
  <2> QED BY <2>1 DEF Inv, OneOrderPerRider
<1>8. \A x \in Orders : PaidBackOnce(ledger'[x], orders'[x])
  BY <1>1, <1>2, <1>5 DEF PaidBackOnce
<1>9. TypeOK'
  BY <1>2, <1>5, <1>6 DEF Inv, TypeOK, Stamp
<1>10. RoomForEveryCollection' /\ CashWithinCeiling'
  <2>1. ASSUME NEW r \in Riders
        PROVE  /\ CollectedToday(r)' = CollectedToday(r)
               /\ \A x \in Orders : Collects(orders'[x], r) => Collects(orders[x], r)
    <3>1. ASSUME NEW x \in Orders
          PROVE  /\ Carries(orders'[x], r) <=> Carries(orders[x], r)
                 /\ Collects(orders'[x], r) => Collects(orders[x], r)
      BY <1>4, <3>1, ReleaseFollows DEF Follows, CashKept
    <3>2. {x \in Orders \ handedEarlier : Carries(orders'[x], r)} =
            {x \in Orders \ handedEarlier : Carries(orders[x], r)}
      BY <3>1
    <3> QED BY <3>1, <3>2, CashIsCounted DEF Handful, Stamp
  <2>2. \A r \in Riders : Room(r)' <=> Room(r)
    BY <2>1 DEF Room
  <2> QED BY <2>1, <2>2 DEF Inv, RoomForEveryCollection, CashWithinCeiling, Collects,
                            IsActiveDelivery
<1> QED BY <1>2, <1>5, <1>7, <1>8, <1>9, <1>10 DEF Inv, WalletNotOverdrawn

-----------------------------------------------------------------------------
(* The invariant is inductive.                                             *)

\* When the day changes nobody has collected anything, and everybody has room.
LEMMA MidnightSound ==
  ASSUME Inv, Midnight
  PROVE  Inv'
<1>1. /\ UNCHANGED <<orders, ledger, balance, cancelling, otpCheck>>
      /\ lapsed' = Handed /\ handedEarlier' = Handed
  BY DEF Midnight
<1>2. ASSUME NEW r \in Riders
      PROVE  CollectedToday(r)' = 0
  <2>1. {x \in Orders \ Handed : Carries(orders[x], r)} = {}
    BY DEF Handed, Carries
  <2>2. {x \in Orders \ handedEarlier : Carries(orders[x], r)}' = {}
    BY <1>1, <2>1
  <2>3. CollectedToday(r)' = Total * Cardinality({})
    BY <2>2 DEF CollectedToday
  <2> QED BY <2>3, FS_EmptySet, TotalAssumption
<1>3. TypeOK'
  BY <1>1 DEF Inv, TypeOK, Handed
<1>4. RoomForEveryCollection' /\ CashWithinCeiling'
  BY <1>2, FleetAssumption DEF RoomForEveryCollection, Room, CashWithinCeiling
<1>5. /\ \A o \in Orders : Sound(orders[o])' /\ PaidBackOnce(ledger[o], orders[o])'
      /\ OneOrderPerRider' /\ WalletNotOverdrawn'
  BY <1>1 DEF Inv, OneOrderPerRider, WalletNotOverdrawn
<1> QED BY <1>3, <1>4, <1>5 DEF Inv

\* The empty store satisfies the invariant.
LEMMA InitInv == Init => Inv
<1> SUFFICES ASSUME Init PROVE Inv
  OBVIOUS
<1>1. Basket \in Order /\ Sound(Basket)
  BY BasketSound DEF Sound
<1>3. ~IsActiveDelivery(Basket)
  BY DEF IsActiveDelivery, Basket, NotPlaced
<1>4. <<>> \in Seq(Txn) /\ Credits(<<>>) = {}
  BY DEF Credits
<1>5. PaidBackOnce(<<>>, Basket)
  BY <1>4 DEF PaidBackOnce, Basket
<1>6. \A o \in Orders : orders[o] = Basket /\ ledger[o] = <<>> /\ otpCheck[o] = "none"
  BY DEF Init
<1>7. TypeOK
  BY <1>1, <1>4, <1>6, OpeningAssumption DEF Init, TypeOK
<1>8. OneOrderPerRider
  BY <1>3, <1>6 DEF OneOrderPerRider
<1>9. WalletNotOverdrawn
  BY OpeningAssumption DEF Init, WalletNotOverdrawn
<1>10. RoomForEveryCollection /\ CashWithinCeiling
  <2>1. \A r \in Riders, o \in Orders : ~Carries(orders[o], r) /\ ~Collects(orders[o], r)
    <3>1. Basket.status = "basket"
      BY DEF Basket
    <3> QED BY <1>3, <1>6, <3>1 DEF Carries, Collects
  <2>2. ASSUME NEW r \in Riders PROVE CollectedToday(r) = 0
    <3>1. {x \in Orders \ handedEarlier : Carries(orders[x], r)} = {}
      BY <2>1
    <3>2. Handful(orders, r) = 0
      BY <3>1, FS_EmptySet DEF Handful
    <3> QED BY <3>2, CashIsCounted, TotalAssumption
  <2> QED BY <2>1, <2>2, FleetAssumption DEF RoomForEveryCollection, CashWithinCeiling
<1> QED BY <1>1, <1>5, <1>6, <1>7, <1>8, <1>9, <1>10 DEF Inv

\* Every step preserves the invariant.
LEMMA NextInv == Inv /\ [Next]_vars => Inv'
<1> SUFFICES ASSUME Inv, [Next]_vars PROVE Inv'
  OBVIOUS
<1>1. ASSUME NEW due \in SUBSET Orders, ReleaseScheduled(due), Stamp
      PROVE  Inv'
  BY <1>1, ReleaseSound
<1>2. ASSUME NEW o \in Orders, Act(o), Stamp
      PROVE  Inv'
  <2>1. \E new : SoundStep(o, new)
    BY <1>2, ActSound
  <2> QED BY <1>2, <2>1, SoundStepPreserves
<1>m. CASE Midnight
  BY <1>m, MidnightSound
<1>3. CASE UNCHANGED vars
  <2>1. UNCHANGED <<orders, ledger, balance, cancelling, otpCheck, lapsed, handedEarlier>>
    BY <1>3 DEF vars
  <2>2. \A r \in Riders : CollectedToday(r)' = CollectedToday(r)
    BY <2>1 DEF CollectedToday
  <2> QED BY <2>1, <2>2 DEF Inv, TypeOK, OneOrderPerRider, WalletNotOverdrawn,
                            RoomForEveryCollection, Room, CashWithinCeiling
<1> QED BY <1>1, <1>2, <1>m, <1>3 DEF Next

\* The strengthened invariant holds in every reachable state.
THEOREM Invariance == Spec => []Inv
BY InitInv, NextInv, PTL DEF Spec

-----------------------------------------------------------------------------
(* The store implements the contract of OrderPromise.                      *)

\* A step that rewrites one order soundly is a clause of its contract, or the
\* customer sees nothing.
LEMMA SoundStepKeeps ==
  ASSUME Inv, NEW o \in Orders, NEW new, SoundStep(o, new)
  PROVE  \/ accounts' = accounts
         \/ /\ Promise!Keeps(accounts[o], accounts'[o])
            /\ accounts' = [accounts EXCEPT ![o] = accounts'[o]]
<1>1. /\ orders \in [Orders -> Order] /\ orders' = [orders EXCEPT ![o] = new]
      /\ KeptStep(o, new)
  BY DEF Inv, TypeOK, SoundStep
<1>2. orders'[o] = new /\ \A x \in Orders \ {o} : orders'[x] = orders[x]
  BY <1>1
<1>3. /\ accounts[o] = Account(orders[o]) /\ accounts'[o] = Account(new)
      /\ \A x \in Orders \ {o} : accounts'[x] = accounts[x]
      /\ DOMAIN accounts = Orders /\ DOMAIN accounts' = Orders
      /\ accounts = [x \in Orders |-> accounts[x]]
      /\ accounts' = [x \in Orders |-> accounts'[x]]
  BY <1>2 DEF accounts, Account
<1>4. accounts' = [accounts EXCEPT ![o] = accounts'[o]]
  BY <1>3
<1>5. CASE Account(new) = Account(orders[o])
  BY <1>3, <1>5
<1>6. CASE Promise!Keeps(Account(orders[o]), Account(new))
  BY <1>3, <1>4, <1>6
<1> QED BY <1>1, <1>5, <1>6 DEF KeptStep

\* Handing scheduled orders to their kitchens is nothing to the customer.
LEMMA ReleaseKeeps ==
  ASSUME Inv, NEW due \in SUBSET Orders, ReleaseScheduled(due)
  PROVE  accounts' = accounts
<1> SUFFICES ASSUME NEW x \in due
             PROVE  Account(orders'[x]) = Account(orders[x])
  <2>1. \A x \in Orders \ due : orders'[x] = orders[x]
    BY DEF ReleaseScheduled
  <2> QED BY <2>1 DEF accounts, Account
<1>1. /\ x \in Orders /\ Accepts(x, orders[x], "placed", "system", NoPatch)
      /\ orders'[x] = Transition(orders[x], "placed", NoPatch)
      /\ orders[x] \in Order
  BY DEF ReleaseScheduled, Inv, TypeOK
<1>2. orders[x].status = "scheduled"
  BY <1>1 DEF Accepts, CanTransition, Transitions, Status
<1>3. orders'[x] = [orders[x] EXCEPT !.status = "placed"]
  BY <1>1 DEF Transition, Stamped
<1> HIDE DEF ReleaseScheduled
<1> QED BY <1>1, <1>2, <1>3, Stages DEF Account, Order, Status, TerminalStatuses

\* Every step of the store is a step of the contract or none.
LEMMA NextKeeps == Inv /\ [Next]_vars => [Promise!Next]_accounts
<1> SUFFICES ASSUME Inv, [Next]_vars
             PROVE  [Promise!Next]_accounts
  OBVIOUS
<1>1. ASSUME NEW due \in SUBSET Orders, ReleaseScheduled(due)
      PROVE  UNCHANGED accounts
  BY <1>1, ReleaseKeeps
<1>2. ASSUME NEW o \in Orders, Act(o)
      PROVE  Promise!Next \/ UNCHANGED accounts
  <2>1. PICK new : SoundStep(o, new)
    BY <1>2, ActSound
  <2> QED BY <2>1, SoundStepKeeps DEF Promise!Next
<1>3. CASE Midnight \/ UNCHANGED vars
  <2>1. orders' = orders
    BY <1>3 DEF Midnight, vars
  <2> QED BY <2>1 DEF accounts, Account
<1> QED BY <1>1, <1>2, <1>3 DEF Next

\* The store keeps the contract of every order (stores/orders.ts over
\* lib/order-machine.ts): a served meal has been paid for, money taken for a
\* meal that will not come is owed at once, is decided on once and comes back
\* once, within the price.
THEOREM StoreKeepsItsPromise == Spec => KeepsItsPromise
<1>1. Init => Promise!Init
  <2> SUFFICES ASSUME Init PROVE Promise!Init
    OBVIOUS
  <2>1. \A x \in Orders : orders[x] = Basket
    BY DEF Init
  <2>2. Account(Basket) =
          [stage |-> "basket", price |-> "due", claim |-> "none",
           agreed |-> 0, back |-> 0]
    BY Stages DEF Account, Basket, NotPlaced
  <2> QED BY <2>1, <2>2 DEF Promise!Init, accounts
<1> QED BY <1>1, NextKeeps, Invariance, PTL DEF Spec, KeepsItsPromise, Promise!Spec

\* What follows from the contract alone (OrderPromise_proofs) holds of the store.
Contract == INSTANCE OrderPromise_proofs WITH account <- accounts, Price <- Total

LEMMA SameContract == Promise!Spec => Contract!Spec
<1>1. Promise!Init => Contract!Init
  BY DEF Promise!Init, Contract!Init
<1>2. Promise!Next => Contract!Next
  BY DEF Promise!Next, Contract!Next, Promise!Keeps, Contract!Keeps,
         Promise!Accept, Contract!Accept, Promise!Serve, Contract!Serve,
         Promise!Close, Contract!Close, Promise!Ask, Contract!Ask,
         Promise!Refuse, Contract!Refuse, Promise!Approve, Contract!Approve,
         Promise!Undecided, Contract!Undecided, Promise!Due, Contract!Due,
         Promise!PayBack, Contract!PayBack, Promise!PayAtOnce, Contract!PayAtOnce,
         Promise!Fail, Contract!Fail,
         Promise!Owed, Contract!Owed
<1> QED BY <1>1, <1>2, PTL DEF Promise!Spec, Contract!Spec

\* Whatever the tender, the surfaces and the order of the steps, every order is
\* fair to its customer: a meal that was served is paid for, money taken for a
\* meal that will not come has been asked back, and what comes back was decided
\* and is within the price (lib/order-machine.ts transition, openRefundOwed).
THEOREM EveryOrderIsFair == Spec => []Promise!EveryAccountIsFair
<1>1. Contract!EveryAccountIsFair => Promise!EveryAccountIsFair
  BY DEF Contract!EveryAccountIsFair, Promise!EveryAccountIsFair,
         Contract!Fair, Promise!Fair
<1>2. Total \in Nat
  BY TotalAssumption
<1>3. Contract!Spec => []Contract!EveryAccountIsFair
  BY <1>2, Contract!ContractIsFair
<1> QED BY <1>1, <1>3, StoreKeepsItsPromise, SameContract, PTL DEF KeepsItsPromise

\* And no step of any actor takes back a refusal, a refund, a payment or the end
\* of an order (stores/orders.ts advance, settleRefund).
THEOREM NoOrderIsReopened == Spec => Promise!NothingIsTakenBack
<1>1. [\A o \in Orders : Contract!Settled(accounts[o], accounts'[o])]_accounts
        => [\A o \in Orders : Promise!Settled(accounts[o], accounts'[o])]_accounts
  BY DEF Contract!Settled, Promise!Settled, Contract!Due, Promise!Due
<1>2. Total \in Nat
  BY TotalAssumption
<1>3. Contract!Spec => Contract!NothingIsTakenBack
  BY <1>2, Contract!ContractIsFinal
<1> QED BY <1>1, <1>3, StoreKeepsItsPromise, SameContract, PTL
        DEF KeepsItsPromise, Contract!NothingIsTakenBack, Promise!NothingIsTakenBack

-----------------------------------------------------------------------------
(* The properties the runs check.                                          *)

\* Type correctness of the store, the attempt locks of the counter and the
\* doorstep included (lib/order-machine.ts isOtpLocked, isHandoverLocked).
THEOREM TypeCorrect == Spec => []TypeOK
<1>1. Inv => TypeOK
  BY DEF Inv
<1> QED BY <1>1, Invariance, PTL

\* A courier never carries two orders (stores/orders.ts assignRider).
THEOREM RidersCarryOne == Spec => []OneOrderPerRider
<1>1. Inv => OneOrderPerRider
  BY DEF Inv
<1> QED BY <1>1, Invariance, PTL

\* Food out of the kitchen is always with a verified courier
\* (lib/order-machine.ts, guards of "picked-up").
THEOREM CustodyVerified == Spec => []CustodyIsVerified
<1>1. Inv => CustodyIsVerified
  BY DEF Inv, Sound, CustodyIsVerified
<1> QED BY <1>1, Invariance, PTL

\* The payment flag and the refund record never disagree
\* (lib/order-machine.ts, the refund lifecycle).
THEOREM MoneyAgrees == Spec => []RefundFollowsPayment
<1>1. Inv => RefundFollowsPayment
  BY DEF Inv, Sound, RefundFollowsPayment
<1> QED BY <1>1, Invariance, PTL

\* The wallet is credited at most once for an order, within its price, exactly
\* when the order says it was refunded (stores/wallet.ts refundOrder).
THEOREM PaidBackAtMostOnce == Spec => []WalletRefundedOnce
<1>1. Inv => WalletRefundedOnce
  <2> SUFFICES ASSUME Inv, NEW o \in Orders
               PROVE  LET credits == {i \in DOMAIN ledger[o] : ledger[o][i].type = "refund"} IN
                      /\ \A i, j \in credits : i = j
                      /\ credits # {} <=>
                           orders[o].method = "wallet" /\ orders[o].refund = "refunded"
                      /\ \A i \in credits : ledger[o][i].amount <= Total
    BY DEF WalletRefundedOnce
  <2>1. PaidBackOnce(ledger[o], orders[o])
    BY DEF Inv
  <2>2. \A i \in Credits(ledger[o]) : ledger[o][i].amount <= Total
    <3>1. ledger[o] \in Seq(Txn)
      BY DEF Inv, TypeOK
    <3>2. \A i \in DOMAIN ledger[o] : ledger[o][i] \in Txn
      BY <3>1
    <3> QED BY <3>2, TotalAssumption DEF Credits, Txn
  <2> QED BY <2>1, <2>2 DEF PaidBackOnce, Credits
<1> QED BY <1>1, Invariance, PTL

\* The wallet is never overdrawn (stores/wallet.ts pay).
THEOREM WalletSolvent == Spec => []WalletNotOverdrawn
<1>1. Inv => WalletNotOverdrawn
  BY DEF Inv
<1> QED BY <1>1, Invariance, PTL

\* No wallet refund is ever left approved and unsettled
\* (stores/orders.ts decideRefund and advance).
THEOREM NothingToWaitFor == Spec => []WalletRefundNeverWaits
<1>1. Inv => WalletRefundNeverWaits
  BY DEF Inv, Sound, WalletRefundNeverWaits
<1> QED BY <1>1, Invariance, PTL

\* Cash is taken at the door and nowhere else (lib/order-machine.ts transition,
\* case "delivered").
THEOREM CashAtTheDoor == Spec => []CashIsTakenAtTheDoor
<1>1. Inv => CashIsTakenAtTheDoor
  BY DEF Inv, Sound, CashIsTakenAtTheDoor
<1> QED BY <1>1, Invariance, PTL

\* Between two midnights a courier never collects more of the platform's cash
\* than his zone allows, unless it all came from one order (lib/risk.ts
\* riderCashInHand and overCashLimit, checked before the delivery and counted after
\* it, by the day of the order's last update).
THEOREM CashCeiling == Spec => []CashWithinCeiling
<1>1. Inv => CashWithinCeiling
  BY DEF Inv
<1> QED BY <1>1, Invariance, PTL

-----------------------------------------------------------------------------
(* What no step may do.                                                    *)

\* Every step respects the record of every order, and the ledger of one that is
\* settled.
LEMMA NextFollows ==
  ASSUME Inv, [Next]_vars, NEW x \in Orders
  PROVE  Follows(orders[x], orders'[x]) /\ (orders[x].settled => ledger'[x] = ledger[x])
<1>1. ASSUME NEW due \in SUBSET Orders, ReleaseScheduled(due)
      PROVE  Follows(orders[x], orders'[x]) /\ ledger' = ledger
  BY <1>1, ReleaseFollows DEF ReleaseScheduled
<1>2. ASSUME NEW o \in Orders, Act(o)
      PROVE  Follows(orders[x], orders'[x]) /\ (orders[x].settled => ledger'[x] = ledger[x])
  <2>1. PICK new : SoundStep(o, new)
    BY <1>2, ActSound
  <2>2. orders'[o] = new /\ \A y \in Orders \ {o} : orders'[y] = orders[y]
    BY <2>1 DEF Inv, TypeOK, SoundStep
  <2>3. CASE x = o
    BY <2>1, <2>2, <2>3 DEF SoundStep, PastStep
  <2>4. CASE x # o
    <3>1. ledger'[x] = ledger[x]
      BY <2>1, <2>4 DEF SoundStep, WalletStep, Pay, RefundOrder, Post, Inv, TypeOK
    <3> QED BY <2>2, <2>4, <3>1, FollowsItself DEF MoneyKept
  <2> QED BY <2>3, <2>4
<1>3. CASE Midnight \/ UNCHANGED vars
  BY <1>3, FollowsItself DEF Midnight, vars, MoneyKept
<1> QED BY <1>1, <1>2, <1>3 DEF Next

\* Nothing that any actor does later touches a money record that was settled,
\* nor the wallet's account of it (lib/order-machine.ts stampRefundSettled,
\* stores/wallet.ts isSettled).
THEOREM SettledStaysSettled == Spec => SettledMoneyIsFinal
<1>1. Inv /\ [Next]_vars =>
        \A o \in Orders :
          orders[o].settled =>
            /\ orders'[o].settled
            /\ orders'[o].refund = orders[o].refund
            /\ orders'[o].amount = orders[o].amount
            /\ orders'[o].payment = orders[o].payment
            /\ ledger'[o] = ledger[o]
  BY NextFollows DEF Follows, MoneyKept
<1> QED BY <1>1, Invariance, PTL DEF Spec, SettledMoneyIsFinal

\* No path takes a courier off an order without filing him, and the file only
\* grows, reassignment by the desk included (lib/order-machine.ts, case "ready").
THEOREM CouriersAreRemembered == Spec => LostJobsAreRemembered
<1>1. Inv /\ [Next]_vars =>
        \A o \in Orders :
          /\ orders[o].rejected \subseteq orders'[o].rejected
          /\ orders[o].rider \in Riders /\ orders'[o].rider # orders[o].rider
               => orders[o].rider \in orders'[o].rejected
  BY NextFollows DEF Follows, CourierKept
<1> QED BY <1>1, Invariance, PTL DEF Spec, LostJobsAreRemembered

\* Whichever surface acts, an order that was placed goes along the graph, at most
\* one bad end and its refund in one step, and one that has ended leaves its end
\* only together with its money (lib/order-machine.ts TRANSITIONS; stores/orders.ts
\* advance, settleRefund, reassignRider).
THEOREM GraphHolds == Spec => AlongTheGraph
<1>1. Inv /\ [Next]_vars =>
        \A o \in Orders :
          LET from == orders[o].status
              to == orders'[o].status
          IN  from \notin NotPlaced /\ to # from =>
                /\ \/ CanTransition(from, to)
                   \/ \E end \in {"cancelled", "rejected", "returned"} :
                        CanTransition(from, end) /\ CanTransition(end, to)
                /\ from \in TerminalStatuses =>
                     to = "refunded" /\ orders'[o].refund = "refunded"
  BY NextFollows DEF Follows, PathKept
<1> QED BY <1>1, Invariance, PTL DEF Spec, AlongTheGraph

\* A paid order that ends badly owes its whole price from that step on, whether
\* it waits for the desk or is credited at once (lib/order-machine.ts
\* openRefundOwed, stores/orders.ts advance).
THEOREM BadEndsOwe == Spec => BadEndOwesMoney
<1>1. Inv /\ [Next]_vars =>
        \A o \in Orders :
          /\ orders[o].status \notin TerminalStatuses
          /\ orders'[o].status \in {"cancelled", "rejected", "returned", "refunded"}
          /\ orders[o].payment = "paid" /\ orders[o].refund = "none"
          => /\ orders'[o].refund \in {"requested", "refunded"}
             /\ orders'[o].amount = Total
  BY NextFollows DEF Follows, ClaimOpened
<1> QED BY <1>1, Invariance, PTL DEF Spec, BadEndOwesMoney
=============================================================================
