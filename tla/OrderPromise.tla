---------------------------- MODULE OrderPromise ----------------------------
(***************************************************************************)
(* What the platform promises about each order, whoever acts, by whatever  *)
(* surface and with whatever tender: where the meal stands, whether the    *)
(* price has been taken, what became of the claim to have it back, and how *)
(* much came back.                                                         *)
(*                                                                         *)
(* The contract of one order is a relation between two states of its       *)
(* account, one operator per clause; no clause looks at another order.     *)
(* OrderStore is shown to implement it: its seventeen statuses, its three  *)
(* tenders and its five actors disappear in the mapping.                   *)
(***************************************************************************)
EXTENDS Integers

CONSTANTS Orders, Price

VARIABLE account

Account ==
  [ stage : {"basket", "open", "served", "closed", "ended"},
    price : {"due", "taken"},
    claim : {"none", "requested", "approved", "rejected", "refunded"},
    agreed : 0..Price,             \* what has been approved and not paid back
    back  : 0..Price ]             \* what has been paid back

Init ==
  account = [o \in Orders |->
               [stage |-> "basket", price |-> "due", claim |-> "none",
                agreed |-> 0, back |-> 0]]

\* The order is accepted, paid in advance or to be paid at the door.
Accept(a, b) ==
  /\ a.stage = "basket"
  /\ \E price \in {"due", "taken"} : b = [a EXCEPT !.stage = "open", !.price = price]

\* The meal is handed over, and by then it has been paid for.
Serve(a, b) ==
  a.stage = "open" /\ b = [a EXCEPT !.stage = "served", !.price = "taken"]

Close(a, b) == a.stage = "served" /\ b = [a EXCEPT !.stage = "closed"]

\* The customer asks for the price of a meal he has not eaten.
Ask(a, b) ==
  /\ a.stage \in {"open", "ended"}
  /\ a.claim = "none"
  /\ b = [a EXCEPT !.claim = "requested"]

\* Only money that was taken is decided on, and once.
Undecided(a) == a.price = "taken" /\ a.claim \in {"none", "requested"}

Refuse(a, b) == Undecided(a) /\ b = [a EXCEPT !.claim = "rejected"]

Approve(a, b) ==
  /\ Undecided(a)
  /\ \E n \in 0..Price : b = [a EXCEPT !.claim = "approved", !.agreed = n]

\* What an approval comes to: the amount agreed, but an agreement on nothing is
\* read as none, and the whole price comes back, unless the order ended badly.
Due(a) == IF a.agreed = 0 /\ a.stage # "ended" THEN Price ELSE a.agreed

\* What was approved is paid back, once.
PayBack(a, b) ==
  /\ a.price = "taken" /\ a.claim = "approved"
  /\ b = [a EXCEPT !.claim = "refunded", !.agreed = 0, !.back = Due(a)]

\* A wallet is paid back in the step that approves.
PayAtOnce(a, b) ==
  /\ Undecided(a)
  /\ \E n \in 0..Price : b = [a EXCEPT !.claim = "refunded", !.back = n]

\* The order ends without a meal: what was taken is owed in the same step,
\* unless it has been decided on already; a wallet is paid the whole price at
\* once.
Owed(a) ==
  IF a.price = "taken" /\ a.claim = "none" THEN [a EXCEPT !.claim = "requested"] ELSE a

Fail(a, b) ==
  LET ended == [Owed(a) EXCEPT !.stage = "ended"] IN
  /\ a.stage = "open"
  /\ \/ b = ended
     \/ Undecided(ended) /\ b = [ended EXCEPT !.claim = "refunded", !.back = Price]

Keeps(a, b) ==
  \/ Accept(a, b) \/ Serve(a, b) \/ Close(a, b) \/ Ask(a, b)
  \/ Refuse(a, b) \/ Approve(a, b) \/ PayBack(a, b) \/ PayAtOnce(a, b)
  \/ Fail(a, b)

\* One order at a time moves, and by its contract.
Next ==
  \E o \in Orders :
    /\ Keeps(account[o], account'[o])
    /\ account' = [account EXCEPT ![o] = account'[o]]

Spec == Init /\ [][Next]_account

-----------------------------------------------------------------------------
(* What the contract amounts to.                                           *)

\* A meal that was served has been paid for; money taken for a meal that will
\* not come has been asked back; what is decided on was taken, and only what was
\* decided comes back, never more than the price.
Fair(a) ==
  /\ a.stage \in {"served", "closed"} => a.price = "taken"
  /\ (a.stage = "ended" /\ a.price = "taken") => a.claim # "none"
  /\ a.claim \in {"approved", "rejected", "refunded"} => a.price = "taken"
  /\ a.agreed > 0 => a.claim = "approved"
  /\ a.back > 0 => a.claim = "refunded"
  /\ a.back <= Price

EveryAccountIsFair == \A o \in Orders : Fair(account[o])

\* A refusal and a refund stand, an approval stands until what it comes to is
\* paid, what was taken stays taken, and an order that is over stays over.
Settled(a, b) ==
  /\ a.claim = "approved" =>
       \/ b.claim = "approved" /\ b.agreed = a.agreed
       \/ b.claim = "refunded" /\ b.back = Due(a)
  /\ a.claim \in {"rejected", "refunded"} => (b.claim = a.claim /\ b.back = a.back)
  /\ a.price = "taken" => b.price = "taken"
  /\ a.stage \in {"closed", "ended"} => b.stage = a.stage

NothingIsTakenBack == [][\A o \in Orders : Settled(account[o], account'[o])]_account
=============================================================================
