---------------------------- MODULE StockPromise ----------------------------
(***************************************************************************)
(* What the inventory promises of one dish: there is one count and one     *)
(* list of movements, and they change as if one person at a time stood at  *)
(* the shelf.  StockLedger is shown to implement it: what each request has *)
(* read, the versions, the transactions and the crashes disappear.         *)
(***************************************************************************)
EXTENDS Integers, Sequences

CONSTANTS Counts, Deltas

VARIABLES
  shelf,          \* whether there is a count, what it is, and if it binds
  moves           \* the movements, oldest first

Init ==
  /\ shelf = [there |-> FALSE, onHand |-> 0, tracked |-> FALSE]
  /\ moves = <<>>

\* A movement says what it moved, what it left, and how many came before it.
Move(quantity, tracked) ==
  LET left == shelf.onHand + quantity
  IN  /\ shelf' = [there |-> TRUE, onHand |-> left, tracked |-> tracked]
      /\ moves' = Append(moves, [quantity |-> quantity, balance |-> left, at |-> Len(moves)])

\* The first count of the dish.
Create(count, tracked) ==
  /\ ~shelf.there
  /\ shelf' = [there |-> TRUE, onHand |-> count, tracked |-> tracked]
  /\ UNCHANGED moves

\* The first count is entered as a receipt, before anything has moved.
Receive ==
  /\ shelf.there /\ shelf.onHand > 0 /\ moves = <<>>
  /\ moves' = <<[quantity |-> shelf.onHand, balance |-> shelf.onHand, at |-> 0]>>
  /\ UNCHANGED shelf

\* The dish is counted again: the movement is what makes the difference.
Recount(count, tracked) ==
  /\ shelf.there /\ count # shelf.onHand
  /\ Move(count - shelf.onHand, tracked)

Track(tracked) ==
  /\ shelf.there
  /\ shelf' = [there |-> TRUE, onHand |-> shelf.onHand, tracked |-> tracked]
  /\ UNCHANGED moves

\* Nothing is taken that a tracked dish does not have.
Adjust(delta) ==
  /\ shelf.there
  /\ delta < 0 /\ shelf.tracked => shelf.onHand + delta >= 0
  /\ Move(delta, shelf.tracked)

Next ==
  \/ \E count \in Counts, tracked \in BOOLEAN : Create(count, tracked) \/ Recount(count, tracked)
  \/ \E tracked \in BOOLEAN : Track(tracked)
  \/ \E delta \in Deltas : Adjust(delta)
  \/ Receive

Spec == Init /\ [][Next]_<<shelf, moves>>
=============================================================================
