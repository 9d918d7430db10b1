------------------------------ MODULE StockLedger ------------------------------
(***************************************************************************)
(* What is left of one dish, and the movements that explain it             *)
(* (backend/src/modules/menu/service.js and repository.js, "Inventory").   *)
(*                                                                         *)
(* A request reads the inventory row with no transaction open, decides,    *)
(* and writes in a transaction whose update carries the version it read.   *)
(* Terminals of the same restaurant overlap, retry, and may die between    *)
(* any two of their queries.                                               *)
(*                                                                         *)
(* Abstracted: the kind of a movement, since every delta has a word that   *)
(* fits its sign; units, notes, the low-stock threshold; the branch, which *)
(* only decides who may ask; and the clock: what matters of occurredAt is  *)
(* how many movements had been written when it was taken.                  *)
(***************************************************************************)
EXTENDS Integers, Sequences

CONSTANTS
  Reqs,           \* requests in flight at once
  Counts,         \* what somebody may count on the shelf
  Deltas,         \* what an adjustment may move
  MaxVersion      \* bound: writes to the row

ASSUME CountsAssumption == Counts \subseteq Nat /\ 0 \in Counts
ASSUME DeltasAssumption == Deltas \subseteq Int \ {0}
ASSUME BoundAssumption == MaxVersion \in Nat

VARIABLES
  item,           \* the inventory_items row
  ledger,         \* its stock_movements, oldest first
  opening,        \* the count that the row was created with
  req             \* what each request has read, and where it is

vars == <<item, ledger, opening, req>>

-----------------------------------------------------------------------------

Absent == [there |-> FALSE, onHand |-> 0, tracked |-> FALSE, version |-> 0]

\* quantity: the count asked for, or the delta.  counted: there is a count.
\* tracks: what trackStock is to be.  at: when occurredAt was taken.
Idle ==
  [ pc |-> "idle", row |-> Absent, quantity |-> 0, counted |-> FALSE,
    tracks |-> FALSE, at |-> 0 ]

Init ==
  /\ item = Absent
  /\ ledger = <<>>
  /\ opening = 0
  /\ req = [r \in Reqs |-> Idle]

At(r, pc) == req[r].pc = pc
Done(r) == req' = [req EXCEPT ![r] = Idle]
Begin(r, locals) ==
  /\ At(r, "idle")
  /\ req' = [req EXCEPT ![r] = [locals EXCEPT !.row = item, !.at = Len(ledger)]]

\* The version in the filter: nobody has written since the request read the row.
Unchanged(r) == item.version = req[r].row.version

Written(onHand, tracked) ==
  /\ item.version < MaxVersion
  /\ item' = [item EXCEPT !.onHand = onHand, !.tracked = tracked, !.version = @ + 1]

\* The balance is read back after the update, in its transaction.
Log(r, quantity) ==
  ledger' = Append(ledger, [quantity |-> quantity, balance |-> item'.onHand, at |-> req[r].at])

-----------------------------------------------------------------------------
(* setItemStock().                                                         *)

\* A row that is missing is created, counted at 0 and tracked unless the request
\* says otherwise; one that is there keeps what the request does not name.
SetRead(r, counted, q, named, tracks) ==
  /\ Begin(r, [Idle EXCEPT
       !.pc = IF item.there THEN "set" ELSE "create",
       !.quantity = IF counted THEN q ELSE 0,
       !.counted = counted,
       !.tracks = IF named THEN tracks ELSE (item.there => item.tracked)])
  /\ UNCHANGED <<item, ledger, opening>>

\* Mutant: the second creation replaces the row of the first.
CreateAnew(r) ==
  /\ At(r, "create")
  /\ LET row == [there |-> TRUE, onHand |-> req[r].quantity,
                 tracked |-> req[r].tracks, version |-> 0]
     IN  /\ item' = row
         /\ opening' = row.onHand
         /\ IF row.onHand > 0
              THEN req' = [req EXCEPT ![r].pc = "open", ![r].row = row, ![r].at = Len(ledger)]
              ELSE Done(r)
  /\ UNCHANGED ledger

\* foodId is unique: the second of two creations fails.
Create(r) ==
  /\ At(r, "create")
  /\ IF item.there
       THEN Done(r) /\ UNCHANGED <<item, opening>>
       ELSE LET row == [there |-> TRUE, onHand |-> req[r].quantity,
                        tracked |-> req[r].tracks, version |-> 0]
            IN  /\ item' = row
                /\ opening' = row.onHand
                /\ IF row.onHand > 0
                     THEN req' = [req EXCEPT ![r].pc = "open", ![r].row = row,
                                             ![r].at = Len(ledger)]
                     ELSE Done(r)
  /\ UNCHANGED ledger

\* The opening balance as a receipt, in a second transaction.  Nobody looks at
\* whether it was applied.
Open(r) ==
  /\ At(r, "open")
  /\ \/ Unchanged(r) /\ Written(item.onHand, item.tracked) /\ Log(r, req[r].quantity)
     \/ ~Unchanged(r) /\ UNCHANGED <<item, ledger>>
  /\ Done(r)
  /\ UNCHANGED opening

\* Mutant: the last to count is right.
SetUnguarded(r) ==
  /\ At(r, "set")
  /\ LET moved == req[r].quantity - req[r].row.onHand
     IN  IF req[r].counted
           THEN /\ Written(req[r].quantity, req[r].tracks)
                /\ IF moved = 0 THEN UNCHANGED ledger ELSE Log(r, moved)
           ELSE Written(item.onHand, req[r].tracks) /\ UNCHANGED ledger
  /\ Done(r)
  /\ UNCHANGED opening

\* The movement of a new count is its difference from the one that was read.
Set(r) ==
  /\ At(r, "set")
  /\ LET moved == req[r].quantity - req[r].row.onHand
     IN  \/ /\ Unchanged(r)
            /\ req[r].counted
            /\ Written(req[r].quantity, req[r].tracks)
            /\ IF moved = 0 THEN UNCHANGED ledger ELSE Log(r, moved)
         \/ /\ Unchanged(r)
            /\ ~req[r].counted
            /\ Written(item.onHand, req[r].tracks)
            /\ UNCHANGED ledger
         \/ ~Unchanged(r) /\ UNCHANGED <<item, ledger>>
  /\ Done(r)
  /\ UNCHANGED opening

-----------------------------------------------------------------------------
(* adjustItemStock().                                                      *)

AdjustRead(r, delta) ==
  /\ item.there
  /\ Begin(r, [Idle EXCEPT !.pc = "adjust", !.quantity = delta])
  /\ UNCHANGED <<item, ledger, opening>>

\* The floor is there only for a decrement of a row that was tracked when read.
AboveFloor(r) ==
  req[r].quantity < 0 /\ req[r].row.tracked => item.onHand >= -req[r].quantity

\* Mutant: the increment is thought to be guard enough.
AdjustUnguarded(r) ==
  /\ At(r, "adjust")
  /\ \/ AboveFloor(r) /\ Written(item.onHand + req[r].quantity, item.tracked) /\ Log(r, req[r].quantity)
     \/ ~AboveFloor(r) /\ UNCHANGED <<item, ledger>>
  /\ Done(r)
  /\ UNCHANGED opening

\* Zero rows match when somebody wrote first, or when there is not enough.
Adjust(r) ==
  LET matches == Unchanged(r) /\ AboveFloor(r)
  IN  /\ At(r, "adjust")
      /\ \/ matches /\ Written(item.onHand + req[r].quantity, item.tracked) /\ Log(r, req[r].quantity)
         \/ ~matches /\ UNCHANGED <<item, ledger>>
      /\ Done(r)
      /\ UNCHANGED opening

-----------------------------------------------------------------------------

\* The process dies, or the query fails: an open transaction is rolled back.
Crash(r) ==
  /\ ~At(r, "idle")
  /\ Done(r)
  /\ UNCHANGED <<item, ledger, opening>>

Next ==
  \E r \in Reqs :
    \/ \E counted, named, tracks \in BOOLEAN, q \in Counts : SetRead(r, counted, q, named, tracks)
    \/ \E delta \in Deltas : AdjustRead(r, delta)
    \/ Create(r) \/ Open(r) \/ Set(r) \/ Adjust(r) \/ Crash(r)

Spec == Init /\ [][Next]_vars

-----------------------------------------------------------------------------
(* Properties.                                                             *)

Row == [there : BOOLEAN, onHand : Int, tracked : BOOLEAN, version : Nat]

\* Rows, movements and requests are of their kind; a request is about a row that
\* is there unless it is to create one, and no request is ahead of the row.
TypeOK ==
  /\ item \in Row /\ item.version <= MaxVersion
  /\ ledger \in Seq([quantity : Int, balance : Int, at : Nat])
  /\ opening \in Counts
  /\ req \in [Reqs ->
       [pc : {"idle", "create", "open", "set", "adjust"}, row : Row, quantity : Int,
        counted : BOOLEAN, tracks : BOOLEAN, at : Nat]]
  /\ \A r \in Reqs :
       /\ req[r].pc \in {"create", "open", "set"} => req[r].quantity \in Counts
       /\ req[r].pc \in {"open", "set", "adjust"} => item.there
       /\ req[r].row.version <= item.version /\ req[r].at <= Len(ledger)

\* "balance[n] = balance[n-1] + quantity[n]" (adjustStock()), through any overlap
\* and any crash: nothing has moved the count behind the ledger's back, whose
\* last balance is what is on hand.  It starts from nothing, or from the count the
\* row was created with where the receipt of that count was never written.
LedgerAddsUp ==
  LET start == IF ledger = <<>> THEN item.onHand ELSE ledger[1].balance - ledger[1].quantity
  IN  /\ start \in {0, opening}
      /\ \A n \in 2..Len(ledger) :
           ledger[n].balance = ledger[n - 1].balance + ledger[n].quantity
      /\ ledger # <<>> => ledger[Len(ledger)].balance = item.onHand

\* The movements read back by occurredAt come in the order in which they were
\* made (findMovements()): each was stamped after the last one was written.
LedgerReadsInOrder ==
  \A n \in 1..Len(ledger) : ledger[n].at = n - 1

\* "A tracked balance may not go below zero" (adjustItemStock()), not even by a
\* decrement that was decided when the row was not tracked.
TrackedNeverFallsBelowZero ==
  [][item'.tracked /\ item'.onHand < item.onHand => item'.onHand >= 0]_vars

\* What is seen of the row at the shelf.
Shelf == [there |-> item.there, onHand |-> item.onHand, tracked |-> item.tracked]

Promise == INSTANCE StockPromise WITH shelf <- Shelf, moves <- ledger

\* However requests overlap, read what is stale by the time they write, and die,
\* the row and its ledger go as if they had come one by one (StockPromise): every
\* write is decided on what is there, in one step with the movement that explains
\* it (the version of setStock() and adjustStock()).
ServedOneByOne == Promise!Spec
=============================================================================
