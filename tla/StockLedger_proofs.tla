-------------------------- MODULE StockLedger_proofs --------------------------
(***************************************************************************)
(* Proofs about StockLedger, for any number of requests, counts, deltas    *)
(* and writes: the ledger adds up, reads back in order, no decrement takes *)
(* a tracked dish below zero, and whatever overlaps is as if one person at *)
(* a time had stood at the shelf (StockPromise).                           *)
(*                                                                         *)
(* The argument: a request whose version still matches has seen the row as *)
(* it is, and nothing was written to the ledger since.  Every write moves  *)
(* the version, so of the requests in flight it leaves at most itself in   *)
(* that position.  That is also why a write can be told without saying     *)
(* what was read: each one is a step of StockPromise on the shelf as it    *)
(* is, and a read, a refusal and a crash change nothing there.             *)
(***************************************************************************)
EXTENDS StockLedger, TLAPS

Movement == [quantity : Int, balance : Int, at : Nat]

Request ==
  [pc : {"idle", "create", "open", "set", "adjust"}, row : Row, quantity : Int,
   counted : BOOLEAN, tracks : BOOLEAN, at : Nat]

KindInv ==
  /\ item \in Row /\ item.version <= MaxVersion
  /\ ledger \in Seq(Movement)
  /\ opening \in Counts
  /\ req \in [Reqs -> Request]

\* No movement precedes the row, nor the first write to it.
RowInv ==
  /\ ~item.there => item = Absent /\ ledger = <<>> /\ opening = 0
  /\ item.version = 0 => ledger = <<>> /\ item.onHand = opening

\* What request q may rely on.
Relies(q) ==
  /\ q.pc \in {"create", "open", "set"} => q.quantity \in Counts
  /\ q.pc = "adjust" => q.quantity \in Deltas
  /\ q.pc \in {"open", "set", "adjust"} => item.there
  /\ q.row.version <= item.version /\ q.at <= Len(ledger)
  /\ q.pc \in {"open", "set", "adjust"} /\ q.row.version = item.version =>
       q.row.onHand = item.onHand /\ q.row.tracked = item.tracked /\ q.at = Len(ledger)
  /\ q.pc = "open" => q.row.version = 0 /\ q.quantity = opening /\ q.quantity > 0

IInv ==
  /\ KindInv
  /\ RowInv
  /\ \A r \in Reqs : Relies(req[r])
  /\ LedgerAddsUp
  /\ LedgerReadsInOrder

-----------------------------------------------------------------------------
(* The row.                                                                *)

LEMMA Counted == \A q \in Counts : q \in Nat /\ q \in Int
BY CountsAssumption

LEMMA IdleRequest == Absent \in Row /\ Idle \in Request /\ Idle.pc = "idle" /\ Idle.row.version = 0 /\ Idle.at = 0
BY DEF Absent, Row, Idle, Request

LEMMA WrittenRow ==
  ASSUME item \in Row, NEW onHand \in Int, NEW tracked \in BOOLEAN, Written(onHand, tracked)
  PROVE  /\ item' \in Row /\ item'.there = item.there
         /\ item'.onHand = onHand /\ item'.tracked = tracked
         /\ item'.version = item.version + 1 /\ item'.version <= MaxVersion
<1>1. item.version \in Nat /\ item.version + 1 \in Nat /\ item.version + 1 <= MaxVersion
  BY BoundAssumption DEF Row, Written
<1>2. item' = [item EXCEPT !.onHand = onHand, !.tracked = tracked, !.version = item.version + 1]
  BY DEF Written
<1>3. /\ item'.there = item.there /\ item'.onHand = onHand /\ item'.tracked = tracked
      /\ item'.version = item.version + 1
  BY <1>2 DEF Row
<1>4. item' \in Row
  BY <1>1, <1>2, Zenon DEF Row
<1> QED BY <1>1, <1>3, <1>4

-----------------------------------------------------------------------------
(* The ledger.                                                             *)

\* A movement written at the head of the ledger, by what the row has moved.
LEMMA MovementAddsUp ==
  ASSUME KindInv, LedgerAddsUp, LedgerReadsInOrder,
         NEW q \in Int, item' \in Row, opening' = opening,
         item'.onHand = item.onHand + q,
         ledger' = Append(ledger, [quantity |-> q, balance |-> item'.onHand, at |-> Len(ledger)])
  PROVE  LedgerAddsUp' /\ LedgerReadsInOrder'
<1> DEFINE N == Len(ledger)
<1> DEFINE m == [quantity |-> q, balance |-> item'.onHand, at |-> N]
<1>2. item.onHand \in Int /\ item'.onHand \in Int
  BY DEF KindInv, Row
<1>0. m \in Movement /\ ledger \in Seq(Movement) /\ ledger' = Append(ledger, m)
  <2>1. N \in Nat
    BY DEF KindInv
  <2> QED BY <1>2, <2>1 DEF KindInv, Movement
<1> HIDE DEF m
<1>a. N \in Nat /\ Len(ledger') = N + 1 /\ ledger' # <<>> /\ ledger'[N + 1] = m
      /\ \A n \in 1..N : ledger'[n] = ledger[n] /\ ledger[n] \in Movement
  BY <1>0
<1>1. N \in Nat /\ Len(ledger') = N + 1 /\ ledger' # <<>>
      /\ ledger'[N + 1] = [quantity |-> q, balance |-> item'.onHand, at |-> N]
      /\ \A n \in 1..N : ledger'[n] = ledger[n] /\ ledger[n] \in Movement
  BY <1>a DEF m
<1>3. LedgerReadsInOrder'
  BY <1>1 DEF LedgerReadsInOrder
<1>4. CASE N = 0
  <2>1. ledger = <<>> /\ item.onHand \in {0, opening}
    BY <1>1, <1>4 DEF KindInv, LedgerAddsUp
  <2>2. ledger'[1].balance - ledger'[1].quantity = item.onHand
    BY <1>1, <1>2, <1>4
  <2> QED BY <1>1, <1>3, <1>4, <2>1, <2>2 DEF LedgerAddsUp
<1>5. CASE N > 0
  <2>1. ledger # <<>> /\ ledger'[1] = ledger[1]
    BY <1>1, <1>5
  <2>2. ledger[N].balance = item.onHand
    BY <2>1 DEF LedgerAddsUp
  <2>3. \A n \in 2..N + 1 : ledger'[n].balance = ledger'[n - 1].balance + ledger'[n].quantity
    <3> SUFFICES ASSUME NEW n \in 2..N + 1
                 PROVE  ledger'[n].balance = ledger'[n - 1].balance + ledger'[n].quantity
      OBVIOUS
    <3>1. CASE n = N + 1
      <4>1. ledger'[n - 1] = ledger[N]
        BY <1>1, <1>5, <3>1
      <4> QED BY <1>1, <2>2, <3>1, <4>1
    <3>2. CASE n # N + 1
      <4>1. n \in 2..N /\ n \in 1..N /\ n - 1 \in 1..N
        BY <1>1, <3>2
      <4> QED BY <1>1, <4>1 DEF LedgerAddsUp
    <3> QED BY <3>1, <3>2
  <2>4. ledger'[1].balance - ledger'[1].quantity \in {0, opening}
    BY <2>1 DEF LedgerAddsUp
  <2> QED BY <1>1, <1>3, <2>3, <2>4 DEF LedgerAddsUp
<1> QED BY <1>1, <1>4, <1>5

\* A write without a movement leaves the count where it is.
LEMMA UnmovedAddsUp ==
  ASSUME LedgerAddsUp, LedgerReadsInOrder,
         item'.onHand = item.onHand, ledger' = ledger, opening' = opening
  PROVE  LedgerAddsUp' /\ LedgerReadsInOrder'
BY DEF LedgerAddsUp, LedgerReadsInOrder

-----------------------------------------------------------------------------
(* Requests.                                                               *)

\* A write moves the version on, and with it out of every other request's reach.
LEMMA WriteOutdates ==
  ASSUME IInv, NEW r \in Reqs, item.there, item'.there, item' \in Row,
         item'.version = item.version + 1, opening' = opening,
         Len(ledger') \in Nat, Len(ledger) <= Len(ledger'), Done(r)
  PROVE  \A s \in Reqs : Relies(req[s])'
<1> SUFFICES ASSUME NEW s \in Reqs
             PROVE  Relies(req[s])'
  OBVIOUS
<1>1. item.version \in Nat /\ Len(ledger) \in Nat /\ req[s] \in Request /\ Relies(req[s])
  BY DEF IInv, KindInv, Row
<1>2. CASE s = r
  <2>1. req'[s] = Idle
    BY <1>2 DEF IInv, KindInv, Done
  <2> QED BY <1>1, <2>1 DEF Relies, Idle, Absent
<1>3. CASE s # r
  <2>1. req'[s] = req[s]
    BY <1>3 DEF IInv, KindInv, Done
  <2>2. req[s].row.version \in Nat /\ req[s].at \in Nat
    BY <1>1 DEF Request, Row
  <2> QED BY <1>1, <2>1, <2>2 DEF Relies
<1> QED BY <1>2, <1>3

\* A request that ends without a write takes nothing with it.
LEMMA DoneKeeps ==
  ASSUME IInv, NEW r \in Reqs, Done(r), UNCHANGED <<item, ledger, opening>>
  PROVE  IInv'
<1>1. Idle \in Request
  BY DEF Idle, Request, Row, Absent
<1>2. KindInv'
  BY <1>1 DEF IInv, KindInv, Done
<1>3. \A s \in Reqs : Relies(req[s])'
  <2> SUFFICES ASSUME NEW s \in Reqs
               PROVE  Relies(req[s])'
    OBVIOUS
  <2>1. item.version \in Nat /\ Len(ledger) \in Nat
    BY DEF IInv, KindInv, Row
  <2>2. CASE s = r
    <3>1. req'[s] = Idle
      BY <2>2 DEF IInv, KindInv, Done
    <3> QED BY <2>1, <3>1 DEF Relies, Idle, Absent
  <2>3. CASE s # r
    <3>1. req'[s] = req[s]
      BY <2>3 DEF IInv, KindInv, Done
    <3> QED BY <3>1 DEF IInv, Relies
  <2> QED BY <2>2, <2>3
<1> QED BY <1>2, <1>3 DEF IInv, RowInv, LedgerAddsUp, LedgerReadsInOrder

-----------------------------------------------------------------------------

LEMMA InitIInv == Init => IInv
<1> SUFFICES ASSUME Init PROVE IInv
  OBVIOUS
<1>1. Absent \in Row /\ Idle \in Request
  BY IdleRequest
<1>2. KindInv
  <2>1. item \in Row /\ item.version <= MaxVersion
    BY <1>1, BoundAssumption DEF Init, Absent
  <2>2. ledger \in Seq(Movement) /\ opening \in Counts
    BY CountsAssumption DEF Init
  <2>3. req \in [Reqs -> Request]
    BY <1>1 DEF Init
  <2> QED BY <2>1, <2>2, <2>3 DEF KindInv
<1>3. \A r \in Reqs : Relies(req[r])
  <2>1. item.version = 0 /\ Len(ledger) = 0 /\ \A r \in Reqs : req[r] = Idle
    BY DEF Init, Absent
  <2>2. Idle.row.version <= item.version /\ Idle.at <= Len(ledger)
    BY <2>1, IdleRequest
  <2> QED BY <2>1, <2>2, IdleRequest, Zenon DEF Relies
<1> QED BY <1>2, <1>3 DEF Init, IInv, RowInv, LedgerAddsUp, LedgerReadsInOrder, Absent

\* A request begins with what is there now.
LEMMA BeginKeeps ==
  ASSUME IInv, NEW r \in Reqs, NEW q \in Request, Begin(r, q),
         UNCHANGED <<item, ledger, opening>>,
         q.pc \in {"create", "set", "adjust"},
         q.pc \in {"create", "set"} => q.quantity \in Counts,
         q.pc = "adjust" => q.quantity \in Deltas,
         q.pc \in {"set", "adjust"} => item.there
  PROVE  IInv'
<1> DEFINE p == [q EXCEPT !.row = item, !.at = Len(ledger)]
<1>1. item \in Row /\ item.version \in Nat /\ Len(ledger) \in Nat
  BY DEF IInv, KindInv, Row
<1>2. p \in Request
  BY <1>1 DEF Request
<1>3. req' = [req EXCEPT ![r] = p]
  BY DEF Begin
<1>4. KindInv'
  BY <1>2, <1>3 DEF IInv, KindInv
<1>5. Relies(p)
  <2>1. p.pc = q.pc /\ p.quantity = q.quantity /\ p.row = item /\ p.at = Len(ledger)
    BY DEF Request
  <2> HIDE DEF p
  <2> QED BY <1>1, <2>1 DEF Relies
<1>6. \A s \in Reqs : Relies(req[s])'
  BY <1>3, <1>5 DEF IInv, KindInv, Relies
<1> QED BY <1>4, <1>6 DEF IInv, RowInv, LedgerAddsUp, LedgerReadsInOrder

-----------------------------------------------------------------------------
(* Writes.                                                                 *)

\* A write with its movement, or without one where the count stays.
LEMMA WriteKeeps ==
  ASSUME IInv, NEW r \in Reqs, NEW q \in Int, NEW tracked \in BOOLEAN,
         item.there, Done(r), UNCHANGED opening,
         Written(item.onHand + q, tracked),
         \/ req[r].at = Len(ledger) /\ Log(r, q)
         \/ q = 0 /\ UNCHANGED ledger
  PROVE  IInv'
<1>1. item \in Row /\ item.version \in Nat /\ item.onHand \in Int
  BY DEF IInv, KindInv, Row
<1>2. /\ item' \in Row /\ item'.there /\ item'.version = item.version + 1
      /\ item'.version <= MaxVersion /\ item'.onHand = item.onHand + q
  <2>1. item.onHand + q \in Int
    BY <1>1
  <2> QED BY <1>1, <2>1, WrittenRow
<1>3. ledger' \in Seq(Movement) /\ Len(ledger) <= Len(ledger') /\ LedgerAddsUp' /\ LedgerReadsInOrder'
  <2>1. CASE req[r].at = Len(ledger) /\ Log(r, q)
    <3> DEFINE m == [quantity |-> q, balance |-> item'.onHand, at |-> Len(ledger)]
    <3>1. ledger' = Append(ledger, m)
      BY <2>1 DEF Log
    <3>2. m \in Movement /\ ledger \in Seq(Movement)
      <4>1. Len(ledger) \in Nat /\ item'.onHand \in Int
        BY <1>1, <1>2 DEF IInv, KindInv
      <4> QED BY <4>1 DEF IInv, KindInv, Movement
    <3>3. LedgerAddsUp' /\ LedgerReadsInOrder'
      BY <1>2, <3>1, MovementAddsUp DEF IInv
    <3> HIDE DEF m
    <3> QED BY <3>1, <3>2, <3>3
  <2>2. CASE q = 0 /\ UNCHANGED ledger
    BY <1>1, <1>2, <2>2, UnmovedAddsUp DEF IInv, KindInv
  <2> QED BY <2>1, <2>2
<1>4. \A s \in Reqs : Relies(req[s])'
  <2>1. Len(ledger') \in Nat
    BY <1>3
  <2> QED BY <1>2, <1>3, <2>1, WriteOutdates
<1>5. Idle \in Request
  BY DEF Idle, Request, Row, Absent
<1>6. KindInv'
  BY <1>2, <1>3, <1>5 DEF IInv, KindInv, Done
<1>7. RowInv'
  BY <1>1, <1>2 DEF RowInv
<1> QED BY <1>3, <1>4, <1>6, <1>7 DEF IInv

\* What a request that has its turn can count on.
LEMMA Relied ==
  ASSUME IInv, NEW r \in Reqs
  PROVE  Relies(req[r]) /\ req[r] \in Request /\ item \in Row
BY DEF IInv, KindInv

LEMMA CreateKeeps == ASSUME IInv, NEW r \in Reqs, Create(r) PROVE IInv'
<1> DEFINE row == [there |-> TRUE, onHand |-> req[r].quantity, tracked |-> req[r].tracks, version |-> 0]
<1>1. CASE item.there
  BY <1>1, DoneKeeps DEF Create
<1>2. CASE ~item.there
  <2>1. item = Absent /\ ledger = <<>> /\ opening = 0 /\ item.version = 0
    BY <1>2 DEF IInv, RowInv, Absent
  <2>2. req[r].quantity \in Counts /\ req[r].tracks \in BOOLEAN
    BY Relied DEF Create, At, Relies, Request
  <2>3. row \in Row /\ row.onHand \in Counts /\ row.there /\ row.version = 0 /\ row.onHand = req[r].quantity
    <3>1. row.onHand \in Int /\ row.version \in Nat /\ row.tracked \in BOOLEAN
      BY <2>2, Counted
    <3>2. row \in Row
      BY <2>2, <3>1, Zenon DEF Row
    <3> QED BY <2>2, <3>2
  <2>4. item' = row /\ opening' = row.onHand /\ ledger' = ledger
        /\ IF row.onHand > 0
              THEN req' = [req EXCEPT ![r].pc = "open", ![r].row = row, ![r].at = Len(ledger)]
              ELSE Done(r)
    BY <1>2 DEF Create
  <2> HIDE DEF row
  <2>5. Len(ledger) = 0 /\ Len(ledger') = 0
    BY <2>1, <2>4
  <2>6. \A s \in Reqs : req'[s] \in Request /\ Relies(req[s])'
    <3> SUFFICES ASSUME NEW s \in Reqs
                 PROVE  req'[s] \in Request /\ Relies(req[s])'
      OBVIOUS
    <3>1. req[s] \in Request /\ Relies(req[s]) /\ req \in [Reqs -> Request]
      BY DEF IInv, KindInv
    <3>2. CASE req'[s] = Idle
      BY <2>3, <2>4, <2>5, <3>2 DEF Relies, Idle, Absent, Request, Row
    <3>3. CASE s # r
      <4>1. req'[s] = req[s]
        BY <2>4, <3>1, <3>3 DEF Done
      <4>2. req[s].pc \notin {"open", "set", "adjust"}
        BY <1>2, <3>1 DEF Relies
      <4> QED BY <2>1, <2>3, <2>4, <3>1, <4>1, <4>2 DEF Relies
    <3>4. CASE s = r /\ row.onHand > 0
      <4> DEFINE q == [req[r] EXCEPT !.pc = "open", !.row = row, !.at = 0]
      <4>1. req'[s] = q
        BY <2>4, <2>5, <3>1, <3>4
      <4>2. /\ q \in Request /\ q.pc = "open" /\ q.row = row /\ q.at = 0
            /\ q.quantity = req[r].quantity /\ row.onHand > 0
        BY <2>3, <3>1, <3>4 DEF Request
      <4> HIDE DEF q
      <4> QED BY <2>2, <2>3, <2>4, <2>5, <4>1, <4>2 DEF Relies
    <3>5. CASE s = r /\ ~(row.onHand > 0)
      BY <2>4, <3>1, <3>2, <3>5 DEF Done
    <3> QED BY <3>3, <3>4, <3>5
  <2>7. req' \in [Reqs -> Request]
    <3>1. req \in [Reqs -> Request]
      BY DEF IInv, KindInv
    <3>2. DOMAIN req' = Reqs /\ req' = [s \in Reqs |-> req'[s]]
      BY <2>4, <3>1 DEF Done
    <3> QED BY <2>6, <3>2
  <2>8. KindInv'
    BY <2>1, <2>3, <2>4, <2>7, BoundAssumption DEF IInv, KindInv
  <2>9. RowInv' /\ LedgerAddsUp' /\ LedgerReadsInOrder'
    BY <2>1, <2>3, <2>4 DEF RowInv, LedgerAddsUp, LedgerReadsInOrder
  <2> QED BY <2>6, <2>8, <2>9 DEF IInv
<1> QED BY <1>1, <1>2

\* The receipt is written only while the ledger is still empty.
LEMMA OpenKeeps == ASSUME IInv, NEW r \in Reqs, Open(r) PROVE IInv'
<1>1. CASE UNCHANGED <<item, ledger>>
  BY <1>1, DoneKeeps DEF Open
<1>2. CASE Unchanged(r) /\ Written(item.onHand, item.tracked) /\ Log(r, req[r].quantity)
  <2> DEFINE m == [quantity |-> req[r].quantity, balance |-> item'.onHand, at |-> 0]
  <2>1. /\ Relies(req[r]) /\ req[r].pc = "open" /\ Done(r) /\ opening' = opening
        /\ item \in Row /\ item.there
    BY Relied DEF Open, At, Relies
  <2>2. item.version = 0 /\ req[r].at = Len(ledger) /\ req[r].quantity = opening
    BY <1>2, <2>1 DEF Relies, Unchanged
  <2>3. ledger = <<>> /\ item.onHand = opening /\ opening \in Nat
    BY <2>2, CountsAssumption DEF IInv, RowInv, KindInv
  <2>4. /\ item' \in Row /\ item'.there /\ item'.version = 1
        /\ item'.version <= MaxVersion /\ item'.onHand = opening
    <3>1. item.onHand \in Int /\ item.tracked \in BOOLEAN
      BY <2>1 DEF Row
    <3>2. /\ item' \in Row /\ item'.there = item.there /\ item'.onHand = item.onHand
          /\ item'.version = item.version + 1 /\ item'.version <= MaxVersion
      BY <1>2, <2>1, <3>1, WrittenRow
    <3>3. item'.there
      BY <2>1, <3>2
    <3> QED BY <2>2, <2>3, <3>2, <3>3
  <2>5. ledger' = Append(<<>>, m)
    BY <1>2, <2>2, <2>3 DEF Log
  <2>6. m \in Movement /\ m.at = 0 /\ m.balance = opening /\ m.quantity = opening
    BY <2>2, <2>3, <2>4 DEF Movement
  <2> HIDE DEF m
  <2>7. ledger' = <<m>> /\ ledger' \in Seq(Movement) /\ Len(ledger') = 1
    BY <2>5, <2>6
  <2>8. LedgerAddsUp' /\ LedgerReadsInOrder'
    BY <2>1, <2>3, <2>4, <2>6, <2>7 DEF LedgerAddsUp, LedgerReadsInOrder
  <2>9. \A s \in Reqs : Relies(req[s])'
    BY <2>1, <2>2, <2>3, <2>4, <2>7, WriteOutdates
  <2>10. Idle \in Request
    BY DEF Idle, Request, Row, Absent
  <2>11. KindInv' /\ RowInv'
    BY <2>1, <2>4, <2>7, <2>10 DEF IInv, KindInv, RowInv, Done
  <2> QED BY <2>8, <2>9, <2>11 DEF IInv
<1> QED BY <1>1, <1>2 DEF Open

LEMMA SetKeeps == ASSUME IInv, NEW r \in Reqs, Set(r) PROVE IInv'
<1> DEFINE moved == req[r].quantity - req[r].row.onHand
<1>1. CASE UNCHANGED <<item, ledger>>
  BY <1>1, DoneKeeps DEF Set
<1>2. /\ Relies(req[r]) /\ req[r] \in Request /\ item \in Row /\ req[r].pc = "set"
      /\ Done(r) /\ UNCHANGED opening /\ item.there /\ req[r].quantity \in Int
      /\ req[r].tracks \in BOOLEAN /\ item.onHand \in Int
  BY Relied DEF Set, At, Relies, Request, Row
<1>3. CASE Unchanged(r) /\ req[r].counted /\ Written(req[r].quantity, req[r].tracks)
           /\ IF moved = 0 THEN UNCHANGED ledger ELSE Log(r, moved)
  <2>1. req[r].row.onHand = item.onHand /\ req[r].at = Len(ledger)
    BY <1>2, <1>3 DEF Relies, Unchanged
  <2>2. moved \in Int /\ req[r].quantity = item.onHand + moved
    BY <1>2, <2>1
  <2>3. Written(item.onHand + moved, req[r].tracks)
    BY <1>3, <2>2
  <2>4. (req[r].at = Len(ledger) /\ Log(r, moved)) \/ (moved = 0 /\ UNCHANGED ledger)
    BY <1>3, <2>1
  <2> HIDE DEF moved
  <2> QED BY <1>2, <2>2, <2>3, <2>4, WriteKeeps
<1>4. CASE Unchanged(r) /\ ~req[r].counted /\ Written(item.onHand, req[r].tracks) /\ UNCHANGED ledger
  <2>1. Written(item.onHand + 0, req[r].tracks)
    BY <1>2, <1>4
  <2> QED BY <1>2, <1>4, <2>1, WriteKeeps
<1> QED BY <1>1, <1>3, <1>4 DEF Set

LEMMA AdjustKeeps == ASSUME IInv, NEW r \in Reqs, Adjust(r) PROVE IInv'
<1>1. CASE UNCHANGED <<item, ledger>>
  BY <1>1, DoneKeeps DEF Adjust
<1>2. CASE Unchanged(r) /\ Written(item.onHand + req[r].quantity, item.tracked) /\ Log(r, req[r].quantity)
  <2>1. /\ Relies(req[r]) /\ req[r] \in Request /\ item \in Row /\ req[r].pc = "adjust"
        /\ Done(r) /\ UNCHANGED opening /\ item.there
    BY Relied DEF Adjust, At, Relies
  <2>2. req[r].at = Len(ledger) /\ req[r].quantity \in Int /\ item.tracked \in BOOLEAN
    BY <1>2, <2>1 DEF Relies, Unchanged, Request, Row
  <2> QED BY <1>2, <2>1, <2>2, WriteKeeps
<1> QED BY <1>1, <1>2 DEF Adjust

LEMMA StepIInv == IInv /\ [Next]_vars => IInv'
<1> SUFFICES ASSUME IInv, [Next]_vars PROVE IInv'
  OBVIOUS
<1>1. ASSUME NEW r \in Reqs, NEW counted \in BOOLEAN, NEW named \in BOOLEAN, NEW tracks \in BOOLEAN,
             NEW q \in Counts, SetRead(r, counted, q, named, tracks)
      PROVE  IInv'
  <2> DEFINE p == [Idle EXCEPT
       !.pc = IF item.there THEN "set" ELSE "create",
       !.quantity = IF counted THEN q ELSE 0,
       !.counted = counted,
       !.tracks = IF named THEN tracks ELSE (item.there => item.tracked)]
  <2>1. Begin(r, p) /\ UNCHANGED <<item, ledger, opening>>
    BY <1>1 DEF SetRead
  <2>2. item.there \in BOOLEAN /\ item.tracked \in BOOLEAN
    BY DEF IInv, KindInv, Row
  <2>3. Absent \in Row
    BY DEF Absent, Row
  <2>4. /\ p.pc = IF item.there THEN "set" ELSE "create"
        /\ p.quantity \in Counts
    BY <1>1, CountsAssumption DEF Idle
  <2>5. p \in Request
    <3>1. (IF counted THEN q ELSE 0) \in Int
      BY Counted
    <3>2. (IF named THEN tracks ELSE (item.there => item.tracked)) \in BOOLEAN
      BY <2>2
    <3>3. (IF item.there THEN "set" ELSE "create") \in {"idle", "create", "open", "set", "adjust"}
      OBVIOUS
    <3> QED BY <3>1, <3>2, <3>3, IdleRequest, Zenon DEF Request
  <2> HIDE DEF p
  <2> QED BY <2>1, <2>4, <2>5, BeginKeeps
<1>2. ASSUME NEW r \in Reqs, NEW delta \in Deltas, AdjustRead(r, delta)
      PROVE  IInv'
  <2> DEFINE p == [Idle EXCEPT !.pc = "adjust", !.quantity = delta]
  <2>1. Begin(r, p) /\ item.there /\ UNCHANGED <<item, ledger, opening>>
    BY <1>2 DEF AdjustRead
  <2>2. p \in Request /\ p.pc = "adjust" /\ p.quantity \in Deltas
    <3>1. delta \in Int
      BY DeltasAssumption
    <3> QED BY <3>1, IdleRequest DEF Request
  <2> HIDE DEF p
  <2> QED BY <2>1, <2>2, BeginKeeps
<1>3. ASSUME NEW r \in Reqs, Crash(r) PROVE IInv'
  BY <1>3, DoneKeeps DEF Crash
<1>4. CASE UNCHANGED vars
  <2>1. UNCHANGED <<item, ledger, opening, req>>
    BY <1>4 DEF vars
  <2> QED BY <2>1 DEF IInv, KindInv, RowInv, Relies, LedgerAddsUp, LedgerReadsInOrder
<1> QED BY <1>1, <1>2, <1>3, <1>4, CreateKeeps, OpenKeeps, SetKeeps, AdjustKeeps DEF Next

\* No overlap and no crash of setItemStock() and adjustItemStock() breaks what
\* the parts above say.
THEOREM Invariance == Spec => []IInv
BY InitIInv, StepIInv, PTL DEF Spec

\* Rows, movements and requests keep their kind; no request is about a row that
\* is not there, or ahead of the one that is.
THEOREM TypeCorrect == Spec => []TypeOK
<1>1. IInv => TypeOK
  BY DEF IInv, KindInv, Relies, TypeOK, Movement, Request
<1> QED BY <1>1, Invariance, PTL

\* Each movement's balance is the one before it and its own quantity, and the
\* last one's is what is on hand (adjustStock(), setStock()).
THEOREM LedgerAddsUpHolds == Spec => []LedgerAddsUp
<1>1. IInv => LedgerAddsUp
  BY DEF IInv
<1> QED BY <1>1, Invariance, PTL

\* occurredAt orders the movements as they were made (findMovements()).
THEOREM LedgerReadsInOrderHolds == Spec => []LedgerReadsInOrder
<1>1. IInv => LedgerReadsInOrder
  BY DEF IInv
<1> QED BY <1>1, Invariance, PTL

\* The floor of adjustItemStock() was decided on what was read, and still holds
\* when it is applied: the version answers for trackStock too.
THEOREM TrackedNeverFallsHolds == Spec => TrackedNeverFallsBelowZero
<1> DEFINE Fair == item'.tracked /\ item'.onHand < item.onHand => item'.onHand >= 0
<1>1. IInv /\ [Next]_vars => [Fair]_vars
  <2> SUFFICES ASSUME IInv, Next, item'.tracked, item'.onHand < item.onHand
               PROVE  item'.onHand >= 0
    BY DEF vars
  <2>1. item \in Row /\ item.onHand \in Int /\ item.tracked \in BOOLEAN
    BY DEF IInv, KindInv, Row
  <2>2. item' # item
    BY <2>1
  <2>3. ASSUME NEW r \in Reqs, Create(r) PROVE item'.onHand >= 0
    <3>1. req[r].quantity \in Nat
      BY <2>3, Relied, Counted DEF Create, At, Relies
    <3>2. item'.onHand = req[r].quantity
      BY <2>2, <2>3 DEF Create
    <3> QED BY <3>1, <3>2
  <2>4. ASSUME NEW r \in Reqs, Open(r) PROVE item'.onHand >= 0
    <3>1. Written(item.onHand, item.tracked)
      BY <2>2, <2>4 DEF Open
    <3>2. item'.onHand = item.onHand
      BY <2>1, <3>1, WrittenRow
    <3> QED BY <2>1, <3>2
  <2>5. ASSUME NEW r \in Reqs, Set(r) PROVE item'.onHand >= 0
    <3>1. req[r].quantity \in Nat /\ req[r].quantity \in Int /\ req[r].tracks \in BOOLEAN
      BY <2>5, Relied, Counted DEF Set, At, Relies, Request
    <3>2. CASE Written(req[r].quantity, req[r].tracks)
      <4>1. item'.onHand = req[r].quantity
        BY <2>1, <3>1, <3>2, WrittenRow
      <4> QED BY <3>1, <4>1
    <3>3. CASE Written(item.onHand, req[r].tracks)
      <4>1. item'.onHand = item.onHand
        BY <2>1, <3>1, <3>3, WrittenRow
      <4> QED BY <2>1, <4>1
    <3> QED BY <2>2, <2>5, <3>2, <3>3 DEF Set
  <2>6. ASSUME NEW r \in Reqs, Adjust(r) PROVE item'.onHand >= 0
    <3>1. Unchanged(r) /\ AboveFloor(r) /\ Written(item.onHand + req[r].quantity, item.tracked)
      BY <2>2, <2>6 DEF Adjust
    <3>2. req[r].row.tracked = item.tracked /\ req[r].quantity \in Int
      BY <2>6, <3>1, Relied DEF Adjust, At, Relies, Unchanged, Request
    <3>3. item.onHand + req[r].quantity \in Int
      BY <2>1, <3>2
    <3>4. item'.onHand = item.onHand + req[r].quantity /\ item'.tracked = item.tracked
      BY <2>1, <3>1, <3>3, WrittenRow
    <3>5. req[r].quantity < 0 /\ req[r].row.tracked
      BY <2>1, <3>2, <3>4
    <3>6. item.onHand >= -req[r].quantity
      BY <3>1, <3>5 DEF AboveFloor
    <3> QED BY <2>1, <3>2, <3>4, <3>6
  <2> QED BY <2>2, <2>3, <2>4, <2>5, <2>6 DEF Next, SetRead, AdjustRead, Crash
<1> QED BY <1>1, Invariance, PTL DEF Spec, TrackedNeverFallsBelowZero

-----------------------------------------------------------------------------
(* The requests are served one by one.                                     *)

\* A write with its movement is one movement of the shelf.
LEMMA WriteMoves ==
  ASSUME IInv, NEW r \in Reqs, NEW q \in Int, NEW tracked \in BOOLEAN, item.there,
         Written(item.onHand + q, tracked), req[r].at = Len(ledger), Log(r, q)
  PROVE  Promise!Move(q, tracked)
<1>1. item \in Row /\ item.onHand + q \in Int /\ item.there = TRUE
  BY DEF IInv, KindInv, Row
<1>2. item'.there = TRUE /\ item'.onHand = item.onHand + q /\ item'.tracked = tracked
  BY <1>1, WrittenRow
<1> QED BY <1>2 DEF Promise!Move, Log, Shelf

\* A write without one leaves the count and says whether it binds.
LEMMA WriteTracks ==
  ASSUME IInv, NEW tracked \in BOOLEAN, item.there,
         Written(item.onHand, tracked), UNCHANGED ledger
  PROVE  Promise!Track(tracked)
<1>1. item \in Row /\ item.onHand \in Int /\ item.there = TRUE
  BY DEF IInv, KindInv, Row
<1>2. item'.there = TRUE /\ item'.onHand = item.onHand /\ item'.tracked = tracked
  BY <1>1, WrittenRow
<1> QED BY <1>2 DEF Promise!Track, Shelf

LEMMA CreateImplements ==
  ASSUME IInv, NEW r \in Reqs, Create(r), ~UNCHANGED <<item, ledger>>
  PROVE  Promise!Next
<1>1. req[r].quantity \in Counts /\ req[r].tracks \in BOOLEAN
  BY Relied DEF Create, At, Relies, Request
<1>2. /\ ~item.there /\ UNCHANGED ledger
      /\ item' = [there |-> TRUE, onHand |-> req[r].quantity,
                   tracked |-> req[r].tracks, version |-> 0]
  BY DEF Create
<1>3. Promise!Create(req[r].quantity, req[r].tracks)
  BY <1>2 DEF Promise!Create, Shelf
<1> QED BY <1>1, <1>3 DEF Promise!Next

LEMMA OpenImplements ==
  ASSUME IInv, NEW r \in Reqs, Open(r), ~UNCHANGED <<item, ledger>>
  PROVE  Promise!Next
<1>1. Unchanged(r) /\ Written(item.onHand, item.tracked) /\ Log(r, req[r].quantity)
  BY DEF Open
<1>2. /\ req[r].quantity = opening /\ item.version = 0 /\ req[r].at = Len(ledger)
      /\ item.there /\ item \in Row /\ item.onHand \in Int /\ item.tracked \in BOOLEAN
  BY <1>1, Relied DEF Open, At, Relies, Unchanged, Row
<1>3. ledger = <<>> /\ item.onHand = opening
  BY <1>2 DEF IInv, RowInv
<1>4. item'.there = item.there /\ item'.onHand = item.onHand /\ item'.tracked = item.tracked
  BY <1>1, <1>2, WrittenRow
<1>5. ledger' = <<[quantity |-> item.onHand, balance |-> item.onHand, at |-> 0]>>
  BY <1>1, <1>2, <1>3, <1>4 DEF Log
<1>6. item.onHand > 0
  BY <1>2, <1>3, Relied DEF Open, At, Relies
<1>7. Promise!Receive
  BY <1>2, <1>3, <1>4, <1>5, <1>6 DEF Promise!Receive, Shelf
<1> QED BY <1>7 DEF Promise!Next

LEMMA SetImplements ==
  ASSUME IInv, NEW r \in Reqs, Set(r), ~UNCHANGED <<item, ledger>>
  PROVE  Promise!Next
<1> DEFINE moved == req[r].quantity - req[r].row.onHand
<1>1. /\ Unchanged(r)
      /\ \/ /\ Written(req[r].quantity, req[r].tracks)
            /\ IF moved = 0 THEN UNCHANGED ledger ELSE Log(r, moved)
         \/ Written(item.onHand, req[r].tracks) /\ UNCHANGED ledger
  BY DEF Set
<1>2. /\ req[r].quantity \in Counts /\ req[r].quantity \in Int /\ req[r].tracks \in BOOLEAN
      /\ item.there /\ item.onHand \in Int
      /\ req[r].row.onHand = item.onHand /\ req[r].at = Len(ledger)
  BY <1>1, Relied, Counted DEF Set, At, Relies, Unchanged, Request, Row
<1>3. CASE Written(item.onHand, req[r].tracks) /\ UNCHANGED ledger
  BY <1>2, <1>3, WriteTracks DEF Promise!Next
<1>4. CASE Written(req[r].quantity, req[r].tracks) /\ moved # 0 /\ Log(r, moved)
  <2>1. moved \in Int /\ item.onHand + moved = req[r].quantity
        /\ moved = req[r].quantity - item.onHand /\ req[r].quantity # item.onHand
    BY <1>2, <1>4
  <2>2. Written(item.onHand + moved, req[r].tracks)
    BY <1>4, <2>1
  <2> HIDE DEF moved
  <2>3. Promise!Move(moved, req[r].tracks)
    BY <1>2, <1>4, <2>1, <2>2, WriteMoves
  <2>4. Promise!Recount(req[r].quantity, req[r].tracks)
    BY <1>2, <2>1, <2>3 DEF Promise!Recount, Shelf
  <2> QED BY <1>2, <2>4 DEF Promise!Next
<1>5. CASE Written(req[r].quantity, req[r].tracks) /\ moved = 0 /\ UNCHANGED ledger
  <2>1. req[r].quantity = item.onHand
    BY <1>2, <1>5
  <2> QED BY <1>3, <1>5, <2>1
<1> QED BY <1>1, <1>3, <1>4, <1>5

LEMMA AdjustImplements ==
  ASSUME IInv, NEW r \in Reqs, Adjust(r), ~UNCHANGED <<item, ledger>>
  PROVE  Promise!Next
<1>1. /\ Unchanged(r) /\ AboveFloor(r) /\ Log(r, req[r].quantity)
      /\ Written(item.onHand + req[r].quantity, item.tracked)
  BY DEF Adjust
<1>2. /\ req[r].quantity \in Deltas /\ req[r].quantity \in Int /\ item.there
      /\ item.onHand \in Int /\ item.tracked \in BOOLEAN
      /\ req[r].row.tracked = item.tracked /\ req[r].at = Len(ledger)
  BY <1>1, Relied, DeltasAssumption DEF Adjust, At, Relies, Unchanged, Row
<1>3. Promise!Move(req[r].quantity, item.tracked)
  BY <1>1, <1>2, WriteMoves
<1>4. req[r].quantity < 0 /\ item.tracked => item.onHand + req[r].quantity >= 0
  BY <1>1, <1>2 DEF AboveFloor
<1>5. Promise!Adjust(req[r].quantity)
  BY <1>2, <1>3, <1>4 DEF Promise!Adjust, Shelf
<1> QED BY <1>2, <1>5 DEF Promise!Next

LEMMA NextImplements == IInv /\ [Next]_vars => [Promise!Next]_<<Shelf, ledger>>
<1> SUFFICES ASSUME IInv, [Next]_vars, ~UNCHANGED <<item, ledger>>
             PROVE  Promise!Next
  BY DEF Shelf
<1>1. CASE UNCHANGED vars
  BY <1>1 DEF vars
<1>2. ASSUME NEW r \in Reqs PROVE ~Crash(r) /\ \A delta \in Deltas : ~AdjustRead(r, delta)
  BY DEF Crash, AdjustRead
<1>3. ASSUME NEW r \in Reqs, NEW counted \in BOOLEAN, NEW named \in BOOLEAN,
             NEW tracks \in BOOLEAN, NEW q \in Counts
      PROVE  ~SetRead(r, counted, q, named, tracks)
  BY DEF SetRead
<1> QED BY <1>1, <1>2, <1>3, CreateImplements, OpenImplements, SetImplements, AdjustImplements
        DEF Next

\* Whatever overlaps and whatever dies, the row and its ledger move as if the
\* requests had been served one by one (setItemStock(), adjustItemStock()): a
\* write that goes through was decided on the row as it is, because the version
\* answers for all that was read.
THEOREM ServedOneByOneHolds == Spec => ServedOneByOne
<1>1. Init => Promise!Init
  BY DEF Init, Promise!Init, Shelf, Absent
<1> QED BY <1>1, NextImplements, Invariance, PTL
        DEF Spec, ServedOneByOne, Promise!Spec
=============================================================================
