--------------------------- MODULE Payouts_proofs ---------------------------
(***************************************************************************)
(* Proofs about Payouts, for any number of windows, payees, orders, weeks  *)
(* and writes: what holds of every copy of the store (IInv), resting on it *)
(* that the windows agree once they have been told (SyncInv), and, resting *)
(* on both, that no transfer is in one copy only (Joined).                 *)
(***************************************************************************)
EXTENDS Payouts, TLAPS

\* What holds of one copy.
GoodCopy(c) ==
  /\ IsCopy(c)
  /\ PaidOnce(c)
  /\ CorrectedBefore(c)
  /\ resets = 0 => PaidInFull(c)

\* What a page shows of a week that was over when it was computed is still so.
GoodPage(pg) ==
  /\ pg.week \in 0..week
  /\ \A o \in Orders : pg.settled[o] \in 0..pg.week
  /\ resets = 0 => \A o \in Orders :
       pg.settled[o] # settled[o] => pg.settled[o] = 0 /\ settled[o] >= pg.week

Pages == {page[w] : w \in Windows}

\* The inductive invariant.
IInv ==
  /\ mem \in [Windows -> {mem[w] : w \in Windows}]
  /\ page \in [Windows -> Pages]
  /\ \A c \in Copies : GoodCopy(c)
  /\ \A pg \in Pages : GoodPage(pg)
  /\ settled \in [Orders -> 0..week] /\ week \in 1..LastWeek
  /\ clock \in 1..(MaxWrites + 1) /\ resets \in 0..MaxResets /\ crossed \subseteq Windows

\* What every step does to the calendar and to the order book.
Frame ==
  /\ clock' \in 1..(MaxWrites + 1) /\ clock' >= clock
  /\ week' \in 1..LastWeek /\ week' >= week
  /\ settled' \in [Orders -> 0..week']
  /\ resets' \in 0..MaxResets /\ crossed' \subseteq Windows
  /\ resets' = 0 => resets = 0 /\ \A o \in Orders :
       settled'[o] # settled[o] => settled[o] = 0 /\ settled'[o] = week

\* What a write does besides storing its copy.
Dated == clock \in 1..MaxWrites /\ clock' = clock + 1 /\ crossed' \subseteq Windows

LEMMA WriteIsDated ==
  ASSUME IInv, NEW w \in Windows, NEW c, Write(w, c)
  PROVE  Dated /\ Sync!Store(w, c)
BY BoundsAssumption DEF IInv, Write, Dated

\* The orders of a week that is over stay what they are.
LEMMA OrdersStay ==
  ASSUME IInv, Frame, resets' = 0, NEW p, NEW k \in 1..LastWeek, k < week
  PROVE  OrdersIn(settled', p, k) = OrdersIn(settled, p, k)
<1>1. ASSUME NEW o \in Orders PROVE settled'[o] = k <=> settled[o] = k
  BY DEF IInv, Frame
<1> QED BY <1>1 DEF OrdersIn

\* A good copy is good after any step.
LEMMA CopyStays ==
  ASSUME IInv, Frame, NEW c, GoodCopy(c)
  PROVE  GoodCopy(c)'
<1>1. clock \in Int /\ clock' \in Int /\ clock' >= clock /\ week' >= week
      /\ week \in 1..LastWeek /\ week' \in Int /\ LastWeek \in Int
  BY BoundsAssumption DEF IInv, Frame
<1>2. IsCopy(c)'
  BY <1>1 DEF GoodCopy, IsCopy
<1>3. PaidOnce(c)' /\ CorrectedBefore(c)'
  BY DEF GoodCopy, PaidOnce, CorrectedBefore
<1>4. ASSUME resets' = 0 PROVE PaidInFull(c)'
  <2>1. PaidInFull(c) BY <1>4 DEF GoodCopy, Frame
  <2> SUFFICES ASSUME NEW x \in c.payouts
               PROVE  /\ x.period < week'
                      /\ x.payee \in Riders =>
                           x.amount = Owed(x.payee, OrdersIn(settled', x.payee, x.period))
    BY DEF PaidInFull
  <2>2. x.period \in 1..LastWeek /\ x.period < week
    BY <2>1 DEF GoodCopy, IsCopy, PaidInFull
  <2>3. OrdersIn(settled', x.payee, x.period) = OrdersIn(settled, x.payee, x.period)
    BY <1>4, <2>2, OrdersStay
  <2> QED BY <1>1, <2>1, <2>2, <2>3 DEF PaidInFull
<1> QED BY <1>2, <1>3, <1>4 DEF GoodCopy

\* So is a good page.
LEMMA PageStays ==
  ASSUME IInv, Frame, NEW pg, GoodPage(pg)
  PROVE  GoodPage(pg)'
<1>1. (pg.week \in 0..week)'
  BY BoundsAssumption DEF GoodPage, IInv, Frame
<1>2. ASSUME resets' = 0, NEW o \in Orders, pg.settled[o] # settled'[o]
      PROVE  pg.settled[o] = 0 /\ settled'[o] >= pg.week
  <2>1. resets = 0 /\ (settled'[o] # settled[o] => settled[o] = 0 /\ settled'[o] = week)
    BY <1>2 DEF Frame
  <2>2. /\ pg.settled[o] # settled[o] => pg.settled[o] = 0 /\ settled[o] >= pg.week
        /\ pg.week \in 0..week /\ settled[o] \in 0..week /\ week \in Nat
    BY <2>1 DEF GoodPage, IInv
  <2> QED BY <1>2, <2>1, <2>2
<1> QED BY <1>1, <1>2 DEF GoodPage

\* A step that leaves the pages alone and brings good copies only.
LEMMA WriteKeeps ==
  ASSUME IInv, Frame, NEW new, GoodCopy(new)', UNCHANGED page,
         mem' \in [Windows -> {mem'[w] : w \in Windows}],
         disk' \in {disk, new},
         \A w \in Windows : mem'[w] \in {disk, mem[w], new}
  PROVE  IInv'
<1>1. ASSUME NEW c \in Copies' PROVE GoodCopy(c)'
  <2>1. c \in Copies \/ c = new
    BY DEF Copies
  <2> QED BY <2>1, CopyStays DEF IInv
<1>2. ASSUME NEW pg \in Pages' PROVE GoodPage(pg)'
  BY PageStays DEF IInv, Pages
<1>3. (page \in [Windows -> Pages])'
  BY DEF IInv, Pages
<1> QED BY <1>1, <1>2, <1>3 DEF IInv, Frame

\* The frame holds of a step of the desk.
LEMMA DeskFrame ==
  ASSUME IInv, Dated, UNCHANGED <<settled, week, resets>>
  PROVE  Frame
BY BoundsAssumption DEF IInv, Frame, Dated

\* What a page offers to pay is what the week comes to.
LEMMA PayableIsFinal ==
  ASSUME IInv, resets = 0, NEW w \in Windows, NEW p, NEW k \in 1..LastWeek,
         <<p, k>> \in Rows(page[w], Payees), IsPayable(page[w], p, k)
  PROVE  /\ k < week
         /\ OrdersIn(page[w].settled, p, k) = OrdersIn(settled, p, k)
<1> PICK pg \in Pages : pg = page[w] BY DEF Pages
<1>1. GoodPage(pg) /\ week \in Nat BY DEF IInv
<1>2. k # pg.week BY DEF IsPayable, Status
<1>3. PICK o \in Orders : pg.settled[o] = k BY DEF Rows, OrdersIn
<1>4. k < pg.week /\ pg.week \in 0..week BY <1>1, <1>2, <1>3 DEF GoodPage
<1>5. ASSUME NEW q \in Orders PROVE pg.settled[q] = k <=> settled[q] = k
  BY <1>1, <1>4 DEF GoodPage
<1> QED BY <1>1, <1>4, <1>5 DEF OrdersIn

\* Transfers of payable rows make a good copy of a good copy.
LEMMA TransfersAreGood ==
  ASSUME IInv, Dated, UNCHANGED <<settled, week, resets>>, NEW w \in Windows, NEW rows,
         \A r \in rows : /\ r = <<r[1], r[2]>> /\ r \in Rows(page[w], Payees)
                         /\ MayPay(w, r[1], r[2]),
         NEW c, c = [mem[w] EXCEPT !.payouts =
                       @ \union {Payout(page[w], r[1], r[2]) : r \in rows}]
  PROVE  GoodCopy(c)'
<1> PICK m \in Copies : m = mem[w] BY DEF Copies
<1> DEFINE New == {Payout(page[w], r[1], r[2]) : r \in rows}
<1>1. GoodCopy(m) /\ Frame
  BY DeskFrame DEF IInv
<1>2. GoodCopy(m)'
  BY <1>1, CopyStays
<1>3. clock \in 1..MaxWrites /\ clock' = clock + 1 /\ MaxWrites \in Nat
  BY BoundsAssumption DEF Dated
<1>4. ASSUME NEW x \in New
      PROVE  \E r \in rows :
               /\ x = Payout(page[w], r[1], r[2])
               /\ x.payee = r[1] /\ x.period = r[2] /\ x.at = clock
               /\ x.amount = NetPayable(page[w], r[1], r[2])
               /\ r[1] \in Payees /\ r[2] \in 1..LastWeek
               /\ <<r[1], r[2]>> \in Rows(page[w], Payees)
               /\ MayPay(w, r[1], r[2])
  <2>1. PICK r \in rows : x = Payout(page[w], r[1], r[2])
    BY <1>4
  <2>2. r = <<r[1], r[2]>> /\ r \in Rows(page[w], Payees) /\ MayPay(w, r[1], r[2])
    BY <2>1
  <2>3. r[1] \in Payees /\ r[2] \in 1..LastWeek
    BY <2>2 DEF Rows
  <2>4. /\ x.payee = r[1] /\ x.period = r[2] /\ x.at = clock
        /\ x.amount = NetPayable(page[w], r[1], r[2])
    BY <2>1 DEF Payout
  <2> QED BY <2>1, <2>2, <2>3, <2>4
<1>5. /\ c.payouts = m.payouts \union New /\ c.adjustments = m.adjustments
      /\ DOMAIN c = {"payouts", "adjustments"}
  BY <1>1 DEF GoodCopy, IsCopy
<1>6. IsCopy(c)'
  <2>1. ASSUME NEW x \in c.payouts
        PROVE  x.payee \in Payees /\ x.period \in 1..LastWeek /\ x.amount > 0
               /\ x.at \in 1..(clock' - 1)
    <3>1. CASE x \in m.payouts BY <1>2, <3>1 DEF GoodCopy, IsCopy
    <3>2. CASE x \in New
      <4>1. x.payee \in Payees /\ x.period \in 1..LastWeek /\ x.at = clock /\ x.amount > 0
        BY <1>4, <3>2 DEF MayPay, IsPayable
      <4> QED BY <1>3, <4>1
    <3> QED BY <1>5, <2>1, <3>1, <3>2
  <2> QED BY <1>2, <1>5, <2>1 DEF GoodCopy, IsCopy
<1>7. PaidOnce(c)'
  <2> SUFFICES ASSUME NEW x \in c.payouts, NEW y \in c.payouts,
                      x.payee = y.payee, x.period = y.period
               PROVE  x = y
    BY DEF PaidOnce
  <2>1. CASE x \in m.payouts /\ y \in m.payouts BY <1>1, <2>1 DEF GoodCopy, PaidOnce
  <2>2. CASE x \in New /\ y \in New BY <1>4, <2>2 DEF Payout
  <2>3. CASE x \in m.payouts /\ y \in New BY <1>4, <2>3 DEF MayPay, Paid
  <2>4. CASE x \in New /\ y \in m.payouts BY <1>4, <2>4 DEF MayPay, Paid
  <2> QED BY <1>5, <2>1, <2>2, <2>3, <2>4
<1>8. CorrectedBefore(c)'
  <2> SUFFICES ASSUME NEW x \in c.payouts, NEW a \in c.adjustments,
                      a.vendor = x.payee, a.period = x.period
               PROVE  a.at < x.at
    BY DEF CorrectedBefore
  <2>1. CASE x \in m.payouts BY <1>1, <1>5, <2>1 DEF GoodCopy, CorrectedBefore
  <2>2. CASE x \in New
    <3>1. a.at \in 1..(clock - 1) BY <1>1, <1>5 DEF GoodCopy, IsCopy
    <3>2. x.at = clock BY <1>4, <2>2
    <3> QED BY <1>3, <3>1, <3>2
  <2> QED BY <1>5, <2>1, <2>2
<1>9. ASSUME resets' = 0 PROVE PaidInFull(c)'
  <2> SUFFICES ASSUME NEW x \in c.payouts
               PROVE  /\ x.period < week
                      /\ x.payee \in Riders =>
                           x.amount = Owed(x.payee, OrdersIn(settled, x.payee, x.period))
    BY DEF PaidInFull
  <2>1. CASE x \in m.payouts BY <1>1, <1>9, <2>1 DEF GoodCopy, PaidInFull
  <2>2. CASE x \in New
    <3> PICK r \in rows :
          /\ x.payee = r[1] /\ x.period = r[2]
          /\ x.amount = NetPayable(page[w], r[1], r[2])
          /\ r[2] \in 1..LastWeek
          /\ <<r[1], r[2]>> \in Rows(page[w], Payees)
          /\ MayPay(w, r[1], r[2])
      BY <1>4, <2>2
    <3>1. /\ r[2] < week
          /\ OrdersIn(page[w].settled, r[1], r[2]) = OrdersIn(settled, r[1], r[2])
      BY <1>9, PayableIsFinal DEF MayPay
    <3>2. r[1] \in Riders => r[1] \notin Vendors
      BY BookAssumption
    <3> QED BY <3>1, <3>2 DEF NetPayable
  <2> QED BY <1>5, <2>1, <2>2
<1> QED BY <1>6, <1>7, <1>8, <1>9 DEF GoodCopy

\* So does a correction of a week that this copy has not paid.
LEMMA CorrectionIsGood ==
  ASSUME IInv, NEW w \in Windows, NEW v \in Vendors, NEW k \in 1..LastWeek, NEW amount,
         ~Paid(mem[w], v, k), Dated, UNCHANGED <<settled, week, resets>>,
         NEW c, c = [mem[w] EXCEPT !.adjustments =
                       @ \union {[vendor |-> v, period |-> k, amount |-> amount, at |-> clock]}]
  PROVE  GoodCopy(c)'
<1> PICK m \in Copies : m = mem[w] BY DEF Copies
<1> DEFINE new == [vendor |-> v, period |-> k, amount |-> amount, at |-> clock]
<1>1. GoodCopy(m) /\ Frame
  BY DeskFrame DEF IInv
<1>2. GoodCopy(m)'
  BY <1>1, CopyStays
<1>3. clock \in 1..MaxWrites /\ clock' = clock + 1 /\ MaxWrites \in Nat
  BY BoundsAssumption DEF Dated
<1>4. /\ c.payouts = m.payouts /\ c.adjustments = m.adjustments \union {new}
      /\ DOMAIN c = {"payouts", "adjustments"}
  BY <1>1 DEF GoodCopy, IsCopy
<1>5. IsCopy(c)'
  BY <1>2, <1>3, <1>4 DEF GoodCopy, IsCopy
<1>6. CorrectedBefore(c)'
  BY <1>1, <1>4 DEF GoodCopy, CorrectedBefore, Paid
<1> QED BY <1>2, <1>4, <1>5, <1>6 DEF GoodCopy, PaidOnce, PaidInFull

\* And so does no transfer and no correction.
LEMMA EmptyIsGood == GoodCopy(Empty)
BY DEF GoodCopy, IsCopy, PaidOnce, CorrectedBefore, PaidInFull, Empty

-----------------------------------------------------------------------------

LEMMA Initially == Init => IInv
<1> SUFFICES ASSUME Init PROVE IInv
  OBVIOUS
<1>1. Copies \subseteq {Empty}
  BY DEF Init, Sync!SyncInit, Copies, Blank, Empty
<1>2. \A pg \in Pages : GoodPage(pg)
  BY DEF Init, Pages, GoodPage, Blank, Unsettled
<1> QED
  BY <1>1, <1>2, EmptyIsGood, BoundsAssumption
  DEF Init, Sync!SyncInit, IInv, Pages, Unsettled

\* A write of one window, if what it writes is good.
LEMMA StoreKeeps ==
  ASSUME IInv, Frame, NEW w \in Windows, NEW c, GoodCopy(c)', Sync!Store(w, c), UNCHANGED page
  PROVE  IInv'
<1>1. disk' = c /\ \A u \in Windows : mem'[u] \in {mem[u], c}
  BY DEF Sync!Store, IInv
<1>2. mem' \in [Windows -> {mem'[u] : u \in Windows}]
  BY DEF Sync!Store, IInv
<1> QED BY <1>1, <1>2, WriteKeeps

LEMMA Stepwise == IInv /\ [Next]_vars => IInv'
<1> SUFFICES ASSUME IInv, [Next]_vars PROVE IInv'
  OBVIOUS
<1>1. ASSUME NEW w \in Windows, NEW p \in Payees, NEW k \in 1..LastWeek, Pay(w, p, k)
      PROVE  IInv'
  <2>1. PICK c : c = [mem[w] EXCEPT !.payouts = @ \union {Payout(page[w], p, k)}]
    OBVIOUS
  <2>2. PICK rows : rows = {<<p, k>>}
    OBVIOUS
  <2>3. GoodCopy(c)'
    <3>1. Dated /\ UNCHANGED <<settled, week, resets>>
          /\ <<p, k>> \in Rows(page[w], Payees) /\ MayPay(w, p, k)
      BY <1>1, WriteIsDated DEF Pay
    <3>2. {Payout(page[w], r[1], r[2]) : r \in rows} = {Payout(page[w], p, k)}
      BY <2>2
    <3>3. \A r \in rows : /\ r = <<r[1], r[2]>> /\ r \in Rows(page[w], Payees)
                         /\ MayPay(w, r[1], r[2])
      BY <2>2, <3>1
    <3> QED BY <2>1, <3>1, <3>2, <3>3, TransfersAreGood
  <2> QED BY <1>1, <2>1, <2>3, WriteIsDated, StoreKeeps, DeskFrame DEF Pay
<1>2. ASSUME NEW w \in Windows, NEW ledger \in {Vendors, Riders},
             NEW rows \in SUBSET Rows(page[w], ledger), PayRun(w, rows)
      PROVE  IInv'
  <2> DEFINE payable == {r \in rows : MayPay(w, r[1], r[2])}
  <2>1. PICK c : c = [mem[w] EXCEPT !.payouts =
                        @ \union {Payout(page[w], r[1], r[2]) : r \in payable}]
    OBVIOUS
  <2>2. \A r \in payable : /\ r = <<r[1], r[2]>> /\ r \in Rows(page[w], Payees)
                          /\ MayPay(w, r[1], r[2])
    BY DEF Rows, Payees
  <2>3. GoodCopy(c)'
    <3>1. Dated /\ UNCHANGED <<settled, week, resets>>
      BY <1>2, WriteIsDated DEF PayRun
    <3> HIDE DEF payable
    <3> QED BY <2>1, <2>2, <3>1, TransfersAreGood
  <2> QED BY <1>2, <2>1, <2>3, WriteIsDated, StoreKeeps, DeskFrame DEF PayRun
<1>3. ASSUME NEW w \in Windows, NEW v \in Vendors, NEW k \in 1..LastWeek,
             NEW amount \in Amounts, Adjust(w, v, k, amount)
      PROVE  IInv'
  <2>1. PICK c : c = [mem[w] EXCEPT !.adjustments =
                        @ \union {[vendor |-> v, period |-> k, amount |-> amount, at |-> clock]}]
    OBVIOUS
  <2>2. GoodCopy(c)'
    BY <1>3, <2>1, WriteIsDated, CorrectionIsGood DEF Adjust
  <2> QED BY <1>3, <2>1, <2>2, WriteIsDated, StoreKeeps, DeskFrame DEF Adjust
<1>4. ASSUME NEW w \in Windows, ResetDemo(w) PROVE IInv'
  <2>1. Frame
    BY <1>4, BoundsAssumption DEF ResetDemo, Frame, IInv, Unsettled
  <2>2. GoodCopy(Empty)'
    BY DEF GoodCopy, IsCopy, PaidOnce, CorrectedBefore, PaidInFull, Empty
  <2> QED BY <1>4, <2>1, <2>2, StoreKeeps DEF ResetDemo
<1>5. ASSUME NEW w \in Windows, Load(w) PROVE IInv'
  <2>1. Frame
    BY <1>5, BoundsAssumption DEF Load, Frame, IInv, bookVars
  <2>2. PICK pg : pg = [copy |-> mem[w], settled |-> settled, week |-> week]
    OBVIOUS
  <2>3. page' = [page EXCEPT ![w] = pg] /\ mem' = mem /\ disk' = disk
    BY <1>5, <2>2 DEF Load
  <2>4. pg.copy \in Copies
    BY <2>2 DEF Copies
  <2>5. (\A c \in Copies : GoodCopy(c))'
    <3> SUFFICES ASSUME NEW c \in Copies' PROVE GoodCopy(c)'
      OBVIOUS
    <3>1. c \in Copies
      BY <2>3, <2>4 DEF Copies, IInv
    <3> QED BY <2>1, <3>1, CopyStays DEF IInv
  <2>6. (\A q \in Pages : GoodPage(q))'
    <3> SUFFICES ASSUME NEW q \in Pages' PROVE GoodPage(q)'
      OBVIOUS
    <3>1. q \in Pages \/ q = pg
      BY <2>3 DEF Pages, IInv
    <3>2. GoodPage(pg)
      BY <2>2, BoundsAssumption DEF GoodPage, IInv
    <3> QED BY <2>1, <3>1, <3>2, PageStays DEF IInv
  <2>7. (page \in [Windows -> Pages])' /\ (mem \in [Windows -> {mem[u] : u \in Windows}])'
    BY <2>3 DEF IInv, Pages
  <2> QED BY <2>1, <2>5, <2>6, <2>7 DEF IInv, Frame
<1>6. ASSUME NEW w \in Windows, Hear(w) PROVE IInv'
  <2>1. Frame
    BY <1>6, BoundsAssumption DEF Hear, Frame, IInv, bookVars
  <2>2. /\ disk' = disk /\ \A u \in Windows : mem'[u] \in {disk, mem[u]}
        /\ mem' \in [Windows -> {mem'[u] : u \in Windows}]
    BY <1>6 DEF Hear, Sync!Hear, IInv
  <2>3. PICK c \in Copies : c = disk
    BY DEF Copies
  <2>4. GoodCopy(c)'
    BY <2>1, CopyStays DEF IInv
  <2> QED BY <1>6, <2>1, <2>2, <2>3, <2>4, WriteKeeps DEF Hear
<1>7. ASSUME NEW w \in Windows, Reload(w) PROVE IInv'
  <2>1. Frame
    BY <1>7, BoundsAssumption DEF Reload, Frame, IInv, bookVars
  <2>2. /\ page' = [page EXCEPT ![w] = Blank] /\ disk' = disk
        /\ mem' = [mem EXCEPT ![w] = disk]
    BY <1>7 DEF Reload, Sync!Reload
  <2>3. ASSUME NEW c \in Copies' PROVE GoodCopy(c)'
    <3>1. c \in Copies \/ c = Empty
      BY <2>2 DEF Copies, IInv, Blank
    <3> QED BY <2>1, <3>1, EmptyIsGood, CopyStays DEF IInv
  <2>4. ASSUME NEW q \in Pages' PROVE GoodPage(q)'
    <3>1. q \in Pages \/ q = Blank
      BY <2>2 DEF Pages, IInv
    <3>2. GoodPage(Blank)
      BY BoundsAssumption DEF GoodPage, Blank, Unsettled, IInv
    <3> QED BY <2>1, <3>1, <3>2, PageStays DEF IInv
  <2>5. (page \in [Windows -> Pages])' /\ (mem \in [Windows -> {mem[u] : u \in Windows}])'
    BY <2>2 DEF IInv, Pages
  <2> QED BY <2>1, <2>3, <2>4, <2>5 DEF IInv, Frame
<1>8. ASSUME Frame, UNCHANGED <<disk, mem, page>> PROVE IInv'
  <2>1. PICK c \in Copies : c = disk
    BY DEF Copies
  <2>2. GoodCopy(c)'
    BY <1>8, CopyStays DEF IInv
  <2> QED BY <1>8, <2>1, <2>2, WriteKeeps DEF IInv
<1>9. ASSUME NEW o \in Orders, Complete(o) PROVE IInv'
  BY <1>8, <1>9, BoundsAssumption DEF Complete, Frame, IInv
<1>10. ASSUME NextWeek PROVE IInv'
  BY <1>8, <1>10, BoundsAssumption DEF NextWeek, Frame, IInv
<1>11. ASSUME UNCHANGED vars PROVE IInv'
  BY <1>8, <1>11, BoundsAssumption DEF vars, Frame, IInv
<1> QED
  BY <1>1, <1>2, <1>3, <1>4, <1>5, <1>6, <1>7, <1>9, <1>10, <1>11 DEF Next

\* Every reachable state satisfies the inductive invariant.
THEOREM Invariance == Spec => []IInv
BY Initially, Stepwise, PTL DEF Spec

\* Every copy of the store is of its kind, and no order and no page is ahead of
\* the calendar (stores/payouts.ts).
THEOREM TypeCorrect == Spec => []TypeOK
<1>1. IInv => TypeOK
  BY DEF IInv, TypeOK, GoodCopy, GoodPage, Pages
<1> QED BY <1>1, Invariance, PTL

\* No correction of a paid week is younger than its transfer (adjust()).
THEOREM NoCorrectionHolds == Spec => []NoCorrectionAfterThePayout
<1>1. IInv => NoCorrectionAfterThePayout
  BY DEF IInv, NoCorrectionAfterThePayout, GoodCopy
<1> QED BY <1>1, Invariance, PTL

\* A paid week is over, and a rider's transfer is what its orders come to
\* (isPayable(), buildRiderSettlements()).
THEOREM PaidWeeksHold == Spec => []PaidWeeksAreFinal
<1>1. IInv => PaidWeeksAreFinal
  BY DEF IInv, PaidWeeksAreFinal, GoodCopy
<1> QED BY <1>1, Invariance, PTL

-----------------------------------------------------------------------------
(* The windows agree.                                                      *)

\* All that a text holds is older than the clock.
Written(c) == \A x \in c.payouts \union c.adjustments : x.at \in 1..(clock - 1)

\* What a window was told before the i-th event on its way.
Before(w, i) == IF i = 1 THEN lastSeen[w] ELSE {inbox[w][i - 1]}

\* A window will take the disk up again: an event on its way repeats nothing.
WillReload(w) == \E i \in DOMAIN inbox[w] : inbox[w][i] \notin Before(w, i)

Texts(w) == {inbox[w][i] : i \in DOMAIN inbox[w]}

\* What window w has been told of and is about to be told of.
Told(w) ==
  /\ inbox[w] \in Seq(Texts(w))
  /\ \A x, y \in lastSeen[w] : x = y
  /\ \A x \in lastSeen[w] \union Texts(w) : Written(x) /\ (resets = 0 => x # Empty)

SyncInv ==
  /\ inbox = [w \in Windows |-> inbox[w]]
  /\ lastSeen = [w \in Windows |-> lastSeen[w]]
  /\ \A w \in Windows : Told(w)
  /\ resets <= 1 => \A w \in Windows : mem[w] = disk \/ WillReload(w)

\* A sequence is one of whatever holds its elements.
LEMMA OwnElements ==
  ASSUME NEW S, NEW s \in Seq(S), NEW T, \A i \in DOMAIN s : s[i] \in T
  PROVE  s \in Seq(T)
OBVIOUS

\* What the tail of a sequence holds.
LEMMA TailElements ==
  ASSUME NEW S, NEW s \in Seq(S), s # <<>>
  PROVE  /\ Tail(s) \in Seq(S) /\ Len(s) \in Nat \ {0}
         /\ Head(s) = s[1] /\ 1 \in DOMAIN s
         /\ DOMAIN s = 1..Len(s) /\ DOMAIN Tail(s) = 1..(Len(s) - 1)
         /\ \A i \in DOMAIN Tail(s) : Tail(s)[i] = s[i + 1]
OBVIOUS

\* What a sequence holds to which a text is added.
LEMMA AppendElements ==
  ASSUME NEW S, NEW s \in Seq(S), NEW x
  PROVE  /\ Append(s, x) \in Seq(S \union {x}) /\ Len(s) \in Nat
         /\ DOMAIN s = 1..Len(s) /\ DOMAIN Append(s, x) = 1..(Len(s) + 1)
         /\ Append(s, x)[Len(s) + 1] = x
         /\ \A i \in DOMAIN s : Append(s, x)[i] = s[i]
<1>1. s \in Seq(S \union {x}) /\ x \in S \union {x}
  OBVIOUS
<1> QED BY <1>1

\* What has been written stays so.
LEMMA WrittenStays ==
  ASSUME IInv, Frame, NEW c, Written(c)
  PROVE  Written(c)'
BY DEF Written, IInv, Frame

LEMMA CopiesAreWritten ==
  ASSUME NEW c, GoodCopy(c)
  PROVE  Written(c)
BY DEF Written, GoodCopy, IsCopy

\* A window that hears nothing is told what it was told.
LEMMA ToldStays ==
  ASSUME IInv, Frame, NEW w \in Windows, Told(w),
         inbox'[w] = inbox[w], lastSeen'[w] = lastSeen[w]
  PROVE  Told(w)'
<1>1. Texts(w)' = Texts(w)
  BY DEF Texts
<1>2. ASSUME NEW x \in lastSeen[w] \union Texts(w)
      PROVE  Written(x)' /\ (resets' = 0 => x # Empty)
  BY <1>2, WrittenStays DEF Told, Frame
<1> QED BY <1>1, <1>2 DEF Told

\* A write announces a text that no window was ever told of: it holds what has
\* just been made, or it is the first reset.
LEMMA StoreAgrees ==
  ASSUME IInv, SyncInv, Frame, NEW w \in Windows, NEW c, Sync!Store(w, c), Written(c)',
         (~Written(c) /\ resets' = resets) \/ (c = Empty /\ resets' = resets + 1)
  PROVE  SyncInv'
<1>1. /\ inbox' = [u \in Windows |->
           IF u = w \/ c = disk THEN inbox[u] ELSE Append(inbox[u], c)]
      /\ lastSeen' = lastSeen /\ disk' = c /\ mem' = [mem EXCEPT ![w] = c]
  BY DEF Sync!Store, Sync!Announced
<1>2. resets \in Nat /\ resets' \in Nat
  BY BoundsAssumption DEF IInv, Frame
<1>3. Written(Empty) /\ (resets' = 0 => c # Empty)
  BY <1>2 DEF Written, Empty
<1>4. ASSUME NEW u \in Windows, inbox'[u] = Append(inbox[u], c)
      PROVE  Told(u)' /\ (resets' <= 1 => WillReload(u)')
  <2> DEFINE s == inbox[u]
  <2> PICK n : n = Len(s) + 1
    OBVIOUS
  <2>1. Told(u) /\ s \in Seq(Texts(u))
    BY DEF SyncInv, Told
  <2>2. /\ Append(s, c) \in Seq(Texts(u) \union {c}) /\ Len(s) \in Nat
        /\ DOMAIN s = 1..Len(s) /\ DOMAIN Append(s, c) = 1..n
        /\ n = Len(s) + 1
        /\ Append(s, c)[n] = c
        /\ \A i \in DOMAIN s : Append(s, c)[i] = s[i]
    BY <2>1, AppendElements
  <2> HIDE DEF s
  <2>3. Texts(u)' = Texts(u) \union {c}
    <3>1. Texts(u)' = {Append(s, c)[i] : i \in 1..n}
      BY <1>4, <2>2 DEF Texts, s
    <3>2. Texts(u) = {s[i] : i \in 1..Len(s)}
      BY <2>2 DEF Texts, s
    <3> QED BY <2>2, <3>1, <3>2
  <2>4. Told(u)'
    <3>1. \A x \in lastSeen[u] \union Texts(u) : Written(x)' /\ (resets' = 0 => x # Empty)
      BY <2>1, WrittenStays DEF Told, Frame
    <3> QED BY <1>1, <1>3, <1>4, <2>1, <2>2, <2>3, <3>1 DEF Told, s
  <2>5. ASSUME resets' <= 1 PROVE WillReload(u)'
    <3>1. ASSUME NEW x \in lastSeen[u] \union Texts(u) PROVE x # c
      BY <1>2, <2>1, <2>5 DEF Told
    <3>2. inbox'[u] = Append(s, c) /\ n \in DOMAIN inbox'[u] /\ inbox'[u][n] = c
      BY <1>4, <2>2 DEF s
    <3>3. c \notin Before(u, n)'
      <4>1. CASE n = 1
        BY <1>1, <3>1, <4>1 DEF Before
      <4>2. CASE n # 1
        <5>1. n - 1 \in 1..Len(s)
          BY <2>2, <4>2
        <5>2. n - 1 \in DOMAIN s /\ Append(s, c)[n - 1] = s[n - 1]
          BY <2>2, <5>1
        <5>3. s[n - 1] \in Texts(u)
          BY <5>2 DEF Texts, s
        <5> QED BY <3>1, <3>2, <4>2, <5>2, <5>3 DEF Before
      <4> QED BY <4>1, <4>2
    <3> QED BY <3>2, <3>3 DEF WillReload
  <2> QED BY <2>4, <2>5
<1>5. ASSUME NEW u \in Windows
      PROVE  Told(u)' /\ (resets' <= 1 => mem'[u] = disk' \/ WillReload(u)')
  <2>1. CASE u = w \/ c = disk
    <3>1. inbox'[u] = inbox[u] /\ lastSeen'[u] = lastSeen[u]
      BY <1>1, <2>1
    <3>2. Told(u)'
      BY <3>1, ToldStays DEF SyncInv
    <3>3. CASE u = w
      BY <1>1, <3>2, <3>3 DEF IInv
    <3>4. CASE u # w
      <4>1. mem'[u] = mem[u] /\ disk' = disk
        BY <1>1, <2>1, <3>4 DEF IInv
      <4>2. resets' <= 1 => resets <= 1
        BY <1>2
      <4>3. WillReload(u)' <=> WillReload(u)
        BY <3>1 DEF WillReload, Before
      <4> QED BY <3>2, <4>1, <4>2, <4>3 DEF SyncInv
    <3> QED BY <3>3, <3>4
  <2>2. CASE ~(u = w \/ c = disk)
    BY <1>1, <1>4, <2>2
  <2> QED BY <2>1, <2>2
<1> QED BY <1>1, <1>5 DEF SyncInv

\* A window that hears takes the disk up, or goes on waiting for an event that
\* repeats nothing.
LEMMA HearAgrees ==
  ASSUME IInv, SyncInv, Frame, resets' = resets, NEW w \in Windows, Sync!Hear(w)
  PROVE  SyncInv'
<1> DEFINE s == inbox[w]
<1>1. /\ s # <<>> /\ inbox' = [inbox EXCEPT ![w] = Tail(s)] /\ disk' = disk
      /\ \/ Head(s) \in lastSeen[w] /\ UNCHANGED <<mem, lastSeen>>
         \/ /\ lastSeen' = [lastSeen EXCEPT ![w] = {Head(s)}]
            /\ mem' = [mem EXCEPT ![w] = disk]
  BY DEF Sync!Hear
<1>2. Told(w) /\ s \in Seq(Texts(w))
  BY DEF SyncInv, Told
<1>3. /\ inbox'[w] = Tail(s) /\ \A u \in Windows \ {w} : inbox'[u] = inbox[u]
      /\ \A u \in Windows \ {w} : lastSeen'[u] = lastSeen[u] /\ mem'[u] = mem[u]
  BY <1>1 DEF SyncInv, IInv
<1>4. /\ Tail(s) \in Seq(Texts(w)) /\ Len(s) \in Nat \ {0}
      /\ Head(s) = s[1] /\ 1 \in DOMAIN s
      /\ DOMAIN s = 1..Len(s) /\ DOMAIN Tail(s) = 1..(Len(s) - 1)
      /\ \A i \in DOMAIN Tail(s) : Tail(s)[i] = s[i + 1]
  BY <1>1, <1>2, TailElements
<1>5. \/ lastSeen'[w] = lastSeen[w] /\ mem'[w] = mem[w] /\ s[1] \in lastSeen[w]
      \/ lastSeen'[w] = {s[1]} /\ mem'[w] = disk
  BY <1>1, <1>4 DEF SyncInv, IInv
<1> HIDE DEF s
<1>6. Told(w)'
  <2>1. inbox'[w] \in Seq(Texts(w)')
    <3>1. \A i \in DOMAIN Tail(s) : Tail(s)[i] \in Texts(w)'
      BY <1>3 DEF Texts
    <3>2. PICK t, T, S : t = Tail(s) /\ T = Texts(w)' /\ S = Texts(w)
      OBVIOUS
    <3>3. t \in Seq(T)
      BY <1>4, <3>1, <3>2, OwnElements
    <3> QED BY <1>3, <3>2, <3>3
  <2>2. ASSUME NEW x \in Texts(w)' PROVE x \in Texts(w)
    <3>1. PICK i \in DOMAIN Tail(s) : x = Tail(s)[i]
      BY <1>3, <2>2 DEF Texts
    <3>2. i + 1 \in DOMAIN s /\ x = s[i + 1]
      BY <1>4, <3>1
    <3> QED BY <3>2 DEF Texts, s
  <2>3. s[1] \in Texts(w)
    BY <1>4 DEF Texts, s
  <2>4. \A x \in lastSeen[w] \union Texts(w) : Written(x)' /\ (resets' = 0 => x # Empty)
    BY <1>2, WrittenStays DEF Told
  <2> QED BY <1>2, <1>5, <2>1, <2>2, <2>3, <2>4 DEF Told
<1>7. ASSUME WillReload(w), s[1] \in lastSeen[w], lastSeen'[w] = lastSeen[w]
      PROVE  WillReload(w)'
  <2>1. PICK i \in DOMAIN s : s[i] \notin Before(w, i)
    BY <1>7 DEF WillReload, s
  <2>2. i # 1
    BY <1>7, <2>1 DEF Before
  <2>3. PICK j : j = i - 1
    OBVIOUS
  <2>4. j \in DOMAIN Tail(s) /\ Tail(s)[j] = s[i] /\ j \in DOMAIN s
    BY <1>4, <2>1, <2>2, <2>3
  <2>5. s[i] # s[j]
    BY <2>1, <2>2, <2>3 DEF Before, s
  <2>6. Tail(s)[j] \notin Before(w, j)'
    <3>1. CASE j = 1
      <4>1. lastSeen'[w] = {s[1]}
        BY <1>2, <1>7 DEF Told
      <4> QED BY <2>4, <2>5, <3>1, <4>1 DEF Before
    <3>2. CASE j # 1
      <4>1. j - 1 \in DOMAIN Tail(s) /\ Tail(s)[j - 1] = s[j]
        BY <1>4, <2>4, <3>2
      <4> QED BY <1>3, <2>4, <2>5, <3>2, <4>1 DEF Before
    <3> QED BY <3>1, <3>2
  <2> QED BY <1>3, <2>4, <2>6 DEF WillReload
<1>8. ASSUME NEW u \in Windows \ {w}
      PROVE  Told(u)' /\ (WillReload(u)' <=> WillReload(u))
  <2>1. Told(u)'
    BY <1>3, ToldStays DEF SyncInv
  <2>2. WillReload(u)' <=> WillReload(u)
    BY <1>3 DEF WillReload, Before
  <2> QED BY <2>1, <2>2
<1>9. resets' <= 1 => \A u \in Windows : mem'[u] = disk' \/ WillReload(u)'
  <2> SUFFICES ASSUME resets <= 1, NEW u \in Windows
               PROVE  mem'[u] = disk' \/ WillReload(u)'
    OBVIOUS
  <2>1. mem[u] = disk \/ WillReload(u)
    BY DEF SyncInv
  <2>2. CASE u = w
    BY <1>1, <1>5, <1>7, <2>1, <2>2
  <2>3. CASE u # w
    BY <1>1, <1>3, <1>8, <2>1, <2>3
  <2> QED BY <2>2, <2>3
<1>10. inbox' = [u \in Windows |-> inbox'[u]] /\ lastSeen' = [u \in Windows |-> lastSeen'[u]]
  BY <1>1 DEF SyncInv
<1> QED BY <1>6, <1>8, <1>9, <1>10 DEF SyncInv

\* A window that is loaded again waits for nothing.
LEMMA ReloadAgrees ==
  ASSUME IInv, SyncInv, Frame, resets' = resets, NEW w \in Windows, Sync!Reload(w)
  PROVE  SyncInv'
<1>1. /\ mem' = [mem EXCEPT ![w] = disk] /\ inbox' = [inbox EXCEPT ![w] = <<>>]
      /\ lastSeen' = [lastSeen EXCEPT ![w] = {}] /\ disk' = disk
  BY DEF Sync!Reload
<1>2. mem'[w] = disk /\ inbox'[w] = <<>> /\ lastSeen'[w] = {}
  BY <1>1 DEF SyncInv, IInv
<1>3. Told(w)'
  <2>1. Texts(w)' = {}
    BY <1>2 DEF Texts
  <2> QED BY <1>2, <2>1 DEF Told
<1>4. ASSUME NEW u \in Windows \ {w}
      PROVE  Told(u)' /\ (WillReload(u)' <=> WillReload(u)) /\ mem'[u] = mem[u]
  <2>1. inbox'[u] = inbox[u] /\ lastSeen'[u] = lastSeen[u] /\ mem'[u] = mem[u]
    BY <1>1 DEF SyncInv, IInv
  <2>2. Told(u)'
    BY <2>1, ToldStays DEF SyncInv
  <2>3. WillReload(u)' <=> WillReload(u)
    BY <2>1 DEF WillReload, Before
  <2> QED BY <2>1, <2>2, <2>3
<1> QED BY <1>1, <1>2, <1>3, <1>4 DEF SyncInv

\* What leaves the store alone leaves it told.
LEMMA OthersAgree ==
  ASSUME IInv, SyncInv, Frame, resets' = resets, UNCHANGED <<disk, mem, inbox, lastSeen>>
  PROVE  SyncInv'
<1>1. \A w \in Windows : Told(w)'
  BY ToldStays DEF SyncInv
<1>2. \A w \in Windows : WillReload(w)' <=> WillReload(w)
  BY DEF WillReload, Before
<1> QED BY <1>1, <1>2 DEF SyncInv

\* A write of the desk brings something that has just been made.
LEMMA DeskAgrees ==
  ASSUME IInv, IInv', SyncInv, NEW w \in Windows, NEW c, Write(w, c),
         UNCHANGED <<settled, week, resets>>,
         \E x \in c.payouts \union c.adjustments : x.at = clock
  PROVE  SyncInv'
<1>1. Frame /\ Sync!Store(w, c)
  BY WriteIsDated, DeskFrame
<1>2. Written(c)'
  <2>1. GoodCopy(disk)' /\ disk' = c
    BY <1>1 DEF IInv, Copies, Sync!Store
  <2> QED BY <2>1 DEF Written, GoodCopy, IsCopy
<1>3. ~Written(c)
  BY BoundsAssumption DEF Written, IInv
<1> QED BY <1>1, <1>2, <1>3, StoreAgrees

LEMMA SyncInitially == Init => SyncInv
<1> SUFFICES ASSUME Init PROVE SyncInv
  OBVIOUS
<1>1. /\ inbox = [w \in Windows |-> <<>>] /\ lastSeen = [w \in Windows |-> {}]
      /\ mem = [w \in Windows |-> disk]
  BY DEF Init, Sync!SyncInit
<1>2. ASSUME NEW w \in Windows PROVE Told(w)
  <2>1. inbox[w] = <<>> /\ lastSeen[w] = {}
    BY <1>1
  <2>2. Texts(w) = {}
    BY <2>1 DEF Texts
  <2> QED BY <2>1, <2>2 DEF Told
<1> QED BY <1>1, <1>2 DEF SyncInv

LEMMA SyncStepwise == IInv /\ IInv' /\ SyncInv /\ [Next]_vars => SyncInv'
<1> SUFFICES ASSUME IInv, IInv', SyncInv, [Next]_vars PROVE SyncInv'
  OBVIOUS
<1>1. ASSUME NEW w \in Windows, NEW p \in Payees, NEW k \in 1..LastWeek, Pay(w, p, k)
      PROVE  SyncInv'
  <2>1. PICK c : c = [mem[w] EXCEPT !.payouts = @ \union {Payout(page[w], p, k)}]
    OBVIOUS
  <2>2. DOMAIN mem[w] = {"payouts", "adjustments"}
    BY DEF IInv, Copies, GoodCopy, IsCopy
  <2>3. Payout(page[w], p, k) \in c.payouts /\ Payout(page[w], p, k).at = clock
    BY <2>1, <2>2 DEF Payout
  <2> QED BY <1>1, <2>1, <2>3, DeskAgrees DEF Pay
<1>2. ASSUME NEW w \in Windows, NEW ledger \in {Vendors, Riders},
             NEW rows \in SUBSET Rows(page[w], ledger), PayRun(w, rows)
      PROVE  SyncInv'
  <2> DEFINE payable == {r \in rows : MayPay(w, r[1], r[2])}
  <2>1. PICK c : c = [mem[w] EXCEPT !.payouts =
                        @ \union {Payout(page[w], r[1], r[2]) : r \in payable}]
    OBVIOUS
  <2>2. DOMAIN mem[w] = {"payouts", "adjustments"}
    BY DEF IInv, Copies, GoodCopy, IsCopy
  <2>3. PICK r \in payable : TRUE
    BY <1>2 DEF PayRun
  <2>4. Payout(page[w], r[1], r[2]) \in c.payouts /\ Payout(page[w], r[1], r[2]).at = clock
    BY <2>1, <2>2, <2>3 DEF Payout
  <2> QED BY <1>2, <2>1, <2>4, DeskAgrees DEF PayRun
<1>3. ASSUME NEW w \in Windows, NEW v \in Vendors, NEW k \in 1..LastWeek,
             NEW amount \in Amounts, Adjust(w, v, k, amount)
      PROVE  SyncInv'
  <2> DEFINE new == [vendor |-> v, period |-> k, amount |-> amount, at |-> clock]
  <2>1. PICK c : c = [mem[w] EXCEPT !.adjustments = @ \union {new}]
    OBVIOUS
  <2>2. DOMAIN mem[w] = {"payouts", "adjustments"}
    BY DEF IInv, Copies, GoodCopy, IsCopy
  <2>3. new \in c.adjustments /\ new.at = clock
    BY <2>1, <2>2
  <2> QED BY <1>3, <2>1, <2>3, DeskAgrees DEF Adjust
<1>4. ASSUME NEW w \in Windows, ResetDemo(w) PROVE SyncInv'
  <2>1. Frame
    BY <1>4, BoundsAssumption DEF ResetDemo, Frame, IInv, Unsettled
  <2>2. Written(Empty)'
    BY DEF Written, Empty
  <2> QED BY <1>4, <2>1, <2>2, StoreAgrees DEF ResetDemo
<1>5. ASSUME NEW w \in Windows, Load(w) PROVE SyncInv'
  <2>1. Frame
    BY <1>5, BoundsAssumption DEF Load, Frame, IInv, bookVars
  <2> QED BY <1>5, <2>1, OthersAgree DEF Load, bookVars
<1>6. ASSUME NEW w \in Windows, Hear(w) PROVE SyncInv'
  <2>1. Frame
    BY <1>6, BoundsAssumption DEF Hear, Frame, IInv, bookVars
  <2> QED BY <1>6, <2>1, HearAgrees DEF Hear, bookVars
<1>7. ASSUME NEW w \in Windows, Reload(w) PROVE SyncInv'
  <2>1. Frame
    BY <1>7, BoundsAssumption DEF Reload, Frame, IInv, bookVars
  <2> QED BY <1>7, <2>1, ReloadAgrees DEF Reload, bookVars
<1>8. ASSUME NEW o \in Orders, Complete(o) PROVE SyncInv'
  <2>1. Frame
    BY <1>8, BoundsAssumption DEF Complete, Frame, IInv
  <2> QED BY <1>8, <2>1, OthersAgree DEF Complete
<1>9. CASE NextWeek
  <2>1. Frame
    BY <1>9, BoundsAssumption DEF NextWeek, Frame, IInv
  <2> QED BY <1>9, <2>1, OthersAgree DEF NextWeek
<1>10. CASE UNCHANGED vars
  <2>1. Frame
    BY <1>10, BoundsAssumption DEF vars, Frame, IInv
  <2> QED BY <1>10, <2>1, OthersAgree DEF vars
<1> QED
  BY <1>1, <1>2, <1>3, <1>4, <1>5, <1>6, <1>7, <1>8, <1>9, <1>10 DEF Next

\* Once every window has been told of everything, all hold the same book, up to
\* and after the first reset (store-sync.ts): a text that is announced repeats
\* none that the window knows of, so the last event it hears makes it read the
\* disk.
THEOREM WindowsAgreeHolds == Spec => []WindowsAgree
<1>1. SyncInv => WindowsAgree
  BY DEF SyncInv, WindowsAgree, Sync!QuietWindowsAgree, WillReload
<1> QED BY <1>1, Invariance, SyncInitially, SyncStepwise, PTL DEF Spec

-----------------------------------------------------------------------------
(* Nothing is paid twice.                                                  *)

\* As long as every writer had been told of all the others' writes, the disk
\* holds every transfer that any copy holds.
Joined ==
  crossed = {} /\ resets = 0 => \A c \in Copies : c.payouts \subseteq disk.payouts

\* A writer that has nothing to hear adds to what is on the disk.
LEMMA WriteJoins ==
  ASSUME IInv, SyncInv, Joined, NEW w \in Windows, NEW c, Write(w, c),
         mem[w].payouts \subseteq c.payouts, UNCHANGED <<page, resets>>
  PROVE  Joined'
<1> SUFFICES ASSUME crossed' = {}, resets' = 0, NEW d \in Copies'
             PROVE  d.payouts \subseteq disk'.payouts
  BY DEF Joined
<1>1. inbox[w] = <<>> /\ crossed = {} /\ resets = 0
  BY DEF Write
<1>2. mem[w] = disk
  <2>1. ~WillReload(w)
    BY <1>1 DEF WillReload
  <2> QED BY <1>1, <2>1 DEF SyncInv
<1>3. disk' = c /\ mem' = [mem EXCEPT ![w] = c]
  BY DEF Write, Sync!Store
<1>4. d \in Copies \/ d = c
  BY <1>3 DEF Copies, IInv
<1> QED BY <1>1, <1>2, <1>3, <1>4 DEF Joined

\* What writes nothing brings no transfer.
LEMMA OthersJoin ==
  ASSUME Joined, UNCHANGED <<disk, resets, crossed>>,
         \A c \in Copies' : c \in Copies \union {Empty}
  PROVE  Joined'
BY DEF Joined, Empty

LEMMA JoinedInitially == Init => Joined
BY DEF Init, Sync!SyncInit, Joined, Copies, Blank, Empty

LEMMA JoinedStepwise == IInv /\ SyncInv /\ Joined /\ [Next]_vars => Joined'
<1> SUFFICES ASSUME IInv, SyncInv, Joined, [Next]_vars PROVE Joined'
  OBVIOUS
<1>1. \A w \in Windows : DOMAIN mem[w] = {"payouts", "adjustments"}
  BY DEF IInv, Copies, GoodCopy, IsCopy
<1>2. ASSUME NEW w \in Windows, NEW p \in Payees, NEW k \in 1..LastWeek, Pay(w, p, k)
      PROVE  Joined'
  BY <1>1, <1>2, WriteJoins DEF Pay
<1>3. ASSUME NEW w \in Windows, NEW ledger \in {Vendors, Riders},
             NEW rows \in SUBSET Rows(page[w], ledger), PayRun(w, rows)
      PROVE  Joined'
  BY <1>1, <1>3, WriteJoins DEF PayRun
<1>4. ASSUME NEW w \in Windows, NEW v \in Vendors, NEW k \in 1..LastWeek,
             NEW amount \in Amounts, Adjust(w, v, k, amount)
      PROVE  Joined'
  BY <1>1, <1>4, WriteJoins DEF Adjust
<1>5. ASSUME NEW w \in Windows, ResetDemo(w) PROVE Joined'
  BY <1>5, BoundsAssumption DEF ResetDemo, Joined, IInv
<1>6. ASSUME NEW w \in Windows, Load(w) PROVE Joined'
  <2>1. ASSUME NEW c \in Copies' PROVE c \in Copies
    BY <1>6, <2>1 DEF Load, Copies, IInv
  <2> QED BY <1>6, <2>1, OthersJoin DEF Load, bookVars
<1>7. ASSUME NEW w \in Windows, Hear(w) PROVE Joined'
  <2>1. ASSUME NEW c \in Copies' PROVE c \in Copies
    BY <1>7, <2>1 DEF Hear, Sync!Hear, Copies, IInv
  <2> QED BY <1>7, <2>1, OthersJoin DEF Hear, Sync!Hear, bookVars
<1>8. ASSUME NEW w \in Windows, Reload(w) PROVE Joined'
  <2>1. ASSUME NEW c \in Copies' PROVE c \in Copies \union {Empty}
    BY <1>8, <2>1 DEF Reload, Sync!Reload, Copies, IInv, Blank
  <2> QED BY <1>8, <2>1, OthersJoin DEF Reload, Sync!Reload, bookVars
<1>9. ASSUME UNCHANGED <<disk, mem, page, resets, crossed>> PROVE Joined'
  BY <1>9 DEF Joined, Copies
<1> QED
  BY <1>2, <1>3, <1>4, <1>5, <1>6, <1>7, <1>8, <1>9 DEF Next, Complete, NextWeek, vars

\* A payee is paid once for a week in every copy, and, until a window writes
\* before it was told of another's write, in all the copies together
\* (vendorPaid(), riderPaid(), stores/payouts.ts).
THEOREM OnePayoutHolds == Spec => []OnePayoutPerPeriod
<1>1. IInv /\ Joined => OnePayoutPerPeriod
  <2> SUFFICES ASSUME IInv, Joined PROVE OnePayoutPerPeriod
    OBVIOUS
  <2>1. \A c \in Copies : PaidOnce(c)
    BY DEF IInv, GoodCopy
  <2>2. ASSUME crossed = {}, resets = 0
        PROVE  PaidOnce([payouts |-> UNION {c.payouts : c \in Copies}])
    <3>1. \A c \in Copies : c.payouts \subseteq disk.payouts
      BY <2>2 DEF Joined
    <3>2. UNION {c.payouts : c \in Copies} \subseteq disk.payouts
      BY <3>1
    <3>3. PaidOnce(disk)
      BY <2>1 DEF Copies
    <3> QED BY <3>2, <3>3 DEF PaidOnce
  <2> QED BY <2>1, <2>2 DEF OnePayoutPerPeriod
<1> QED
  BY <1>1, Invariance, SyncInitially, SyncStepwise, JoinedInitially, JoinedStepwise, PTL DEF Spec
=============================================================================
