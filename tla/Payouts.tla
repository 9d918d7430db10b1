------------------------------- MODULE Payouts -------------------------------
(***************************************************************************)
(* The weekly settlements and the transfers that pay them: stores/payouts  *)
(* .ts over lib/settlement.ts, and the pages of the finance desk           *)
(* (payouts-view.tsx, payout-detail-view.tsx).                             *)
(*                                                                         *)
(* A settlement is never stored.  A page computes the rows from the order  *)
(* book, the transfers and the corrections, half a second after any of     *)
(* them has changed (services/finance.ts); the desk pays the row that it   *)
(* is shown; the store decides on its own copy whether the week is paid.   *)
(* The store is shared with other windows through WindowSync.              *)
(*                                                                         *)
(* Abstracted: rates, fees and rounding, so an order has one amount for    *)
(* each payee; the order book, whose own window synchronisation is taken   *)
(* as immediate; notifications and the audit trail.                        *)
(***************************************************************************)
EXTENDS Integers, Sequences, FiniteSetsExt

CONSTANTS
  Windows,
  Desk,           \* the windows whose account holds payouts.manage
  Orders, Vendors, Riders,
  VendorOf, RiderOf,
  VendorNet,      \* vendorNetAmount of an order
  RiderNet,       \* payout.total - cashCollected of its trip
  Amounts,        \* what a correction may be worth
  NoRider,
  LastWeek,       \* bound: weeks
  MaxWrites,      \* bound: transfers runs and corrections
  MaxResets       \* bound: resets of the demonstration

ASSUME BoundsAssumption == LastWeek \in Nat \ {0} /\ MaxWrites \in Nat /\ MaxResets \in Nat
ASSUME BookAssumption ==
  /\ Desk \subseteq Windows
  /\ VendorOf \in [Orders -> Vendors] /\ RiderOf \in [Orders -> Riders \union {NoRider}]
  /\ VendorNet \in [Orders -> Nat] /\ RiderNet \in [Orders -> Int]
  /\ NoRider \notin Vendors \union Riders /\ Vendors \intersect Riders = {}
  /\ Amounts \subseteq Int \ {0}

VARIABLES
  disk, mem, inbox, lastSeen,   \* the store, in every window
  settled,        \* lifecycle.financials.settlementRef of each order; 0 is none
  week,           \* weekRef(now)
  page,           \* what each window's page was last computed from
  clock,          \* bound, and the createdAt of transfers and corrections
  resets,
  crossed         \* history: windows that wrote before they were told of another's write

Sync == INSTANCE WindowSync
  WITH Values <- {}, Initial <- [payouts |-> {}, adjustments |-> {}], MaxInbox <- 0

bookVars == <<settled, week, clock, resets, crossed>>
vars == <<disk, mem, inbox, lastSeen, settled, week, page, clock, resets, crossed>>

Payees == Vendors \union Riders
Empty == [payouts |-> {}, adjustments |-> {}]
Unsettled == [o \in Orders |-> 0]
Blank == [copy |-> Empty, settled |-> Unsettled, week |-> 0]

Init ==
  /\ Sync!SyncInit
  /\ settled = Unsettled
  /\ week = 1
  /\ page = [w \in Windows |-> Blank]
  /\ clock = 1
  /\ resets = 0
  /\ crossed = {}

-----------------------------------------------------------------------------
(* lib/settlement.ts: the rows of a page.                                  *)

OrdersIn(book, p, k) == {o \in Orders : book[o] = k /\ p \in {VendorOf[o], RiderOf[o]}}

Owed(p, orders) ==
  MapThenSumSet(LAMBDA o : IF p \in Vendors THEN VendorNet[o] ELSE RiderNet[o], orders)

Corrections(copy, p, k) == {a \in copy.adjustments : a.vendor = p /\ a.period = k}
Corrected(corrections) == MapThenSumSet(LAMBDA a : a.amount, corrections)

NetPayable(pg, p, k) ==
  LET owed == Owed(p, OrdersIn(pg.settled, p, k))
  IN  IF p \in Vendors THEN owed + Corrected(Corrections(pg.copy, p, k)) ELSE owed

Paid(copy, p, k) == \E x \in copy.payouts : x.payee = p /\ x.period = k

Status(pg, p, k) ==
  IF Paid(pg.copy, p, k) THEN "paid" ELSE IF k = pg.week THEN "open" ELSE "pending"

\* Mutant: the week that still collects orders is payable.
IsPayableOpen(pg, p, k) ==
  Status(pg, p, k) # "paid" /\ NetPayable(pg, p, k) > 0

IsPayable(pg, p, k) ==
  Status(pg, p, k) \notin {"open", "paid"} /\ NetPayable(pg, p, k) > 0

Rows(pg, payees) ==
  {r \in payees \X (1..LastWeek) : OrdersIn(pg.settled, r[1], r[2]) # {}}

\* createVendorPayout() and createRiderPayout(): the amount is the row's.
Payout(pg, p, k) ==
  [payee |-> p, period |-> k, amount |-> NetPayable(pg, p, k), at |-> clock]

-----------------------------------------------------------------------------
(* stores/payouts.ts.                                                      *)

\* Mutant: the row itself is asked whether its week is paid.
MayPayAsShown(w, p, k) == w \in Desk /\ IsPayable(page[w], p, k)

\* payVendor(), payRider(): the store's own copy is asked, and then the row.
MayPay(w, p, k) ==
  /\ w \in Desk
  /\ ~Paid(mem[w], p, k)
  /\ IsPayable(page[w], p, k)

\* A write is dated, and is made on a copy that may be behind the disk.
Write(w, copy) ==
  /\ Sync!Store(w, copy)
  /\ clock <= MaxWrites /\ clock' = clock + 1
  /\ crossed' = IF inbox[w] = <<>> THEN crossed ELSE crossed \union {w}

Pay(w, p, k) ==
  /\ <<p, k>> \in Rows(page[w], Payees)
  /\ MayPay(w, p, k)
  /\ Write(w, [mem[w] EXCEPT !.payouts = @ \union {Payout(page[w], p, k)}])
  /\ UNCHANGED <<settled, week, page, resets>>

\* runVendorPayouts(), runRiderPayouts(): each row of the filtered list in turn,
\* the ones that cannot be paid left out.
PayRun(w, rows) ==
  LET payable == {r \in rows : MayPay(w, r[1], r[2])}
  IN  /\ payable # {}
      /\ Write(w, [mem[w] EXCEPT !.payouts =
           @ \union {Payout(page[w], r[1], r[2]) : r \in payable}])
      /\ UNCHANGED <<settled, week, page, resets>>

\* Mutant: a correction is taken for a week that is paid.
AdjustAnyWeek(w, v, k, amount) ==
  /\ w \in Desk
  /\ <<v, k>> \in Rows(page[w], Vendors)
  /\ Write(w, [mem[w] EXCEPT !.adjustments =
       @ \union {[vendor |-> v, period |-> k, amount |-> amount, at |-> clock]}])
  /\ UNCHANGED <<settled, week, page, resets>>

\* adjust(), for the week whose statement is on the page.
Adjust(w, v, k, amount) ==
  /\ w \in Desk
  /\ <<v, k>> \in Rows(page[w], Vendors)
  /\ ~Paid(mem[w], v, k)
  /\ Write(w, [mem[w] EXCEPT !.adjustments =
       @ \union {[vendor |-> v, period |-> k, amount |-> amount, at |-> clock]}])
  /\ UNCHANGED <<settled, week, page, resets>>

\* The demo bar's reset: no transfer, no correction, a new order book.
ResetDemo(w) ==
  /\ resets < MaxResets
  /\ Sync!Store(w, Empty)
  /\ settled' = Unsettled
  /\ resets' = resets + 1
  /\ UNCHANGED <<week, page, clock, crossed>>

-----------------------------------------------------------------------------
(* The windows and the world around them.                                  *)

\* The page's rows are computed anew from what the window holds.
Load(w) ==
  /\ page' = [page EXCEPT ![w] = [copy |-> mem[w], settled |-> settled, week |-> week]]
  /\ page' # page
  /\ UNCHANGED <<disk, mem, inbox, lastSeen, bookVars>>

Hear(w) ==
  /\ Sync!Hear(w)
  /\ UNCHANGED <<page, bookVars>>

Reload(w) ==
  /\ Sync!Reload(w)
  /\ page' = [page EXCEPT ![w] = Blank]
  /\ UNCHANGED bookVars

\* Mutant: the order is booked in the week that will pay it.
CompleteNextWeek(o) ==
  /\ settled[o] = 0
  /\ settled' = [settled EXCEPT ![o] = week + 1]
  /\ UNCHANGED <<disk, mem, inbox, lastSeen, week, page, clock, resets, crossed>>

\* The completed transition stamps the week it happens in (settleOrder()).
Complete(o) ==
  /\ settled[o] = 0
  /\ settled' = [settled EXCEPT ![o] = week]
  /\ UNCHANGED <<disk, mem, inbox, lastSeen, week, page, clock, resets, crossed>>

NextWeek ==
  /\ week < LastWeek
  /\ week' = week + 1
  /\ UNCHANGED <<disk, mem, inbox, lastSeen, settled, page, clock, resets, crossed>>

Next ==
  \/ \E w \in Windows :
       \/ \E p \in Payees, k \in 1..LastWeek : Pay(w, p, k)
       \/ \E ledger \in {Vendors, Riders} :
            \E rows \in SUBSET Rows(page[w], ledger) : PayRun(w, rows)
       \/ \E v \in Vendors, k \in 1..LastWeek, amount \in Amounts : Adjust(w, v, k, amount)
       \/ ResetDemo(w) \/ Load(w) \/ Hear(w) \/ Reload(w)
  \/ \E o \in Orders : Complete(o)
  \/ NextWeek

Spec == Init /\ [][Next]_vars

-----------------------------------------------------------------------------
(* Properties.                                                             *)

\* What a copy of the store holds is of its kind and of the past, and every
\* transfer moved something.
IsCopy(c) ==
  /\ DOMAIN c = {"payouts", "adjustments"}
  /\ \A x \in c.payouts :
       x.payee \in Payees /\ x.period \in 1..LastWeek /\ x.amount > 0 /\ x.at \in 1..(clock - 1)
  /\ \A a \in c.adjustments :
       a.vendor \in Vendors /\ a.period \in 1..LastWeek /\ a.at \in 1..(clock - 1)

PaidOnce(c) ==
  \A x, y \in c.payouts : x.payee = y.payee /\ x.period = y.period => x = y

CorrectedBefore(c) ==
  \A x \in c.payouts, a \in c.adjustments :
    a.vendor = x.payee /\ a.period = x.period => a.at < x.at

PaidInFull(c) ==
  \A x \in c.payouts :
    /\ x.period < week
    /\ x.payee \in Riders =>
         x.amount = Owed(x.payee, OrdersIn(settled, x.payee, x.period))

Copies == {disk} \union {mem[w] : w \in Windows} \union {page[w].copy : w \in Windows}

\* Every copy of the store is of its kind, and no order and no page is ahead of
\* the calendar.
TypeOK ==
  /\ \A c \in Copies : IsCopy(c)
  /\ settled \in [Orders -> 0..week] /\ week \in 1..LastWeek
  /\ \A w \in Windows : page[w].week \in 0..week
  /\ clock \in 1..(MaxWrites + 1) /\ resets \in 0..MaxResets /\ crossed \subseteq Windows

\* A payee is paid once for a week in every copy of the store ("a stale render
\* cannot pay a week twice", payouts-view.tsx; vendorPaid() and riderPaid()), and,
\* as long as nobody has written before he was told of another window's write, in
\* all the copies together: no window pays again what another has paid, and no
\* transfer is made a second time because its record was lost.
OnePayoutPerPeriod ==
  /\ \A c \in Copies : PaidOnce(c)
  /\ crossed = {} /\ resets = 0 =>
       PaidOnce([payouts |-> UNION {c.payouts : c \in Copies}])

\* A week that has been paid is not corrected any more, in every copy: the
\* corrections of a paid week are all older than its transfer (adjust(), "a
\* correction after the fact belongs on the next period").
NoCorrectionAfterThePayout == \A c \in Copies : CorrectedBefore(c)

\* Only a week that is over is paid, so what a rider was paid is what the orders
\* of that week still come to, however old the page was that paid it and whatever
\* has been delivered since (isPayable(), buildRiderSettlements()).
PaidWeeksAreFinal == resets = 0 => \A c \in Copies : PaidInFull(c)

\* Once every window has been told of everything, no window goes on with a book
\* of transfers that the others have left behind (store-sync.ts).  A transfer or
\* a correction is never the same text twice; the book of a reset is, and a
\* window that was told of one reset skips the next, whatever it has written in
\* between: the claim is about the first.
WindowsAgree == resets <= 1 => Sync!QuietWindowsAgree
=============================================================================
