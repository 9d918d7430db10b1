# FoodOra: a verification development

FoodOra is a food-ordering platform: a Next.js application (`src/frontend`) whose
order lifecycle runs in the browser, in persisted stores shared by the windows of
the customer, the restaurant, the rider and the operations desk; and a Node
backend (`src/backend`) that owns accounts, sessions, carts and the catalogue.
This directory holds TLA+ specifications of its core, the TLC configurations
that check them on small instances, and TLAPS proofs of their safety properties
for every instance. `PROJECT.json` is the machine-readable index: the runs, the
mutants, the map from definitions to source lines, the hazards and the findings.

1. [The system](#1-the-system)
2. [What is modelled, and how it corresponds to the code](#2-what-is-modelled)
3. [The runs](#3-the-runs)
4. [The proofs](#4-the-proofs)
5. [Where the code and its documents disagree](#5-disagreements)
6. [Not modelled](#6-not-modelled)
7. [The plan](#7-the-plan)

Paths are relative to `src/frontend` unless they start with `backend/`.

---

## 1. The system

### 1.1 The order core (frontend)

| Part | Source | State | Operations |
|---|---|---|---|
| Order machine | `lib/order-machine.ts` | none: pure functions of one order | `transition` (graph, actor, guards, stamps), `requestRefund`, `approveRefund`, `rejectRefund`, `settleRefund`, `withOtpFailure`, `withHandoverFailure`, the action lists of every role |
| Orders store | `stores/orders.ts` | the orders, persisted under one key of `localStorage` | `addOrder`, `advance`, `assignRider`, `reassignRider`, `autoDispatch`, `failOtp`, `failHandover`, `askRefund`, `decideRefund`, `settleRefund`, `rateOrder`, `releaseScheduled`, `delayOrder`, `resetDemo` |
| Wallet | `stores/wallet.ts`, `lib/wallet.ts` | a ledger of transactions, persisted under a key of its own; and the balance they sum to | `pay`, `refundOrder`, `topUp`, `reward` |
| Checkout | `components/checkout/checkout-view.tsx`, `services/orders.ts` | the page's own: tender, authorisation under way | authorise, place, debit, add |
| Tracking | `components/tracking/order-tracking.tsx` | a cancellation under way | cancel, ask for a refund, complete, rate |
| Restaurant board | `components/dashboard/orders-board.tsx`, `components/orders/assign-rider-dialog.tsx` | open dialogs, holding the order they were opened on | accept, reject, prepare, pack, ready, cancel, hand over, assign |
| Rider trip | `components/rider/live-trip-view.tsx` | a doorstep code under verification | collect, ride, arrive, deliver, fail, retry, return, hand the job back |
| Operations desk | `components/admin/order-detail-view.tsx`, `refund-controls.tsx` | the session's rights | any legal move, assign, reassign, decide and settle refunds |
| Autopilot | `lib/order-sim.ts`, `components/demo/demo-engine.tsx` | none: a three-second tick over the store | plays the restaurant, dispatch, the rider and the slot clock |
| Risk | `lib/risk.ts` | derived from the orders | cash in hand, cash ceiling per zone |

How they interact: every surface calls the store; the store calls the machine,
commits what it returns, and settles with the wallet when the commit ended a
wallet order badly. A store action is synchronous, so nothing in the same window
comes between its statements; what a surface *awaits* (authorisation, placing,
cancelling, verifying a code) is where other surfaces get in. Two windows share
the persisted keys and adopt each other's writes on the `storage` event.

What is hard:

- **Interleaving.** Five kinds of surface and a timer act on one order. Three of
  them assign couriers and a fourth reassigns; three release food at the counter.
- **Stale reads over an await.** Cancellation, checkout and the doorstep code
  are decided on one state and applied to another.
- **Two accounts of one fact.** Whether money is back is in the payment, in the
  refund record and in the wallet ledger; three routes write them.
- **Partial steps.** A reassignment is two commits, the second of which can be
  refused.
- **Limits.** Attempt counters with locks, the cash ceiling, refund amounts
  clamped and then read back.
- **Liveness.** The autopilot repeats a move until it is accepted.

What makes it correct: custody (food on the road is with a verified courier, a
courier has one order), money (a refund is agreed once, paid back once, within
the price, and all records agree; the wallet is never overdrawn; cash is paid at
the door), the lifecycle (ends are final, a bad end of a paid order always owes
the money), and progress (what is left to the autopilot is finished).

### 1.2 Around the core (frontend)

| Part | State | What makes it correct | Here |
|---|---|---|---|
| Window synchronisation, `lib/store-sync.ts` | one persisted key per store, a copy in each window, the events on their way | once everything has been told, no window goes on with a copy the others have left behind | `WindowSync` |
| Settlement and payouts, `lib/settlement.ts`, `stores/payouts.ts`, `services/finance.ts` | transfers and corrections in a store; settlement rows that a page computed some time ago | a week is paid once, is not corrected afterwards, and what was paid is what its orders come to | `Payouts` |
| Rider jobs, remittance, `lib/delivery*.ts`, `stores/rider.ts` | a local log of cash handed in | in-hand cash = collected − handed in | — |
| Onboarding, `stores/onboarding.ts` | applications and reviews | no approval past a missing document | — |
| Fleet, `stores/fleet.ts` | shifts | an off-duty courier is not dispatched, and orders wait when nobody is on shift | `OrderAutopilot` |
| Client cart, `stores/cart.ts` | lines of one vendor, mirrored to the server | the rules of the server cart | through `CartServer` |
| Reservations, `lib/reservations.ts` | bookings | a table is given once per slot | — |
| Coupons, campaigns, subscriptions, catering, POS, dine-in, support, chat, reviews, notifications, audit, CMS, staff, RBAC | local records | no rule of theirs reaches the order core | — |

### 1.3 The backend

| Part | State | Operations | What makes it correct | Here |
|---|---|---|---|---|
| Authentication, `backend/src/modules/auth` | accounts, sessions, refresh-token chains, one-time codes, password resets, a token epoch | sign in, refresh, sign out, request and verify a code, reset a password | a refresh token is spent once; a reused one ends its chain; a reset ends the sessions there are, and no token signed before it is admitted after it; guesses are bounded | `AuthSessions` |
| Cart, `backend/src/modules/cart` | a row per customer and restaurant, live or discarded, with lines | add, set quantity, remove, clear | one restaurant per basket; caps; an add is all or nothing; nothing is replaced without consent | `CartServer` |
| Stock, `backend/src/modules/menu` ("Inventory") | an inventory row and the ledger of its movements | count, adjust | the ledger explains the count; a tracked dish is not sold below zero | `StockLedger` |
| Menus and option groups, `backend/src/modules/menu` | menus with a default, option groups with their options | create, update, delete, make default | one default for a kind; a dish can always be ordered | `MenuBoard` |
| Catalogue, authorisation, plumbing | read models, policy tables, HTTP | reads | | — |

All four services read with one statement, decide, and write with another, so
requests interleave at every `await` and a process may die between two
statements. Each protects itself differently — a filter in the `UPDATE`
(`auth`), a check after the increment inside the transaction (`cart`), a version
in the filter (`stock`), a clearing statement afterwards (`menu`) — and the four
modules ask of each what its protection is worth.

The parts meet through their rows only: the cart reads the stock (`Stock` is a
constant of `CartServer`); `Payouts` reads the order book (`settled`); and
`OrderStore` and `Payouts` sit behind the same window synchronisation.

---

<a name="2-what-is-modelled"></a>
## 2. What is modelled, and how it corresponds to the code

### 2.1 `OrderMachine`: `lib/order-machine.ts`

Pure operators on one order, a record with the fields the rules read.

| TLA+ | Code |
|---|---|
| `Order` | `Order` with its `lifecycle` and `payment`; timestamps are left out or are a BOOLEAN (`settled`, `verified`, `financials`, `rated`) |
| `Transitions`, `Actors`, `CanTransition`, `ActorCan` | the graph, the actor table, `canTransition`, `actorCan` (the admin may take every edge) |
| `Accepts` | every early return of `transition()`, as one conjunct each |
| `HandoverPasses`, `RequiresHandover`, `IsHandoverLocked`, `IsOtpLocked` | the counter's check and the two locks |
| `Transition`, `Stamped`, `HandBack` | the `switch` of `transition()` and the commit |
| `OpenRefundOwed`, `RefundAmountOn`, `ApproveRefund`, `RejectRefund`, `RequestRefund`, `StampRefundSettled`, `SettleOnLifecycle` | the refund lifecycle |

Abstracted: `rejectedRiderIds` is a set (the code only asks for membership);
the handover checklist is complete or not; the counter code of an order and a
courier is a constant function `HandoverCode`; prices are `Total`, one for all
orders; amounts are integers. `addDelay` changes an estimate that no guard
reads and is left out.

Before an order exists the checkout page has a basket, then an authorised
payment. They are the statuses `basket` and `authorised` of `NotPlaced`, which
belong to no edge of the graph.

### 2.2 `OrderStore`: the store, the wallet, the surfaces

| Variable | Code |
|---|---|
| `orders` | `orders` of the persisted store |
| `ledger` | `transactions` of the wallet store, filed by order number |
| `balance` | `balance` of the wallet store, moved by `post()` together with the ledger |
| `cancelling` | tracking pages awaiting `cancelOrder()` |
| `otpCheck` | rider pages awaiting `verifyOtp()`, with the answer it will give |
| `lapsed` | orders handed over whose `updatedAt` is before today: all that the model keeps of the clock |
| `handedEarlier` | history only: orders that had been handed over when the day began |

| Action | Code |
|---|---|
| `Authorise`, `PlaceOrder`, `RefuseOrder` | `submit()` of the checkout page, one action per await: the authorisation against the balance of that moment; then the placed order with its wallet debit (whose refusal nobody reads); or the failure of `placeOrder()` |
| `Advance` | `advance()`: commit, then decide, credit and settle a wallet refund if the order ended badly |
| `ReleaseScheduled` | the slot sweep, for any set of due orders: the clock is not modelled |
| `RequestCancel`, `CommitCancel`, `RefuseCancel` | `handleCancel()` before and after its round trip |
| `CustomerComplete`, `AskRefund`, `RateOrder` | the rest of the customer's surface |
| `RestaurantMove` | `restaurantActions()` and the board; the cancel dialog may outlive a status |
| `Handover`, `WrongHandoverCode` | the counter, from any of three surfaces; a wrong code is counted |
| `AssignManually`, `AutoDispatch`, `ReassignRider` | the three ways to a courier. `AssignRider` is the common store action; `OverCashLimit` and `CashInHand` are `lib/risk.ts`, day window included. Couriers off duty or not approved are any subset, chosen at each dispatch |
| `RiderMove`, `SubmitOtp`, `FailOtp`, `Deliver` | the trip page; the code is verified by a call whose answer comes later and is applied to whatever the order has become. One verification is in flight for an order: the page's `submitting` (`live-trip-view.tsx:90`) says so, and the model takes one mounted page per trip |
| `AdminMove`, `ApproveRefundAtDesk`, `RejectRefundAtDesk`, `SettleRefund` | the desk, within the rights of its session (`DeskRights`) |
| `AutoMove`, `AutoAssign` | one tick of the autopilot on one order: `nextMove()` and the dispatch branch of the engine. The dwell times are "at some time" |
| `Midnight`, `Stamp` | the day begins, and nothing has been updated in it; any step that changes an order stamps its `updatedAt` with today (`Stamp` goes with every other action) |

An action is refused exactly when its code answers with an error and changes
nothing; the exceptions, where a refusal does change state, are in the model
(`WrongHandoverCode`, `FailOtp`, `RefuseCancel`, the second half of
`ReassignRider`, the unread refusal of `Pay`).

The cash ceiling reads the day. `riderCashInHand()` counts the cash of the
courier's delivered orders whose `updatedAt` is today: an order handed over
yesterday counts nothing, until something is done to it today — completed, rated,
refunded — and it counts again. `CashInHand` does exactly that, through `lapsed`.
What a courier has really collected since midnight is `CollectedToday`, through
`handedEarlier`, and the property is about that.

`OrderAutopilot` extends the store with a variable `offDuty` (`stores/fleet.ts`:
shifts, with suspension and approval) and is the system with nobody in the room:
checkout, the slot sweep (`Release`), the autopilot's move of each order
(`TickMove`) and its dispatch (`TickDispatch`), midnights, and couriers whose
shifts begin and end at any moment (`ChangeShift`). `TickDispatch` offers an order
only to who is on shift and carries nothing, so orders wait when nobody is, and
compete when there is one courier for two.

### 2.3 `OrderPromise`: what an order is to its customer

The abstract specification of the order core: an account of each order — its
stage (`basket`, `open`, `served`, `closed`, `ended`), whether the price is due or
taken, the claim to have it back, the amount that was agreed, and how much came
back — and a contract, one clause an operator (`Accept`, `Serve`, `Close`, `Ask`,
`Refuse`, `Approve`, `PayBack`, `PayAtOnce`, `Fail`). `OrderStore` maps every order to its account (`Stage`, `Account`,
`accounts`) and states `KeepsItsPromise == Promise!Spec`. The seventeen statuses,
three tenders and five actors disappear: what is left is that a meal is served
once and paid by then, that money taken for a meal that will not come is owed in
the very step, that it is decided on once, and comes back once: what was approved, no
more and no less. `Due` names the one exception, an approval of nothing (section
5). What follows from the contract alone, `EveryAccountIsFair` and
`NothingIsTakenBack`, is stated beside it and proved once, for the contract and
through the refinement for the store.

### 2.4 `AuthSessions`: accounts and sessions of the backend

| Variable | Code |
|---|---|
| `password`, `epoch` | `credentials.passwordHash` (as the number of changes before it) and `tokenEpoch` |
| `session`, `access` | the `sessions` table, and the newest access token signed for each |
| `link` | `refresh_tokens`: the chain of every session, used and revoked marks |
| `reset`, `code`, `issued` | `password_resets`, `otp_challenges`; the latest code is the one that counts |
| `req` | requests in flight: where each is, and what it has read |
| `born`, `since` of a session | history only: the password its credential was checked against, and how many password changes had listed the sessions when it was opened |
| `cut`, `begun`, `closed` | history only: sessions whose rotation died half way; how many password changes have listed the sessions; the number of the last one that committed |

| Action | Code (`service.js`, `repository.js`) |
|---|---|
| `LoginRead`, `OpenSession` | `login()` and `startSession()`: the account is read and the password checked, then, later, the session and its first token are one transaction |
| `RequestCode`, `VerifyRead`, `Miss`, `SpendCode`, `OtpAccount` | `requestOtp()`, `verifyOtp()`: the code is read, compared, and either counted or consumed by a filtered update |
| `RefreshRead`, `RefreshAccount`, `SpendLink`, `Mint`, `RevokeReuse` | `refresh()`: the token and its session are read, the account is read, the token is spent by a filtered update, its successor is minted in a transaction; a second presentation ends the session |
| `LogoutRead`, `LogoutRevoke`, `OthersRead`, `OthersWrite` | `logout()`, for this device or all |
| `RequestReset`, `ResetRead`, `ConsumeReset`, `ChangeRead`, `ChangeWrite` | `requestPasswordReset()`, `resetPassword()` and the repository's `changePassword()`, whose transaction that lists the open sessions and then revokes them by id: a session may be opened in between |
| `Crash` | the process dies, or a query fails, between two statements |

Anybody may present any token or code at any time, again and late: a lost answer,
a client that retries and a token that was copied are behaviours.

### 2.5 `CartServer`: one customer's baskets

`basket[v]` is the customer's row for restaurant `v` (absent, live or a
tombstone, with its lines); `older` the order of `updatedAt`, by which
`findLiveCart()` chooses among several live rows; `req` what each request has
read. `AddRead`/`AddSlot`/`AddCommit`, `SetRead`/`SetCommit`,
`RemoveRead`/`RemoveCommit` and `ClearRead`/`ClearCommit` are `addItem()`,
`updateQuantity()`, `removeItem()` and `clearCart()`: what they read with no
transaction open, and the transaction. `Expire` is the passing of `CART_TTL`,
`Fail` a request that dies or is rolled back. `calm` is history: no request has
begun while another was in flight.

### 2.6 `WindowSync` and `Payouts`

`WindowSync` is the persistence of one store in several windows: the text on the
disk, each window's copy, the `storage` events on their way and the listener's
`lastSeen` (no text, or one); `Store` (a `set()` of a persisted store), `Hear` (the listener) and
`Reload`. It is parameterised by what the store holds.

`Payouts` composes it with the finance desk: `Sync` is an instance of
`WindowSync` whose values are the transfers and corrections. `Pay`, `PayRun`,
`Adjust` and `ResetDemo` are the actions of `stores/payouts.ts`. `page[w]` is what
window `w`'s settlement rows were last computed from (`Load`, half a second after
any change, `services/finance.ts`): the desk pays the *row it is shown*, the store
asks *its own copy* whether the week is paid, and the two are of different times.
`Complete` stamps an order with the week it is settled in; `NextWeek` is the
calendar. Every write of the desk is a `Write`: it is dated (`clock`), and if it is
made before the window was told of another's write, `crossed` remembers the window
(history only). `OrdersIn`, `Owed`, `NetPayable`, `Status`, `IsPayable` and `Rows` are
`lib/settlement.ts`.

### 2.7 `StockLedger`: what is left of one dish

`item` is the inventory row with its version, `ledger` its movements, `opening`
the count that the row was created with, `req` what each request has read.
`SetRead`, `Create`, `Open` and `Set` are `setItemStock()`: an absent row is
created in one transaction and its opening receipt written in another; a row that
is there is counted anew under the version that was read. `AdjustRead` and
`Adjust` are `adjustItemStock()`: an increment filtered by the version and, for a
decrement of a tracked row, by the balance. `Crash` is as above.

`StockPromise` is the abstract specification: one count and one list of movements
(`Shelf`, and the ledger itself), changed by one person at a time — a first
count, its receipt (which may never come), a recount, a change of tracking, an
adjustment that takes nothing a tracked dish does not have. `ServedOneByOne ==
Promise!Spec`: versions, readings, transactions and crashes disappear.

### 2.8 `MenuBoard`: the default menu, and an option group

`menu` are the menus of one restaurant and kind, `group` and `option` one option
group of one dish. `CreateMenuRead`/`CreateMenuWrite`,
`UpdateMenuRead`/`UpdateMenuWrite`, `ClearDefaults`, `TouchMenu` and `DeleteMenu`
are the menu's mutations; `CreateGroup`, `UpdateGroupRead`/`UpdateGroupWrite`,
`CreateOption`, `OptionRead`/`OptionWrite` and `DeleteGroup` the group's; `Legal`
is `groupError()`. A version is modelled by what its guard tells apart: whether
the row was written since the request read it (`fresh`). `torn` and `calm` are
history: a default was written and its others never cleared; nothing was written
on a stale reading of the group.

### 2.9 Instances, proofs and seeded faults

The `MC` modules hold the instances, the `_proofs` modules the proofs. The
operators introduced by a comment that begins with "Mutant:" are seeded faults:
no specification uses them. Each stands in for the definition that follows it, to
see that the property it is meant for notices.

---

<a name="3-the-runs"></a>
## 3. The runs

| Run | Instance | Checks | States |
|---|---|---|---|
| `one` | one order of any kind, `Total` = 2, amounts −1..3, three attempts at the counter and the door as in the code, full desk, autopilot on | `TypeOK`, `CustodyIsVerified`, `RefundFollowsPayment`, `WalletRefundedOnce`, `WalletRefundNeverWaits`, `CashIsTakenAtTheDoor`; the action properties `SettledMoneyIsFinal`, `LostJobsAreRemembered`, `AlongTheGraph`, `BadEndOwesMoney`; the refinement `KeepsItsPromise` | 272,205 |
| `two` | two cash deliveries, a ceiling that one of them fills, a desk that moves orders, midnights | `OneOrderPerRider`, `CashWithinCeiling` | 568,042 |
| `live` | two prepaid orders, a wallet that covers one, nobody but the autopilot, two couriers who come and go | `WalletNotOverdrawn`, `AutopilotFinishes` | 34,536 |
| `sessions` | 2 requests, 2 sessions, 3 refresh tokens, 1 reset, 1 code with 1 attempt | `TypeOK`, `OneLiveLink`, `LiveSessionCanRenew`, `OneSessionPerCode`, `ResetEndsEarlierSessions`, `TokensDieWithThePassword`, `TriesAreBounded`, `DeadSessionsSpendNothing` | 1,056,849 |
| `cart` | 2 requests, 2 restaurants, 4 dishes, 2 of a dish, 2 lines | `TypeOK`, `LinesWithinCaps`, `OneBasketWhenCalm`, `ConflictNeedsConsent`, `AddIsAllOrNothing` | 719,081 |
| `payouts` | 2 windows, 2 orders (one in cash, which leaves the rider owing), 2 weeks, 2 writes, 1 reset | `TypeOK`, `OnePayoutPerPeriod`, `NoCorrectionAfterThePayout`, `PaidWeeksAreFinal`, `WindowsAgree` | 874,683 |
| `stock` | 2 requests, counts 0 and 2, deltas −1, −3, 1, 4 writes | `TypeOK`, `LedgerAddsUp`, `TrackedNeverFallsBelowZero`; the refinement `ServedOneByOne` | 1,169,335 |
| `board` | 2 editors, 2 menus, 3 options, at most 2 choices | `TypeOK`, `OneDefaultWhenQuiet`, `ADishCanBeOrdered` | 725,672 |
| four more | see section 5 | one property each, which the code violates | |

What they show, of the order core:

- **Custody.** Whoever assigns, hands back, reassigns, releases and rides, in
  whatever order, no courier has two active orders, food that left the counter
  for a delivery is with a courier whose code the counter verified, and whoever
  loses a job is on file so that dispatch does not offer it to him again.
- **Money.** The payment, the refund record and the wallet ledger agree after
  every step; a settled record is never touched again; an order that ends badly
  when paid owes its whole price in that very step, unless a refund was already
  opened; a wallet refund is never seen half way.
- **The ceiling.** From one midnight to the next a courier collects no more cash
  than his zone allows, or else it comes from a single order. The check is made at
  assignment, before the cash is collected, so it rests on his not carrying a
  second order meanwhile — and on the day: what he holds from yesterday does not
  count against it (section 5).
- **The graph.** Whatever the surface, an order moves along an edge of the graph,
  or along two when a bad end is repaid in the same step. Late cancellations, late codes, sweeps and the autopilot cannot
  bring back an order that has ended; only a bad end moves on, to `refunded`,
  and then with its refund settled.
- **Progress.** Left to the autopilot, a prepaid order that has its courier is
  completed, whoever goes off shift. One that has none is completed if from some
  moment on there is always somebody on shift, be it now one and now the other,
  however many orders wait for him; when nobody comes, it waits.
- **The promise.** Every step of every actor is a clause of the contract of
  `OrderPromise`, or the customer sees nothing of it.

Of the other components:

- **Sessions.** Of two requests with one refresh token, one rotates it; a live
  session can always be renewed, but for a rotation that died half way; no
  token of a session that has been ended is spent, even by a request that had read
  it alive (a rotation already under way may still mint one: it stays unspent); a
  code opens one session; a password change ends every session that was open when
  it listed them, and what is live afterwards was opened after that listing; no
  access token that was signed before the change is admitted after it. A sign-in
  under way during the change is the gap: section 5. Guesses pass the limit only by those in flight when it was reached.
- **The cart.** Caps hold through every overlap; another restaurant's basket is
  never touched without consent; a replacement that fails leaves what it was to
  replace. That a customer has one live basket, and that it has something in it,
  holds only as long as requests do not overlap (section 5).
- **Payouts.** However old the page: in every copy of the store a week is paid
  once, not corrected afterwards, and a rider is paid what the orders of that week
  still come to. Over all the windows together a week is paid once as long as no
  window has written before it was told of another's write (`crossed`) and until
  the first reset; past that, section 5.
- **Stock.** The ledger explains the count through every overlap and crash, and
  every movement in it is one that somebody alone at the shelf could have made
  there and then; no decrement takes a tracked dish below zero, not even one
  decided when it was not tracked.
- **Menus.** Once every request that made a default has cleared the others,
  there is one at most; a dish can be ordered as long as nobody wrote on a
  stale reading.

Bounds, and why they are enough. The store's rules look at one order, except
three: a courier's other orders, his cash, and the wallet's balance. One order
with every kind and every actor covers the rules of the first sort; two orders
that compete cover the others, since each of the three is a relation between a
pair or a sum that two orders already exceed. Two couriers are the smallest
fleet in which a job changes hands (they differ in counter code, rank and zone),
and three codes the smallest set with a right one, somebody else's and nobody's.
`Total` = 2 is the smallest price with a part of it; the amounts typed go out of
range on both sides. In `two` and `live` the attempt locks are at one: they hold
nothing that a pair of orders could disagree about; and in `two` the constraint
`FewAfterthoughts` lets at most one order be rated or asked a refund for: nothing that assigns or
collects reads either, but a rating late in the day makes the cash of an old
order today's again, and that one order can do. Midnights are not bounded:
of the days only today and before today are told apart. In `live`, one courier on
shift for two orders, and none, are subsets that `ChangeShift` reaches at any time.

In the backend modules every property is about a pair: of requests, of rows, or
of a request and a row. Two requests interleave in every way two can, and a
request that has ended starts again as another, so histories are not limited to
two. Three refresh tokens are a chain that was rotated and a second session, or
one rotated twice. One reset suffices because a second can only revoke more; two
lines with three dishes fill a basket and ask for one more; four writes to the
stock are a creation, its receipt, and two movements that compete, and one more
on top. Two windows are a writer and a reader; two weeks are one that is open and
one that is over. `MaxResets` = 1 is as far as `WindowsAgree` claims anything
(section 5). What the bounds cut off is covered by the proofs, which are for
every value.

Symmetry: requests, sessions, tokens, windows, orders and couriers
in `two`, menus and options
are permuted where no constant tells them apart; `one` and `live` use none (the
only temporal property with eventualities is in `live`).

Deadlock is checked in the five runs around the core: those systems always have a
step. It is not checked for the orders, because a set of finished orders
legitimately has none left.

Fairness. Only `live` assumes any: weak fairness of the slot sweep and, per
order, of the autopilot's move and of its dispatch (`UnattendedSpec`). The engine runs all of them
from a `setInterval` (`components/demo/demo-engine.tsx`) for as long as the page
is open and visits every order on each tick, and the dwell time of a status
always ends. Checkout, the people, the couriers' shifts, midnight, the requests of the backend and the storage
events are under no fairness: the backend promises no request an answer.

Every property of a passing run is accompanied by a mutant: a definition with a
plausible fault for which TLC reports that very property violated.

---

<a name="4-the-proofs"></a>
## 4. The proofs

Each theorem is for every value of the constants, under the named `ASSUME`s of
the modules, which say what kind of thing each constant is (a natural number, a
finite set, a function, a value outside a set) and no more; TLC evaluates them in
every run.

| Module | Theorem | Says |
|---|---|---|
| `OrderStore_proofs` | `Invariance`, `TypeCorrect` | `Spec => []Inv`, `Spec => []TypeOK` |
| | `RidersCarryOne` | `[]OneOrderPerRider` |
| | `CustodyVerified` | `[]CustodyIsVerified` |
| | `MoneyAgrees` | `[]RefundFollowsPayment` |
| | `PaidBackAtMostOnce` | `[]WalletRefundedOnce` |
| | `WalletSolvent` | `[]WalletNotOverdrawn` |
| | `NothingToWaitFor` | `[]WalletRefundNeverWaits` |
| | `CashAtTheDoor` | `[]CashIsTakenAtTheDoor` |
| | `CashCeiling` | `[]CashWithinCeiling` |
| | `SettledStaysSettled`, `CouriersAreRemembered`, `GraphHolds`, `BadEndsOwe` | the action properties `SettledMoneyIsFinal`, `LostJobsAreRemembered`, `AlongTheGraph`, `BadEndOwesMoney` |
| | `StoreKeepsItsPromise` | `Spec => KeepsItsPromise`: the refinement of `OrderPromise` |
| | `EveryOrderIsFair`, `NoOrderIsReopened` | what the contract amounts to, of the store |
| `OrderPromise_proofs` | `ContractIsFair`, `ContractIsFinal` | the same of the contract, for any number of orders and any price |
| `AuthSessions_proofs` | `Invariance`, `TypeCorrect` | |
| | `OneLiveLinkHolds`, `LiveSessionCanRenewHolds`, `OneSessionPerCodeHolds`, `ResetEndsEarlierSessionsHolds`, `TokensDieHolds`, `TriesAreBoundedHolds` | the invariants of `sessions` |
| | `DeadSessionsSpendNothingHolds` | its action property |
| `CartServer_proofs` | `Invariance`, `TypeCorrect`, `LinesWithinCapsHolds` | one restaurant per basket, and the caps |
| | `ConsentHolds`, `AllOrNothingHolds` | the action properties `ConflictNeedsConsent`, `AddIsAllOrNothing` |
| | `OneBasketHolds` | `[]OneBasketWhenCalm` |
| `Payouts_proofs` | `Invariance`, `TypeCorrect`, `OnePayoutHolds`, `NoCorrectionHolds`, `PaidWeeksHold` | for any number of windows, payees, orders and weeks; `OnePayoutHolds` in each copy and across them |
| | `WindowsAgreeHolds` | `[]WindowsAgree`, for any number of windows and writes, up to the first reset |
| `StockLedger_proofs` | `Invariance`, `TypeCorrect`, `LedgerAddsUpHolds`, `LedgerReadsInOrderHolds`, `TrackedNeverFallsHolds` | the last one is an action property |
| | `ServedOneByOneHolds` | `Spec => ServedOneByOne`: the refinement of `StockPromise` |
| `MenuBoard_proofs` | `Invariance`, `TypeCorrect`, `OneDefaultHolds`, `ADishCanBeOrderedHolds` | |

**OrderStore.** None of the properties is inductive. `Inv` is the conjunction of

- `TypeOK`;
- `Sound(orders[o])` for every order: what one order satisfies by itself. Beyond
  the properties it says that an order whose rider is assigned has a rider
  (without it, `picked-up` could be reached with none, skipping the counter),
  that only a paid order has an approved or refused refund (without it, a
  settlement could flip a payment that was never taken), and that a basket has
  no rider, no payment and no refund (the base of all three);
- `OneOrderPerRider`, which relates the orders to one another;
- the ledger's agreement with the refund record (paid back once), which relates
  each order to the wallet;
- `WalletNotOverdrawn`;
- `CashWithinCeiling`, with `RoomForEveryCollection`: whoever is on his way with
  an unpaid cash order has room for its price, or has collected nothing today. The
  ceiling is looked at when the order is assigned and the cash counted when it is
  delivered; in between what he has collected grows by nothing, because he carries
  one order only, and a midnight only empties it. The code does not look at what
  was collected today but at the orders updated today; the second is never the
  smaller (`FoundInHand`: `lapsed` is part of `handedEarlier`). Here `Orders` must be finite (`OrdersAssumption`), for the cash in a hand
  is a count.

The argument follows the layers of the code. `TransitionSound` shows that no
edge of the graph, with whatever it stamps, makes a sound order unsound;
`TransitionKeeps` and `SettleSound` say what it leaves alone. A step of the
store that rewrites one order is shown once to preserve `Inv` if it is a
`SoundStep`: the new order is sound, the wallet moved exactly when the order
says so, and a courier who is new on it was free. `AdvanceSound` shows that
everything going through `advance()` is one, and then there is a lemma per actor
(customer, restaurant, counter, dispatch, rider, desk, autopilot). The sweep,
which rewrites several orders at once, has a proof of its own.

The refinement reuses all of it: a `SoundStep` is a clause of the contract or
changes nothing the customer sees (`SoundStepKeeps`), the sweep changes nothing
he sees (`ReleaseKeeps`), and `Inv` supplies what the contract's guards ask for.
`OrderPromise_proofs` then speaks of accounts only: a clause keeps an account
sensible and takes nothing back (`ClauseKeeps`). `OrderStore_proofs` instantiates
it, so that its theorems hold of every account of the store.

The action properties relate an order to what a step leaves of it. `Follows` is
the relation, in parts for the courier, the money, the path along the graph, the
claim and the cash to collect; each
actor's lemma shows it together with the `SoundStep`, and `NextFollows` collects
them. From `Inv` it needs that a settled order is a refunded one and that an
order on offer has no courier.

**AuthSessions.** That a chain has one live link is not inductive: between the
two halves of a rotation it has none, and the link to come is known to the
request alone. `Inv` therefore says of each request what it may rely on where it
is (`Place`), of each two requests what they cannot both be doing (`Apart`: not
both minting for one session, not both carrying one code), and of the tables what
agrees with what; that what is alive was opened after the last listing is one more
part of it, for the listing of a change under way is of all that is alive or has
been opened since. Most steps read, and move one request: `QuietKeeps` covers them
all at once. `Tries` counts, besides the tries made, the guesses in flight.

**CartServer.** The invariant is one of rows and one of requests: a row holds its
restaurant's dishes within the caps, and a request that is to set a quantity has
already found it within the stock, of a dish of the basket it will write.
Consent and all-or-nothing are action properties under it: what a request was
allowed to discard is in what it has read. `OneBasketWhenCalm` has an invariant
of its own, `CalmInv`: until two requests have overlapped, there is one request
at most, what it has read is still so (`Fresh`), one basket at most can be found,
and a row is live exactly when it has something in it.

**Payouts.** Every copy of the store — the disk, each window's, each page's — is
good by itself, and a page that shows a week that was over when it was computed
shows what is still so (`GoodPage`, `OrdersStay`). A step makes at most one new
copy, from the writer's own. That windows agree rests on a second invariant
(`SyncInv`): a window that differs from the disk has an event on its way that
does not repeat the one before it (`WillReload`), for a new transfer or
correction carries the time of its writing and no older text has it (`Written`);
the empty book is the one text that comes back, and until a reset no window has
heard it. That nothing is paid twice across the windows rests on both (`Joined`):
a writer with nothing left to hear has the disk's copy, so what it writes holds
every transfer that any copy holds, and the store's own question, whether the week
is paid, is asked of all of them.

**StockLedger.** A request whose version still matches has seen the row as it is,
and nothing has been written to the ledger since (`Relies`). Every write moves the
version, so of the requests in flight none is left in that position. The
refinement of `StockPromise` is the same fact read the other way: a write whose
version matches is a step on the shelf as it is, the opening receipt finds the
ledger still empty, and every other step leaves the shelf alone.

**MenuBoard.** Of two defaults, one was written by a request that has yet to clear
the others, or whose clearing died (`DefaultInv`); and a request whose reading is
fresh has judged the group as it is, so that its write leaves it legal
(`GroupInv`). Satisfying a group is then choosing a subset of the right size.

Model-checked only: `AutopilotFinishes`, for liveness under fairness is out of the
prover's reach. Every other property of a passing run is stated by a theorem of
the table. The four properties that the code violates (section 5) are of course
not theorems.

---

<a name="5-disagreements"></a>
## 5. Where the code and its documents disagree

Each has a run of its own, with a property that states what the document says
and a counterexample.

| Run | The document | The code |
|---|---|---|
| `RefusedReassignmentIsHarmless` | "a refused reassignment leaves the order exactly as it was rather than stranding it unassigned" (`stores/orders.ts:454`) | the cash ceiling is looked at after the release: the order is left at `ready` with nobody, and the old courier struck off |
| `CancelledInsideTheWindow` | "here the machine gates it (`canCustomerCancel`)" (`services/orders.ts:391`) | the machine gates by graph and actor only; a cancellation asked for in time is applied after the kitchen has started |
| `QuietWindowsAgree` | "Rehydrating on it makes the claim true": every open window has the same state (`lib/store-sync.ts:13`) | the listener skips a text it has seen before, and what it has seen is moved by events only: off here, on there, off here again, and the other window stays on. A dish switched off and on (`stores/merchant.ts`) is such a text |
| `ResetEndsEverySession` | "Success revokes every session" (`backend/src/modules/auth/service.js:494`) | the change lists the sessions, then revokes those (`repository.js:219`); a sign-in that checked the old password before, and opens its session after the listing, is in no list. Its session outlives the reset; its first access token is of the old epoch and not admitted, but `refresh()` reads the account anew and signs one that is |

Deviations that are recorded and not run. The first group is present in the models,
and the properties hold for it or name it in a premise.

*Order core.*

- The desk may decide a refund while the order is still being made. If it then
  ends badly, the earlier decision stands: after a partial or refused refund the
  rest of the price is never owed (`openRefundOwed` returns early). The contract
  of `OrderPromise` says so.
- `refundAmountOn()` reads an amount of 0 as "nothing agreed"
  (`lib/order-machine.ts:758`; its comment says "whatever was already agreed, else
  the whole order"). An approval of 0 on an order that did not end badly — still
  scheduled, in the kitchen, delivered or completed — is therefore settled as the
  whole price; of one that ended badly, as 0. With the wallet the ledger is
  credited 0 while the record says the whole. The contract names the case (`Due`).
- The cash ceiling counts what was *updated* today (`lib/risk.ts:215-226`).
  What a courier delivered before midnight and still holds counts nothing after
  it, so he is given another cash order; and when yesterday's order is completed
  or rated today it counts again, so that even the code's own figure can then pass
  the ceiling. `CashWithinCeiling` is about what is collected in one day.
- The desk may close a *delivery* from `ready` with no courier and no counter:
  the edge is there for pickup and `transition()` does not look at the
  fulfilment. `CustodyIsVerified` is about the statuses in between.
- A wallet debit can be refused after the authorisation; the answer is not read,
  and the order is placed as paid. A bad end then credits money that was never
  debited. The wallet itself stays solvent, which is what is proved.
- The assignment dialog strikes out couriers on the order it was opened with; one
  who hands the job back meanwhile can be chosen again.
- The locks at the counter and at the door never open again, neither for a new
  courier nor for a second ride.
- Automatic dispatch always picks the same best courier; if he is refused for
  his cash, the next one is not tried. And the autopilot never says that cash was
  taken at the door (`lib/order-sim.ts:132`, against its header, lines 10–12), so
  a cash delivery stays there. Progress is therefore claimed for prepaid orders
  only.
- The tracker offers a refund on a cash order that failed and was never paid
  (`order-tracking.tsx:345`), which `lib/order-machine.ts:1142` calls "the old
  condition's mistake"; such a request can be neither approved nor refused.

*Sessions.*

- `rotateRefreshToken()` is described as atomic (`repository.js:338`); the token
  is spent before the transaction that mints its successor. A process that dies in
  between leaves a live session that nobody can renew (`cut`).
- A rotation that has spent its token mints the next one even when its session
  was revoked in between (`repository.js:356-369`): a token without a use, for
  `refresh()` refuses it. `DeadSessionsSpendNothing` is about the spending.
- Guesses in flight when the limit is reached are still compared.

*Cart.*

- Two removals of the last two different lines at once leave a live basket with
  nothing in it (`service.js:569`), although "removing the last line discards
  the basket" (lines 559–562).
- Two first adds at once, to different restaurants, leave two live baskets
  (`repository.js:195` speaks of one); an add decided while a basket was live can
  land in its tombstone, and comes back when the row is revived, which
  `reviveCart()` describes "as an empty basket" (`repository.js:246`).
- Two adds at once can pass the limit on distinct lines, as the comment at
  `service.js:459` says; two first adds to one restaurant can collide on the
  unique row, and one of them fails.
- `OneBasketWhenCalm` says exactly when none of the first two happens.

*Windows and payouts.*

- `WindowsAgree` holds because transfers and corrections only accumulate, so no
  text comes back — until the demonstration is reset a second time. Then it fails
  the way `QuietWindowsAgree` does (a correction, a reset, a correction in the
  other window, and a second reset that the other window skips), which is why the
  property is about the first reset.
- A correction entered within the half second before the page is recomputed is
  not in the amount that is paid: the row is asked for the amount, the store for
  the permission (`stores/payouts.ts:256`).
- Two windows can both pay a week before the event between them arrives, against
  "a period is paid at most once" (`stores/payouts.ts:44-47`); each copy holds one
  transfer, and the later write replaces the other's. Any write on a copy that is
  behind can erase a transfer in this way, and its week can then be paid, or
  corrected, again. `crossed` marks the writes after which this is possible, and
  `OnePayoutPerPeriod` says that there is no other way.

*Stock and menus.*

- An opening receipt can be lost (`service.js:1142`): the ledger then starts from
  the count the row was created with. A row driven negative while untracked stays
  negative when tracking is turned on.
- Two promotions at once can leave no default, as can unmarking or deleting it;
  a crash between the write and the clearing leaves two (`torn`). A restaurant
  without one falls back to a name (`availability.js:157`).
- Two edits of one group's options, each legal on what it read, can leave a group
  nobody can satisfy (`calm`).
- A menu given the name of a deleted one fails on the unique index.

Read in the code only: a refresh that fails for any reason clears the cookies;
the lockout counter is read and written in two statements; `reorderSections()`
runs its statements outside the transaction that its comment
(`backend/src/modules/menu/service.js:679`) relies on; an application is always editable by its vendor, and an expired
document does not block approval (`stores/onboarding.ts`); after an approval
whose window is closed between the wallet's key and the orders' key, the wallet
has paid and the order says it is owed.

---

<a name="6-not-modelled"></a>
## 6. Not modelled

- *In the order core*: `delayOrder` (an estimate), `notifyNearby` (a
  notification), top-ups and rewards (they only add to the balance), the seeded
  demo data, `resetDemo` and the migrations of old persisted shapes, the card
  decline limit and held coupons of `lib/risk.ts`. `OrderStore` is one window: the
  second one, and a window closed between two persisted keys, are shown on the
  transfers (`Payouts`) and not on the orders.
- *In the backend modules*: the lockout counter, suspension, expiry, devices, the
  resend window and registration (`AuthSessions`); prices, notes, the merge of a
  guest basket and the checkout quote (`CartServer`); the kind of a movement and
  the branches (`StockLedger`); sections, dishes and their order (`MenuBoard`).
- *In payouts*: rates, fees and rounding, statements and exports, and the orders
  that the demonstration's book synthesises.
- *Whole components*, as `PROJECT.json` says one by one: onboarding,
  remittance and reservations are small records behind a form, whose rules are
  local to one call; the editors, threads and read models hold data that no rule
  of the core reads; user interface, HTTP and error mapping are I/O; the legacy
  backend (`src/backend OLD`) is superseded, its verification scripts and seeds
  included. Together they are by far the larger part of the repository's lines.

---

<a name="7-the-plan"></a>
## 7. The plan

Done: `OrderMachine`, `OrderStore` and its proofs; `OrderAutopilot`; `OrderPromise`, the refinement
and what follows from it, proved; `AuthSessions`, `CartServer`, `StockLedger`,
`MenuBoard` and `Payouts` with theirs; `WindowSync`, which `Payouts` composes;
`StockPromise` and its refinement, proved. Every safety property and every action
property that a passing run checks is a theorem.

What is left, in order of importance:

1. **The order book in two windows**: `OrderStore` behind `WindowSync`, with a
   window closed between the wallet's key and the orders' key. Its one-order
   instance times two copies is near the limit of the model checker; an
   abstraction by `OrderPromise` is the way in.
2. **Contracts of the backend**: what `AuthSessions` promises of one session (it
   is renewed by one link at a time until it ends, and ends once), and what
   `CartServer` promises of one customer while requests do not overlap, as
   abstract specifications, with the refinements proved.
3. **`WindowSync` by itself**: a theorem for any store whose texts never come
   back, of which `WindowsAgreeHolds` would be the instance.
4. **The merge of a guest basket** in `CartServer`, and the sign-in in
   `AuthSessions` that triggers it.
5. **Onboarding**: the two reviews, the documents that block an approval, and the
   approval's effect on dispatch.
6. **Sections** in `MenuBoard`: two reorders that interleave.
7. **Reservations**: table allocation as a pure algorithm, against a reference.
