------------------------------ MODULE CartServer ------------------------------
(***************************************************************************)
(* The basket of one customer in the backend                               *)
(* (backend/src/modules/cart/service.js and repository.js).                *)
(*                                                                         *)
(* Every mutation first reads, with no transaction open, which basket is   *)
(* the live one, decides, and then writes in one transaction.  The client  *)
(* mirrors each change of its basket without waiting for the last, retries *)
(* and has several windows, so mutations overlap.                          *)
(*                                                                         *)
(* Abstracted: a dish with its options is a dish, since a line is one      *)
(* configuration; prices, notes and the version; the inventory, which the  *)
(* cart only reads, is a constant.                                         *)
(***************************************************************************)
EXTENDS Integers, FiniteSets

CONSTANTS
  Reqs,           \* requests in flight at once
  Vendors,        \* restaurants; a customer has one row for each, at most
  Dishes,
  VendorOf,       \* whose dish it is
  Stock,          \* onHand - reserved, of each dish
  MaxQuantity,    \* CART_MAX_LINE_QUANTITY
  MaxLines,       \* CART_MAX_LINES
  NoVendor, NoDish

ASSUME MenuAssumption ==
  /\ VendorOf \in [Dishes -> Vendors]
  /\ Stock \in [Dishes -> Nat]
  /\ NoVendor \notin Vendors /\ NoDish \notin Dishes
ASSUME CapsAssumption == MaxQuantity \in Nat \ {0} /\ MaxLines \in Nat \ {0}

VARIABLES
  basket,         \* the carts table and its cart_items, by restaurant
  older,          \* by updatedAt: <<u, v>> when the row of u is older than that of v
  req,            \* what each request has read
  calm            \* no request has begun so far while another was in flight

vars == <<basket, older, req, calm>>

-----------------------------------------------------------------------------

NoLines == [d \in Dishes |-> 0]
Absent == [state |-> "none", expired |-> FALSE, qty |-> NoLines]

Idle ==
  [ pc |-> "idle", live |-> NoVendor, dish |-> NoDish, quantity |-> 0,
    replace |-> FALSE, slot |-> FALSE, emptied |-> FALSE, carts |-> {} ]

Init ==
  /\ basket = [v \in Vendors |-> Absent]
  /\ older = {}
  /\ req = [r \in Reqs |-> Idle]
  /\ calm = TRUE

At(r, pc) == req[r].pc = pc
Begin(r, locals) ==
  /\ At(r, "idle")
  /\ req' = [req EXCEPT ![r] = locals]
  /\ calm' = (calm /\ \A q \in Reqs : At(q, "idle"))
Done(r) == req' = [req EXCEPT ![r] = Idle] /\ UNCHANGED calm

Lines(b) == {d \in Dishes : b.qty[d] > 0}
Found(v) == basket[v].state = "live" /\ ~basket[v].expired

\* findLiveCart(): of the baskets that are live, the one written last.
IsLatest(v) ==
  Found(v) /\ \A u \in Vendors \ {v} : Found(u) => <<u, v>> \in older

LiveCart ==
  IF \E v \in Vendors : IsLatest(v) THEN CHOOSE v \in Vendors : IsLatest(v) ELSE NoVendor

Touch(v) ==
  older' = {p \in older : p[1] # v} \union {<<u, v>> : u \in Vendors \ {v}}
Touched(b) == [b EXCEPT !.expired = FALSE]
Discarded(b) == [b EXCEPT !.state = "tomb", !.qty = NoLines]

-----------------------------------------------------------------------------
(* addItem().                                                              *)

\* Mutant: the other restaurant's basket is not looked for.
AddReadUnasked(r, d, q, replace) ==
  /\ q \in 1..MaxQuantity
  /\ Begin(r, [Idle EXCEPT !.pc = IF LiveCart = VendorOf[d] THEN "add" ELSE "slot",
                           !.live = LiveCart, !.dish = d, !.quantity = q,
                           !.replace = replace])
  /\ UNCHANGED <<basket, older>>

\* Another restaurant's basket is in the way, unless it may be replaced.
AddRead(r, d, q, replace) ==
  /\ q \in 1..MaxQuantity
  /\ LiveCart \in {NoVendor, VendorOf[d]} \/ replace
  /\ Begin(r, [Idle EXCEPT !.pc = IF LiveCart = VendorOf[d] THEN "add" ELSE "slot",
                           !.live = LiveCart, !.dish = d, !.quantity = q,
                           !.replace = replace])
  /\ UNCHANGED <<basket, older>>

\* ensureCart() looks for the row outside the transaction.
AddSlot(r) ==
  /\ At(r, "slot")
  /\ req' = [req EXCEPT ![r].pc = "add",
                        ![r].slot = basket[VendorOf[req[r].dish]].state # "none"]
  /\ UNCHANGED <<basket, older, calm>>

Replaces(r) == req[r].live \notin {NoVendor, VendorOf[req[r].dish]}

\* The row the dish goes into: the live one, whatever has become of it since,
\* or the restaurant's own, revived with what it holds.
Target(r) ==
  LET b == basket[VendorOf[req[r].dish]]
  IN  IF req[r].live = VendorOf[req[r].dish] THEN b
      ELSE [Touched(b) EXCEPT !.state = "live"]

\* The insert of a row that has appeared since.
Collides(r) ==
  /\ req[r].live # VendorOf[req[r].dish]
  /\ ~req[r].slot
  /\ basket[VendorOf[req[r].dish]].state # "none"

\* Mutant: what the line held when the request was read decides.
RefusedBefore(r) ==
  LET b == Target(r)
      d == req[r].dish
  IN  \/ b.qty[d] = 0 /\ Cardinality(Lines(b)) >= MaxLines
      \/ req[r].quantity > MaxQuantity
      \/ req[r].quantity > Stock[d]

\* Counted before the line is written, its quantity checked after.
Refused(r) ==
  LET b == Target(r)
      d == req[r].dish
      now == b.qty[d] + req[r].quantity
  IN  \/ b.qty[d] = 0 /\ Cardinality(Lines(b)) >= MaxLines
      \/ now > MaxQuantity
      \/ now > Stock[d]

\* Mutant: the dish goes into whatever basket was live.
AddedToTheLive(r) ==
  LET v == IF req[r].live = NoVendor THEN VendorOf[req[r].dish] ELSE req[r].live
  IN  [basket EXCEPT ![v] = [Touched(@) EXCEPT !.state = "live",
                                               !.qty[req[r].dish] = @ + req[r].quantity]]

\* The transaction: the other basket goes, the row is there, the line is in it.
Added(r) ==
  LET v == VendorOf[req[r].dish]
  IN  [u \in Vendors |->
        IF u = v THEN [Touched(Target(r)) EXCEPT !.qty[req[r].dish] = @ + req[r].quantity]
        ELSE IF u = req[r].live THEN Discarded(basket[u])
        ELSE basket[u]]

\* Mutant: the other basket is discarded before the transaction.
AddCommitDiscardFirst(r) ==
  /\ At(r, "add")
  /\ IF Collides(r) \/ Refused(r)
       THEN /\ basket' = [u \in Vendors |->
                 IF Replaces(r) /\ u = req[r].live THEN Discarded(basket[u]) ELSE basket[u]]
            /\ UNCHANGED older
       ELSE basket' = Added(r) /\ Touch(VendorOf[req[r].dish])
  /\ Done(r)

AddCommit(r) ==
  /\ At(r, "add")
  /\ IF Collides(r) \/ Refused(r)
       THEN UNCHANGED <<basket, older>>
       ELSE basket' = Added(r) /\ Touch(VendorOf[req[r].dish])
  /\ Done(r)

-----------------------------------------------------------------------------
(* updateQuantity(): raising answers to the stock, lowering does not.      *)

SetRead(r, d, q) ==
  /\ q \in 1..MaxQuantity
  /\ LiveCart # NoVendor
  /\ LET held == basket[LiveCart].qty[d]
     IN  held > 0 /\ (q > held => q <= Stock[d])
  /\ Begin(r, [Idle EXCEPT !.pc = "set", !.live = LiveCart, !.dish = d, !.quantity = q])
  /\ UNCHANGED <<basket, older>>

\* The line may have left the basket since: nothing matches, nothing is set.
SetCommit(r) ==
  /\ At(r, "set")
  /\ LET v == req[r].live
         d == req[r].dish
     IN  IF basket[v].qty[d] = 0
           THEN UNCHANGED <<basket, older>>
           ELSE /\ basket' = [basket EXCEPT ![v] =
                     [Touched(@) EXCEPT !.qty[d] = req[r].quantity]]
                /\ Touch(v)
  /\ Done(r)

-----------------------------------------------------------------------------
(* removeItem() and clearCart().                                           *)

RemoveRead(r, d) ==
  /\ LiveCart # NoVendor
  /\ Begin(r, [Idle EXCEPT !.pc = "remove", !.live = LiveCart, !.dish = d,
                           !.emptied = (Lines(basket[LiveCart]) \ {d} = {})])
  /\ UNCHANGED <<basket, older>>

\* Mutant: the last line goes and the basket stays.
RemoveOnly(r) ==
  /\ At(r, "remove")
  /\ LET v == req[r].live
     IN  /\ basket' = [basket EXCEPT ![v] = [Touched(@) EXCEPT !.qty[req[r].dish] = 0]]
         /\ Touch(v)
  /\ Done(r)

\* Whether it was the last line was read before.
RemoveCommit(r) ==
  /\ At(r, "remove")
  /\ LET v == req[r].live
     IN  /\ basket' = [basket EXCEPT ![v] =
              IF req[r].emptied THEN Discarded(@)
              ELSE [Touched(@) EXCEPT !.qty[req[r].dish] = 0]]
         /\ Touch(v)
  /\ Done(r)

\* Every basket that is not discarded, the expired ones too.
ClearRead(r) ==
  LET carts == {v \in Vendors : basket[v].state = "live"}
  IN  /\ carts # {}
      /\ Begin(r, [Idle EXCEPT !.pc = "clear", !.carts = carts])
      /\ UNCHANGED <<basket, older>>

ClearCommit(r) ==
  /\ At(r, "clear")
  /\ basket' = [v \in Vendors |->
       IF v \in req[r].carts THEN Discarded(basket[v]) ELSE basket[v]]
  /\ UNCHANGED older
  /\ Done(r)

-----------------------------------------------------------------------------

\* CART_TTL passes.
Expire(v) ==
  /\ Found(v)
  /\ basket' = [basket EXCEPT ![v].expired = TRUE]
  /\ UNCHANGED <<older, req, calm>>

\* The process dies, or the transaction fails: nothing of it remains.
Fail(r) ==
  /\ ~At(r, "idle")
  /\ Done(r)
  /\ UNCHANGED <<basket, older>>

Next ==
  \/ \E r \in Reqs :
       \/ \E d \in Dishes, q \in 1..MaxQuantity, replace \in BOOLEAN : AddRead(r, d, q, replace)
       \/ \E d \in Dishes, q \in 1..MaxQuantity : SetRead(r, d, q)
       \/ \E d \in Dishes : RemoveRead(r, d)
       \/ AddSlot(r) \/ AddCommit(r) \/ SetCommit(r) \/ RemoveCommit(r)
       \/ ClearRead(r) \/ ClearCommit(r) \/ Fail(r)
  \/ \E v \in Vendors : Expire(v)

Spec == Init /\ [][Next]_vars

-----------------------------------------------------------------------------
(* Properties.                                                             *)

\* Rows and requests are of their kind, and a line is in the basket of the
\* restaurant that cooks it: no basket holds the dishes of two restaurants
\* (orders.prisma, "single-vendor by construction").
TypeOK ==
  /\ basket \in [Vendors -> [state : {"none", "live", "tomb"}, expired : BOOLEAN,
                             qty : [Dishes -> Nat]]]
  /\ older \subseteq Vendors \X Vendors
  /\ calm \in BOOLEAN
  /\ req \in [Reqs ->
       [pc : {"idle", "slot", "add", "set", "remove", "clear"},
        live : Vendors \union {NoVendor}, dish : Dishes \union {NoDish},
        quantity : 0..MaxQuantity, replace : BOOLEAN, slot : BOOLEAN,
        emptied : BOOLEAN, carts : SUBSET Vendors]]
  /\ \A v \in Vendors, d \in Dishes : basket[v].qty[d] > 0 => VendorOf[d] = v

\* However adds and updates overlap, no line exceeds what one line may hold or
\* what there is to sell (addItem() checks after the increment, updateQuantity()
\* before the write).
LinesWithinCaps ==
  \A v \in Vendors, d \in Dishes :
    basket[v].qty[d] <= MaxQuantity /\ basket[v].qty[d] <= Stock[d]

\* No add takes a line from another restaurant's basket unless the customer
\* agreed to have that basket replaced.
ConflictNeedsConsent ==
  [][\A r \in Reqs :
       At(r, "add") /\ ~At(r, "add")' /\ ~req[r].replace =>
         \A v \in Vendors \ {VendorOf[req[r].dish]} : basket'[v] = basket[v]]_vars

\* An add is all or nothing: the basket that it was to replace is still there
\* when the dish could not be added after all.
AddIsAllOrNothing ==
  [][\A r \in Reqs :
       At(r, "add") /\ ~At(r, "add")' =>
         \/ UNCHANGED basket
         \/ basket'[VendorOf[req[r].dish]].qty[req[r].dish] > 0]_vars

\* As long as no two requests have overlapped, the customer has at most one live
\* basket, it has something in it, and a discarded one is empty; with overlaps
\* each of the three fails.
OneBasketWhenCalm ==
  calm =>
    /\ \A u, v \in Vendors : Found(u) /\ Found(v) => u = v
    /\ \A v \in Vendors : basket[v].state = "live" <=> Lines(basket[v]) # {}
=============================================================================
