-------------------------- MODULE CartServer_proofs --------------------------
(***************************************************************************)
(* Proofs about CartServer, for any number of restaurants, dishes and      *)
(* requests that overlap: one basket holds one restaurant's dishes, no     *)
(* line passes its caps, an add that was not allowed to replace touches no *)
(* other basket and one that fails changes none.                           *)
(*                                                                         *)
(* IInv is what every interleaving keeps.  CalmInv rests on it and says    *)
(* what holds until two requests have overlapped: what the one in flight   *)
(* has read is still so when it writes.                                    *)
(***************************************************************************)
EXTENDS CartServer, TLAPS

Row == [state : {"none", "live", "tomb"}, expired : BOOLEAN, qty : [Dishes -> Nat]]

\* A row of restaurant v: its own dishes, each within the caps.
GoodRow(v, b) ==
  /\ b \in Row
  /\ \A d \in Dishes :
       /\ b.qty[d] > 0 => VendorOf[d] = v
       /\ b.qty[d] <= MaxQuantity /\ b.qty[d] <= Stock[d]

Request ==
  [pc : {"idle", "slot", "add", "set", "remove", "clear"},
   live : Vendors \union {NoVendor}, dish : Dishes \union {NoDish},
   quantity : 0..MaxQuantity, replace : BOOLEAN, slot : BOOLEAN,
   emptied : BOOLEAN, carts : SUBSET Vendors]

\* What a request that is under way goes on with.
GoodRequest(q) ==
  /\ q \in Request
  /\ q.pc \in {"slot", "add", "set", "remove"} => q.dish \in Dishes
  /\ q.pc \in {"set", "remove"} => q.live \in Vendors
  /\ q.pc = "set" => VendorOf[q.dish] = q.live /\ q.quantity <= Stock[q.dish]
  /\ q.pc \in {"slot", "add", "set"} => q.quantity > 0
  /\ q.pc \in {"slot", "add"} /\ ~q.replace => q.live \in {NoVendor, VendorOf[q.dish]}

IInv ==
  /\ basket \in [Vendors -> Row]
  /\ \A v \in Vendors : GoodRow(v, basket[v])
  /\ older \subseteq Vendors \X Vendors
  /\ calm \in BOOLEAN
  /\ req \in [Reqs -> Request]
  /\ \A r \in Reqs : GoodRequest(req[r])

-----------------------------------------------------------------------------
(* Rows.                                                                   *)

LEMMA LiveCartType == LiveCart \in Vendors \union {NoVendor}
<1>1. CASE \E v \in Vendors : IsLatest(v)
  BY <1>1 DEF LiveCart
<1>2. CASE ~\E v \in Vendors : IsLatest(v)
  BY <1>2 DEF LiveCart
<1> QED BY <1>1, <1>2

\* A discarded row holds nothing.
LEMMA DiscardedIsGood ==
  ASSUME NEW v \in Vendors, NEW b, GoodRow(v, b)
  PROVE  GoodRow(v, Discarded(b))
<1> DEFINE t == Discarded(b)
<1>1. b \in Row
  BY DEF GoodRow
<1>2. t.qty = NoLines
  BY <1>1 DEF Discarded, Row
<1>3. NoLines \in [Dishes -> Nat] /\ \A d \in Dishes : NoLines[d] = 0
  BY DEF NoLines
<1>4. t \in Row
  BY <1>1, <1>3 DEF Row, Discarded
<1>5. \A d \in Dishes : t.qty[d] = 0
  BY <1>2, <1>3
<1>6. \A d \in Dishes : 0 <= MaxQuantity /\ 0 <= Stock[d] /\ ~(0 > 0)
  BY MenuAssumption, CapsAssumption
<1> HIDE DEF t
<1>7. GoodRow(v, t)
  BY <1>4, <1>5, <1>6 DEF GoodRow
<1> QED BY <1>7 DEF t

\* A row stays good when a line takes a quantity within its caps.
LEMMA LineIsGood ==
  ASSUME NEW v \in Vendors, NEW b, GoodRow(v, b), NEW d \in Dishes, NEW n \in Nat,
         n > 0 => VendorOf[d] = v, n <= MaxQuantity, n <= Stock[d]
  PROVE  GoodRow(v, [Touched(b) EXCEPT !.qty[d] = n])
BY MenuAssumption, CapsAssumption DEF GoodRow, Row, Touched

\* A step that writes good rows only and goes on with good requests.
LEMMA StepKeeps ==
  ASSUME basket' \in [Vendors -> Row], \A v \in Vendors : GoodRow(v, basket'[v]),
         older' \subseteq Vendors \X Vendors, calm' \in BOOLEAN,
         req' \in [Reqs -> Request], \A r \in Reqs : GoodRequest(req'[r])
  PROVE  IInv'
BY DEF IInv

LEMMA IdleType == Idle \in Request
BY CapsAssumption DEF Idle, Request

\* A request begins.
LEMMA BeginKeeps ==
  ASSUME IInv, NEW r \in Reqs, NEW q, GoodRequest(q), Begin(r, q), UNCHANGED <<basket, older>>
  PROVE  IInv'
<1>1. req' = [req EXCEPT ![r] = q] /\ calm' \in BOOLEAN
  BY DEF Begin, IInv
<1> QED BY <1>1 DEF IInv, GoodRequest

\* A request ends with the write of good rows.
LEMMA DoneKeeps ==
  ASSUME IInv, NEW r \in Reqs, Done(r), older' \subseteq Vendors \X Vendors,
         basket' \in [Vendors -> Row], \A v \in Vendors : GoodRow(v, basket'[v])
  PROVE  IInv'
<1>1. GoodRequest(Idle)
  BY CapsAssumption DEF GoodRequest, Request, Idle
<1>2. req' = [req EXCEPT ![r] = Idle] /\ calm' = calm
  BY DEF Done
<1> QED BY <1>1, <1>2 DEF IInv, GoodRequest

LEMMA TouchType ==
  ASSUME IInv, NEW v \in Vendors, Touch(v)
  PROVE  older' \subseteq Vendors \X Vendors
BY DEF IInv, Touch

-----------------------------------------------------------------------------
(* The writes.                                                             *)

LEMMA AddKeeps == ASSUME IInv, NEW r \in Reqs, AddCommit(r) PROVE IInv'
<1> DEFINE d == req[r].dish
           v == VendorOf[d]
           b == Target(r)
           n == b.qty[d] + req[r].quantity
<1>1. d \in Dishes /\ v \in Vendors /\ req[r].quantity \in Nat /\ GoodRow(v, basket[v])
      /\ MaxQuantity \in Nat /\ Stock[d] \in Nat
  BY MenuAssumption, CapsAssumption DEF IInv, GoodRequest, Request, AddCommit, At
<1>2. GoodRow(v, b)
  BY <1>1 DEF Target, Touched, GoodRow, Row
<1>3. CASE Collides(r) \/ Refused(r)
  BY <1>3, DoneKeeps DEF AddCommit, IInv
<1>4. CASE ~(Collides(r) \/ Refused(r))
  <2>1. n \in Nat /\ n <= MaxQuantity /\ n <= Stock[d]
    BY <1>1, <1>2, <1>4 DEF Refused, GoodRow, Row
  <2>2. GoodRow(v, [Touched(b) EXCEPT !.qty[d] = n])
    <3> HIDE DEF b, d, v, n
    <3>1. v = VendorOf[d] BY DEF v
    <3> QED BY <1>1, <1>2, <2>1, <3>1, LineIsGood
  <2>3. basket' = Added(r) /\ Touch(v) /\ Done(r)
    BY <1>4 DEF AddCommit
  <2>4. ASSUME NEW u \in Vendors PROVE GoodRow(u, basket'[u])
    <3>1. CASE u = v
      <4>1. basket'[u] = [Touched(b) EXCEPT !.qty[d] = n]
        BY <2>3, <3>1, <1>2 DEF Added, Touched, GoodRow, Row
      <4> QED BY <2>2, <3>1, <4>1
    <3>2. CASE u # v
      BY <2>3, <3>2, DiscardedIsGood DEF Added, IInv
    <3> QED BY <3>1, <3>2
  <2>5. basket' \in [Vendors -> Row]
    <3>1. \A u \in Vendors : basket'[u] \in Row BY <2>4 DEF GoodRow
    <3>2. basket' = [u \in Vendors |-> basket'[u]] BY <2>3 DEF Added
    <3> QED BY <3>1, <3>2
  <2> QED BY <1>1, <2>3, <2>4, <2>5, TouchType, DoneKeeps
<1> QED BY <1>3, <1>4

LEMMA SetKeeps == ASSUME IInv, NEW r \in Reqs, SetCommit(r) PROVE IInv'
<1> DEFINE v == req[r].live
           d == req[r].dish
           n == req[r].quantity
<1>1. d \in Dishes /\ v \in Vendors /\ n \in Nat /\ GoodRow(v, basket[v])
      /\ VendorOf[d] = v /\ n <= MaxQuantity /\ n <= Stock[d]
  BY CapsAssumption DEF IInv, GoodRequest, Request, SetCommit, At
<1>2. CASE basket[v].qty[d] = 0
  BY <1>2, DoneKeeps DEF SetCommit, IInv
<1>3. CASE basket[v].qty[d] # 0
  <2>1. basket' = [basket EXCEPT ![v] = [Touched(basket[v]) EXCEPT !.qty[d] = n]]
        /\ Touch(v) /\ Done(r)
    BY <1>3 DEF SetCommit
  <2>2. GoodRow(v, [Touched(basket[v]) EXCEPT !.qty[d] = n])
    BY <1>1, LineIsGood
  <2>3. ASSUME NEW u \in Vendors PROVE GoodRow(u, basket'[u])
    BY <2>1, <2>2 DEF IInv
  <2>4. basket' \in [Vendors -> Row]
    BY <2>1, <2>2 DEF IInv, GoodRow
  <2> QED BY <1>1, <2>1, <2>3, <2>4, TouchType, DoneKeeps
<1> QED BY <1>2, <1>3

LEMMA RemoveKeeps == ASSUME IInv, NEW r \in Reqs, RemoveCommit(r) PROVE IInv'
<1> DEFINE v == req[r].live
           d == req[r].dish
           row == IF req[r].emptied THEN Discarded(basket[v])
                  ELSE [Touched(basket[v]) EXCEPT !.qty[d] = 0]
<1>1. d \in Dishes /\ v \in Vendors /\ GoodRow(v, basket[v])
      /\ 0 <= MaxQuantity /\ 0 <= Stock[d]
  BY MenuAssumption, CapsAssumption DEF IInv, GoodRequest, RemoveCommit, At
<1>2. GoodRow(v, row)
  BY <1>1, DiscardedIsGood, LineIsGood
<1>3. basket' = [basket EXCEPT ![v] = row] /\ Touch(v) /\ Done(r)
  BY DEF RemoveCommit
<1>4. ASSUME NEW u \in Vendors PROVE GoodRow(u, basket'[u])
  BY <1>2, <1>3 DEF IInv
<1>5. basket' \in [Vendors -> Row]
  BY <1>2, <1>3 DEF IInv, GoodRow
<1> QED BY <1>1, <1>3, <1>4, <1>5, TouchType, DoneKeeps

LEMMA ClearKeeps == ASSUME IInv, NEW r \in Reqs, ClearCommit(r) PROVE IInv'
<1>1. ASSUME NEW u \in Vendors PROVE GoodRow(u, basket'[u])
  BY DiscardedIsGood DEF ClearCommit, IInv
<1>2. basket' \in [Vendors -> Row]
  <2>1. basket' = [u \in Vendors |-> basket'[u]] BY DEF ClearCommit
  <2> QED BY <1>1, <2>1 DEF GoodRow
<1> QED BY <1>1, <1>2, DoneKeeps DEF ClearCommit, IInv

-----------------------------------------------------------------------------

LEMMA Initially == Init => IInv
BY MenuAssumption, CapsAssumption
DEF Init, IInv, GoodRow, Row, Absent, NoLines, GoodRequest, Request, Idle

LEMMA Stepwise == IInv /\ [Next]_vars => IInv'
<1> SUFFICES ASSUME IInv, [Next]_vars PROVE IInv'
  OBVIOUS
<1>1. ASSUME NEW r \in Reqs, NEW d \in Dishes, NEW q \in 1..MaxQuantity,
             NEW replace \in BOOLEAN, AddRead(r, d, q, replace)
      PROVE  IInv'
  <2> PICK n : n = [Idle EXCEPT !.pc = IF LiveCart = VendorOf[d] THEN "add" ELSE "slot",
                                !.live = LiveCart, !.dish = d, !.quantity = q,
                                !.replace = replace]
    OBVIOUS
  <2>1. n = [pc |-> IF LiveCart = VendorOf[d] THEN "add" ELSE "slot",
             live |-> LiveCart, dish |-> d, quantity |-> q, replace |-> replace,
             slot |-> FALSE, emptied |-> FALSE, carts |-> {}]
    BY DEF Idle
  <2>2. q \in 0..MaxQuantity
    BY CapsAssumption
  <2>3. n \in Request
    BY <2>2, LiveCartType, IdleType DEF Request
  <2>4. GoodRequest(n)
    <3>1. LiveCart \in {NoVendor, VendorOf[d]} \/ replace
      BY <1>1 DEF AddRead
    <3> QED BY <2>1, <2>3, <3>1, CapsAssumption DEF GoodRequest
  <2> QED BY <1>1, <2>4, BeginKeeps DEF AddRead
<1>2. ASSUME NEW r \in Reqs, NEW d \in Dishes, NEW q \in 1..MaxQuantity, SetRead(r, d, q)
      PROVE  IInv'
  <2> PICK n : n = [Idle EXCEPT !.pc = "set", !.live = LiveCart, !.dish = d, !.quantity = q]
    OBVIOUS
  <2>1. LiveCart \in Vendors
    BY <1>2, LiveCartType DEF SetRead
  <2>2. VendorOf[d] = LiveCart /\ q <= Stock[d]
    <3>1. GoodRow(LiveCart, basket[LiveCart])
      BY <2>1 DEF IInv
    <3>2. basket[LiveCart].qty[d] > 0 /\ (q > basket[LiveCart].qty[d] => q <= Stock[d])
      BY <1>2 DEF SetRead
    <3>3. Stock[d] \in Nat /\ basket[LiveCart].qty[d] \in Nat /\ q \in Nat
      BY <3>1, MenuAssumption, CapsAssumption DEF GoodRow, Row
    <3> QED BY <3>1, <3>2, <3>3 DEF GoodRow
  <2>3. n = [pc |-> "set", live |-> LiveCart, dish |-> d, quantity |-> q,
             replace |-> FALSE, slot |-> FALSE, emptied |-> FALSE, carts |-> {}]
    BY DEF Idle
  <2>4. q \in 0..MaxQuantity
    BY CapsAssumption
  <2>5. n \in Request
    BY <2>1, <2>4, IdleType DEF Request
  <2>6. GoodRequest(n)
    BY <2>1, <2>2, <2>3, <2>5, CapsAssumption DEF GoodRequest
  <2> QED BY <1>2, <2>6, BeginKeeps DEF SetRead
<1>3. ASSUME NEW r \in Reqs, NEW d \in Dishes, RemoveRead(r, d)
      PROVE  IInv'
  <2> PICK n : n = [Idle EXCEPT !.pc = "remove", !.live = LiveCart, !.dish = d,
                                !.emptied = (Lines(basket[LiveCart]) \ {d} = {})]
    OBVIOUS
  <2>1. n = [pc |-> "remove", live |-> LiveCart, dish |-> d, quantity |-> 0,
             replace |-> FALSE, slot |-> FALSE,
             emptied |-> (Lines(basket[LiveCart]) \ {d} = {}), carts |-> {}]
    BY DEF Idle
  <2>2. 0 \in 0..MaxQuantity /\ (Lines(basket[LiveCart]) \ {d} = {}) \in BOOLEAN
    BY CapsAssumption
  <2>3. LiveCart \in Vendors
    BY <1>3, LiveCartType DEF RemoveRead
  <2>4. n \in Request
    BY <2>2, <2>3, IdleType DEF Request
  <2>5. GoodRequest(n)
    BY <2>1, <2>3, <2>4 DEF GoodRequest
  <2> QED BY <1>3, <2>5, BeginKeeps DEF RemoveRead
<1>4. ASSUME NEW r \in Reqs, AddSlot(r) PROVE IInv'
  <2> PICK n : n = [req[r] EXCEPT !.pc = "add",
                                  !.slot = basket[VendorOf[req[r].dish]].state # "none"]
    OBVIOUS
  <2>1. GoodRequest(n)
    BY <1>4 DEF AddSlot, At, IInv, GoodRequest, Request
  <2>2. req' = [req EXCEPT ![r] = n]
    BY <1>4 DEF AddSlot, IInv, Request
  <2>3. n \in Request /\ req' \in [Reqs -> Request]
    BY <2>1, <2>2 DEF GoodRequest, IInv
  <2>4. \A x \in Reqs : GoodRequest(req'[x])
    <3> HIDE DEF GoodRequest
    <3>1. \A x \in Reqs : req'[x] = IF x = r THEN n ELSE req[x]
      BY <2>2 DEF IInv
    <3> QED BY <2>1, <3>1 DEF IInv
  <2>5. UNCHANGED <<basket, older, calm>>
    BY <1>4 DEF AddSlot
  <2> QED BY <2>3, <2>4, <2>5 DEF IInv, GoodRow
<1>5. ASSUME NEW r \in Reqs, ClearRead(r) PROVE IInv'
  <2> PICK n : n = [Idle EXCEPT !.pc = "clear",
                                !.carts = {v \in Vendors : basket[v].state = "live"}]
    OBVIOUS
  <2>1. n = [pc |-> "clear", live |-> NoVendor, dish |-> NoDish, quantity |-> 0,
             replace |-> FALSE, slot |-> FALSE, emptied |-> FALSE,
             carts |-> {v \in Vendors : basket[v].state = "live"}]
    BY DEF Idle
  <2>2. 0 \in 0..MaxQuantity
    BY CapsAssumption
  <2>3. n \in Request
    BY IdleType DEF Request
  <2>4. GoodRequest(n)
    BY <2>1, <2>3 DEF GoodRequest
  <2> QED BY <1>5, <2>4, BeginKeeps DEF ClearRead
<1>6. ASSUME NEW r \in Reqs, Fail(r) PROVE IInv'
  BY <1>6, DoneKeeps DEF Fail, IInv
<1>7. ASSUME NEW v \in Vendors, Expire(v) PROVE IInv'
  <2>1. \A u \in Vendors : GoodRow(u, basket'[u])
    BY <1>7 DEF Expire, IInv, GoodRow, Row
  <2> QED BY <1>7, <2>1 DEF Expire, IInv, GoodRow
<1>8. CASE UNCHANGED vars
  BY <1>8 DEF vars, IInv
<1> QED
  BY <1>1, <1>2, <1>3, <1>4, <1>5, <1>6, <1>7, <1>8,
     AddKeeps, SetKeeps, RemoveKeeps, ClearKeeps DEF Next

\* Every reachable state satisfies the inductive invariant.
THEOREM Invariance == Spec => []IInv
BY Initially, Stepwise, PTL DEF Spec

\* Rows and requests are of their kind, and a basket holds its own restaurant's
\* dishes only (ensureCart(), addItem()).
THEOREM TypeCorrect == Spec => []TypeOK
<1>1. IInv => TypeOK
  BY DEF IInv, TypeOK, GoodRow, Row, Request
<1> QED BY <1>1, Invariance, PTL

\* No line passes the cap of a line or the stock (addItem(), updateQuantity()).
THEOREM LinesWithinCapsHolds == Spec => []LinesWithinCaps
<1>1. IInv => LinesWithinCaps
  BY DEF IInv, LinesWithinCaps, GoodRow
<1> QED BY <1>1, Invariance, PTL

-----------------------------------------------------------------------------
(* What an add may do.                                                     *)

\* A request leaves its `add` by its own commit or by failing: no step of
\* another request moves it.
LEMMA AddEnds ==
  ASSUME IInv, [Next]_vars, NEW r \in Reqs, At(r, "add"), ~At(r, "add")'
  PROVE  AddCommit(r) \/ UNCHANGED basket
<1>0. req \in [Reqs -> Request] /\ req[r].pc = "add" /\ req'[r].pc # "add"
  BY DEF IInv, At
<1>1. ASSUME NEW s \in Reqs, s # r, req'[r] # req[r]
      PROVE  /\ \A locals : ~Begin(s, locals)
             /\ ~Done(s) /\ ~AddSlot(s)
  BY <1>0, <1>1 DEF Begin, Done, AddSlot
<1>2. ASSUME NEW s \in Reqs, NEW locals, Begin(s, locals) PROVE FALSE
  <2>1. CASE s = r BY <1>0, <1>2, <2>1 DEF Begin, At
  <2>2. CASE s # r BY <1>0, <1>1, <1>2, <2>2
  <2> QED BY <2>1, <2>2
<1>3. ASSUME NEW s \in Reqs, Done(s) PROVE s = r
  BY <1>0, <1>1, <1>3
<1>4. ASSUME NEW s \in Reqs, AddSlot(s) PROVE UNCHANGED basket
  BY <1>4 DEF AddSlot
<1>5. ASSUME NEW s \in Reqs, SetCommit(s) \/ RemoveCommit(s) \/ ClearCommit(s)
      PROVE  FALSE
  BY <1>0, <1>3, <1>5 DEF SetCommit, RemoveCommit, ClearCommit, At
<1>6. ASSUME NEW s \in Reqs, AddCommit(s) PROVE AddCommit(r)
  BY <1>3, <1>6 DEF AddCommit
<1>7. ASSUME NEW s \in Reqs, Fail(s) PROVE UNCHANGED basket
  BY <1>7 DEF Fail
<1>8. ASSUME NEW v \in Vendors, Expire(v) PROVE FALSE
  BY <1>0, <1>8 DEF Expire
<1>9. CASE UNCHANGED vars
  BY <1>9 DEF vars
<1> QED BY <1>2, <1>4, <1>5, <1>6, <1>7, <1>8, <1>9
        DEF Next, AddRead, SetRead, RemoveRead, ClearRead

\* However requests overlap, an add that was not allowed to replace touches no
\* other restaurant's basket: it was let through because none was in the way,
\* and what it discards is what it read (addItem(), "CART_VENDOR_CONFLICT").
THEOREM ConsentHolds == Spec => ConflictNeedsConsent
<1>1. IInv /\ [Next]_vars =>
        \A r \in Reqs :
          At(r, "add") /\ ~At(r, "add")' /\ ~req[r].replace =>
            \A v \in Vendors \ {VendorOf[req[r].dish]} : basket'[v] = basket[v]
  <2> SUFFICES ASSUME IInv, [Next]_vars, NEW r \in Reqs,
                      At(r, "add"), ~At(r, "add")', ~req[r].replace,
                      NEW v \in Vendors \ {VendorOf[req[r].dish]}
               PROVE  basket'[v] = basket[v]
    OBVIOUS
  <2>1. req[r].live \in {NoVendor, VendorOf[req[r].dish]}
    BY DEF IInv, GoodRequest, At
  <2>2. AddCommit(r) \/ UNCHANGED basket
    BY AddEnds
  <2> QED BY <2>1, <2>2, MenuAssumption DEF AddCommit, Added
<1> QED BY <1>1, Invariance, PTL DEF Spec, ConflictNeedsConsent

\* An add that ends without its dish in the basket has changed no basket: the
\* one it was to replace is discarded by the same transaction (addItem()).
THEOREM AllOrNothingHolds == Spec => AddIsAllOrNothing
<1>1. IInv /\ [Next]_vars =>
        \A r \in Reqs :
          At(r, "add") /\ ~At(r, "add")' =>
            \/ UNCHANGED basket
            \/ basket'[VendorOf[req[r].dish]].qty[req[r].dish] > 0
  <2> SUFFICES ASSUME IInv, [Next]_vars, NEW r \in Reqs, At(r, "add"), ~At(r, "add")',
                      ~UNCHANGED basket
               PROVE  basket'[VendorOf[req[r].dish]].qty[req[r].dish] > 0
    OBVIOUS
  <2> DEFINE d == req[r].dish
             v == VendorOf[d]
             b == Target(r)
  <2>1. basket' = Added(r)
    BY AddEnds DEF AddCommit
  <2>2. /\ d \in Dishes /\ v \in Vendors /\ basket[v] \in Row
        /\ req[r].quantity \in Nat /\ req[r].quantity > 0
    BY MenuAssumption, CapsAssumption DEF IInv, GoodRequest, Request, At
  <2>3. b \in Row
    BY <2>2 DEF Target, Touched, Row
  <2>4. basket'[v].qty[d] = b.qty[d] + req[r].quantity
    BY <2>1, <2>2, <2>3 DEF Added, Touched, Row
  <2> QED BY <2>2, <2>3, <2>4 DEF Row
<1> QED BY <1>1, Invariance, PTL DEF Spec, AddIsAllOrNothing

-----------------------------------------------------------------------------
(* As long as no two requests overlap.                                     *)

\* What a request read is still so when it writes.
Fresh(q) ==
  /\ q.pc \in {"slot", "add", "set", "remove"} => \A v \in Vendors : Found(v) => v = q.live
  /\ q.pc \in {"slot", "add"} /\ q.live \in Vendors => basket[q.live].state = "live"
  /\ q.pc = "remove" =>
       /\ basket[q.live].state = "live"
       /\ q.emptied = (Lines(basket[q.live]) \ {q.dish} = {})

OneFound == \A u, v \in Vendors : Found(u) /\ Found(v) => u = v

LiveHolds == \A v \in Vendors : basket[v].state = "live" <=> Lines(basket[v]) # {}

CalmInv ==
  calm =>
    /\ \A r, s \in Reqs : ~At(r, "idle") /\ ~At(s, "idle") => r = s
    /\ \A r \in Reqs : Fresh(req[r])
    /\ OneFound
    /\ LiveHolds

\* The live basket is found, and with one basket found it is that one.
LEMMA TheLiveOne ==
  /\ LiveCart \in Vendors => Found(LiveCart)
  /\ OneFound => \A v \in Vendors : Found(v) => v = LiveCart
<1>1. \A v \in Vendors : IsLatest(v) => Found(v)
  BY DEF IsLatest
<1>2. LiveCart \in Vendors => \E v \in Vendors : IsLatest(v)
  BY MenuAssumption DEF LiveCart
<1>3. (\E v \in Vendors : IsLatest(v)) => LiveCart \in Vendors /\ IsLatest(LiveCart)
  BY DEF LiveCart
<1>4. OneFound => \A v \in Vendors : Found(v) => IsLatest(v)
  BY DEF OneFound, IsLatest
<1> QED BY <1>1, <1>2, <1>3, <1>4 DEF OneFound

\* A request that begins while none is in flight reads what holds.
LEMMA BeginCalm ==
  ASSUME IInv, CalmInv, NEW r \in Reqs, NEW q, Begin(r, q), UNCHANGED <<basket, older>>,
         calm => Fresh(q)
  PROVE  CalmInv'
<1> SUFFICES ASSUME calm' PROVE CalmInv'
  BY DEF CalmInv
<1>1. calm /\ \A s \in Reqs : At(s, "idle")
  BY DEF Begin
<1>2. req' = [req EXCEPT ![r] = q] /\ req \in [Reqs -> Request]
  BY DEF Begin, IInv
<1>3. \A s \in Reqs : ~At(s, "idle")' => s = r
  BY <1>1, <1>2 DEF At
<1>4. OneFound' /\ LiveHolds'
  BY <1>1 DEF CalmInv, OneFound, LiveHolds, Found, Lines
<1>5. ASSUME NEW s \in Reqs PROVE Fresh(req[s])'
  <2>1. CASE s = r
    <3>1. Fresh(q)'
      BY <1>1 DEF Fresh, Found, Lines
    <3> QED BY <1>2, <2>1, <3>1 DEF Fresh, Found, Lines
  <2>2. CASE s # r
    BY <1>3, <2>2 DEF Fresh, At
  <2> QED BY <2>1, <2>2
<1> QED BY <1>3, <1>4, <1>5 DEF CalmInv

\* A request that ends leaves none in flight.
LEMMA DoneCalm ==
  ASSUME IInv, CalmInv, NEW r \in Reqs, ~At(r, "idle"), Done(r),
         calm => OneFound' /\ LiveHolds'
  PROVE  CalmInv'
<1> SUFFICES ASSUME calm' PROVE CalmInv'
  BY DEF CalmInv
<1>1. calm /\ req' = [req EXCEPT ![r] = Idle] /\ req \in [Reqs -> Request]
  BY DEF Done, IInv
<1>2. \A s \in Reqs : At(s, "idle")'
  BY <1>1 DEF CalmInv, At, Idle
<1>3. \A s \in Reqs : Fresh(req[s])'
  BY <1>2 DEF Fresh, At
<1> QED BY <1>1, <1>2, <1>3 DEF CalmInv

LEMMA AddCalm == ASSUME IInv, CalmInv, NEW r \in Reqs, AddCommit(r) PROVE CalmInv'
<1> DEFINE d == req[r].dish
           v == VendorOf[d]
           b == Target(r)
<1>1. Done(r) /\ req[r].pc = "add"
  BY DEF AddCommit, At
<1>2. ASSUME calm PROVE OneFound' /\ LiveHolds'
  <2>1. /\ \A u \in Vendors : Found(u) => u = req[r].live
        /\ req[r].live \in Vendors => basket[req[r].live].state = "live"
        /\ OneFound /\ LiveHolds
    BY <1>1, <1>2 DEF CalmInv, Fresh
  <2>2. CASE UNCHANGED basket
    BY <2>1, <2>2 DEF OneFound, LiveHolds, Found, Lines
  <2>3. CASE ~UNCHANGED basket
    <3>1. basket' = Added(r)
      BY <2>3 DEF AddCommit
    <3>2. /\ d \in Dishes /\ v \in Vendors /\ basket[v] \in Row
          /\ req[r].quantity \in Nat /\ req[r].quantity > 0
      BY <1>1, MenuAssumption, CapsAssumption DEF IInv, GoodRequest, Request
    <3>3. b \in Row /\ b.state = "live"
      BY <2>1, <3>2 DEF Target, Touched, Row
    <3>4. basket'[v].state = "live" /\ basket'[v].qty[d] = b.qty[d] + req[r].quantity
      BY <3>1, <3>2, <3>3 DEF Added, Touched, Row
    <3>5. d \in Lines(basket'[v])
      BY <3>2, <3>3, <3>4 DEF Lines, Row
    <3>6. ASSUME NEW u \in Vendors, u # v, u = req[r].live
          PROVE  basket'[u].state = "tomb" /\ Lines(basket'[u]) = {}
      <4>1. basket'[u] = Discarded(basket[u]) /\ basket[u] \in Row
        BY <3>1, <3>6 DEF Added, IInv
      <4> QED BY <4>1 DEF Discarded, Row, Lines, NoLines
    <3>7. ASSUME NEW u \in Vendors, u # v, u # req[r].live
          PROVE  basket'[u] = basket[u] /\ ~Found(u)
      BY <2>1, <3>1, <3>7 DEF Added
    <3>8. LiveHolds'
      BY <2>1, <3>4, <3>5, <3>6, <3>7 DEF LiveHolds, Lines
    <3>9. \A u \in Vendors : Found(u)' => u = v
      BY <3>6, <3>7 DEF Found
    <3> QED BY <3>8, <3>9 DEF OneFound
  <2> QED BY <2>2, <2>3
<1> QED BY <1>1, <1>2, DoneCalm DEF At

LEMMA SetCalm == ASSUME IInv, CalmInv, NEW r \in Reqs, SetCommit(r) PROVE CalmInv'
<1> DEFINE v == req[r].live
           d == req[r].dish
           n == req[r].quantity
<1>1. Done(r) /\ req[r].pc = "set"
  BY DEF SetCommit, At
<1>2. ASSUME calm PROVE OneFound' /\ LiveHolds'
  <2>1. (\A u \in Vendors : Found(u) => u = v) /\ OneFound /\ LiveHolds
    BY <1>1, <1>2 DEF CalmInv, Fresh
  <2>2. CASE UNCHANGED basket
    BY <2>1, <2>2 DEF OneFound, LiveHolds, Found, Lines
  <2>3. CASE ~UNCHANGED basket
    <3>1. /\ basket[v].qty[d] # 0
          /\ basket' = [basket EXCEPT ![v] = [Touched(basket[v]) EXCEPT !.qty[d] = n]]
      BY <2>3 DEF SetCommit
    <3>2. /\ v \in Vendors /\ d \in Dishes /\ basket \in [Vendors -> Row]
          /\ n \in Nat /\ n > 0
      BY <1>1, CapsAssumption DEF IInv, GoodRequest, Request
    <3>3. basket[v].state = "live"
      <4>1. basket[v].qty[d] > 0
        BY <3>1, <3>2 DEF Row
      <4> QED BY <2>1, <3>2, <4>1 DEF LiveHolds, Lines
    <3>4. basket'[v].state = "live" /\ basket'[v].qty[d] = n
      BY <3>1, <3>2, <3>3 DEF Touched, Row
    <3>5. \A u \in Vendors \ {v} : basket'[u] = basket[u]
      BY <3>1, <3>2
    <3>6. d \in Lines(basket'[v])
      BY <3>2, <3>4 DEF Lines
    <3>7. LiveHolds'
      BY <2>1, <3>4, <3>5, <3>6 DEF LiveHolds, Lines
    <3>8. \A u \in Vendors : Found(u)' => u = v
      BY <2>1, <3>5 DEF Found
    <3> QED BY <3>7, <3>8 DEF OneFound
  <2> QED BY <2>2, <2>3
<1> QED BY <1>1, <1>2, DoneCalm DEF At

LEMMA RemoveCalm == ASSUME IInv, CalmInv, NEW r \in Reqs, RemoveCommit(r) PROVE CalmInv'
<1> DEFINE v == req[r].live
           d == req[r].dish
<1>1. Done(r) /\ req[r].pc = "remove"
  BY DEF RemoveCommit, At
<1>2. ASSUME calm PROVE OneFound' /\ LiveHolds'
  <2>1. /\ \A u \in Vendors : Found(u) => u = v
        /\ basket[v].state = "live" /\ req[r].emptied = (Lines(basket[v]) \ {d} = {})
        /\ LiveHolds
    BY <1>1, <1>2 DEF CalmInv, Fresh
  <2>2. v \in Vendors /\ d \in Dishes /\ basket \in [Vendors -> Row]
    BY <1>1 DEF IInv, GoodRequest
  <2>3. basket' = [basket EXCEPT ![v] = IF req[r].emptied THEN Discarded(basket[v])
                                       ELSE [Touched(basket[v]) EXCEPT !.qty[d] = 0]]
    BY DEF RemoveCommit
  <2>4. basket'[v].state = "live" <=> Lines(basket'[v]) # {}
    <3>1. CASE req[r].emptied
      <4>1. basket'[v] = Discarded(basket[v])
        BY <2>2, <2>3, <3>1
      <4> QED BY <2>2, <4>1 DEF Discarded, Row, Lines, NoLines
    <3>2. CASE ~req[r].emptied
      <4>1. PICK e \in Lines(basket[v]) : e # d
        BY <2>1, <3>2
      <4>2. basket'[v] = [Touched(basket[v]) EXCEPT !.qty[d] = 0]
        BY <2>2, <2>3, <3>2
      <4>3. basket'[v].state = "live" /\ e \in Lines(basket'[v])
        BY <2>1, <2>2, <4>1, <4>2 DEF Touched, Row, Lines
      <4> QED BY <4>3
    <3> QED BY <3>1, <3>2
  <2>5. \A u \in Vendors \ {v} : basket'[u] = basket[u]
    BY <2>2, <2>3
  <2>6. LiveHolds'
    BY <2>1, <2>4, <2>5 DEF LiveHolds, Lines
  <2>7. \A u \in Vendors : Found(u)' => u = v
    BY <2>1, <2>5 DEF Found
  <2> QED BY <2>6, <2>7 DEF OneFound
<1> QED BY <1>1, <1>2, DoneCalm DEF At

LEMMA ClearCalm == ASSUME IInv, CalmInv, NEW r \in Reqs, ClearCommit(r) PROVE CalmInv'
<1>1. Done(r) /\ req[r].pc = "clear"
  BY DEF ClearCommit, At
<1>2. ASSUME calm PROVE OneFound' /\ LiveHolds'
  <2>1. OneFound /\ LiveHolds
    BY <1>2 DEF CalmInv
  <2>2. ASSUME NEW u \in Vendors
        PROVE  \/ basket'[u] = basket[u]
               \/ basket'[u].state = "tomb" /\ Lines(basket'[u]) = {}
    <3>1. basket'[u] = basket[u] \/ basket'[u] = Discarded(basket[u])
      BY DEF ClearCommit
    <3>2. basket[u] \in Row
      BY DEF IInv
    <3>3. Discarded(basket[u]).state = "tomb" /\ Discarded(basket[u]).qty = NoLines
      BY <3>2 DEF Discarded, Row
    <3> QED BY <3>1, <3>3 DEF Lines, NoLines
  <2>3. LiveHolds'
    BY <2>1, <2>2 DEF LiveHolds, Lines
  <2>4. \A u \in Vendors : Found(u)' => Found(u)
    BY <2>2 DEF Found
  <2> QED BY <2>1, <2>3, <2>4 DEF OneFound
<1> QED BY <1>1, <1>2, DoneCalm DEF At

LEMMA ExpireCalm == ASSUME IInv, CalmInv, NEW v \in Vendors, Expire(v) PROVE CalmInv'
<1> SUFFICES ASSUME calm' PROVE CalmInv'
  BY DEF CalmInv
<1>1. calm /\ UNCHANGED req
  BY DEF Expire
<1>2. ASSUME NEW u \in Vendors
      PROVE  /\ basket'[u].state = basket[u].state
             /\ basket'[u].qty = basket[u].qty
             /\ Found(u)' => Found(u)
  <2>1. basket \in [Vendors -> Row] /\ basket[u] \in Row
    BY DEF IInv
  <2>2. basket' = [basket EXCEPT ![v] = [basket[v] EXCEPT !.expired = TRUE]]
    BY DEF Expire
  <2>3. CASE u = v
    BY <2>1, <2>2, <2>3 DEF Row, Found
  <2>4. CASE u # v
    BY <2>1, <2>2, <2>4 DEF Found
  <2> QED BY <2>3, <2>4
<1>3. \A u \in Vendors : Lines(basket[u])' = Lines(basket[u])
  BY <1>2 DEF Lines
<1>4. OneFound' /\ LiveHolds'
  BY <1>1, <1>2, <1>3 DEF CalmInv, OneFound, LiveHolds, Lines
<1>5. ASSUME NEW r \in Reqs PROVE Fresh(req[r])'
  <2>1. Fresh(req[r]) /\ (req[r].pc = "remove" => req[r].live \in Vendors)
    BY <1>1 DEF CalmInv, IInv, GoodRequest
  <2> QED BY <1>1, <1>2, <1>3, <2>1 DEF Fresh, Lines
<1> QED BY <1>1, <1>4, <1>5 DEF CalmInv, At

LEMMA CalmInitially == Init => CalmInv
<1> SUFFICES ASSUME Init PROVE CalmInv
  OBVIOUS
<1>1. \A v \in Vendors : basket[v].state = "none" /\ basket[v].qty = NoLines
  BY DEF Init, Absent
<1>2. \A v \in Vendors : Lines(basket[v]) = {}
  BY <1>1 DEF Lines, NoLines
<1>3. \A r \in Reqs : req[r].pc = "idle"
  BY DEF Init, Idle
<1> QED BY <1>1, <1>2, <1>3 DEF CalmInv, OneFound, LiveHolds, Found, At, Fresh

LEMMA CalmStepwise == IInv /\ CalmInv /\ [Next]_vars => CalmInv'
<1> SUFFICES ASSUME IInv, CalmInv, [Next]_vars PROVE CalmInv'
  OBVIOUS
<1>0. /\ LiveCart \in Vendors => Found(LiveCart)
      /\ calm => \A v \in Vendors : Found(v) => v = LiveCart
  BY TheLiveOne DEF CalmInv
<1>1. ASSUME NEW r \in Reqs, NEW d \in Dishes, NEW q \in 1..MaxQuantity,
             NEW replace \in BOOLEAN, AddRead(r, d, q, replace)
      PROVE  CalmInv'
  <2> PICK n : n = [Idle EXCEPT !.pc = IF LiveCart = VendorOf[d] THEN "add" ELSE "slot",
                                !.live = LiveCart, !.dish = d, !.quantity = q,
                                !.replace = replace]
    OBVIOUS
  <2>1. n.pc \in {"slot", "add"} /\ n.live = LiveCart
    BY DEF Idle
  <2>2. calm => Fresh(n)
    BY <1>0, <2>1 DEF Fresh, Found
  <2> QED BY <1>1, <2>2, BeginCalm DEF AddRead
<1>2. ASSUME NEW r \in Reqs, NEW d \in Dishes, NEW q \in 1..MaxQuantity, SetRead(r, d, q)
      PROVE  CalmInv'
  <2> PICK n : n = [Idle EXCEPT !.pc = "set", !.live = LiveCart, !.dish = d, !.quantity = q]
    OBVIOUS
  <2>1. n.pc = "set" /\ n.live = LiveCart
    BY DEF Idle
  <2>2. calm => Fresh(n)
    BY <1>0, <2>1 DEF Fresh
  <2> QED BY <1>2, <2>2, BeginCalm DEF SetRead
<1>3. ASSUME NEW r \in Reqs, NEW d \in Dishes, RemoveRead(r, d)
      PROVE  CalmInv'
  <2> PICK n : n = [Idle EXCEPT !.pc = "remove", !.live = LiveCart, !.dish = d,
                                !.emptied = (Lines(basket[LiveCart]) \ {d} = {})]
    OBVIOUS
  <2>1. /\ n.pc = "remove" /\ n.live = LiveCart /\ n.dish = d
        /\ n.emptied = (Lines(basket[LiveCart]) \ {d} = {})
    BY DEF Idle
  <2>2. LiveCart \in Vendors
    BY <1>3, LiveCartType DEF RemoveRead
  <2>3. calm => Fresh(n)
    BY <1>0, <2>1, <2>2 DEF Fresh, Found
  <2> QED BY <1>3, <2>3, BeginCalm DEF RemoveRead
<1>4. ASSUME NEW r \in Reqs, AddSlot(r) PROVE CalmInv'
  <2> SUFFICES ASSUME calm' PROVE CalmInv'
    BY DEF CalmInv
  <2> DEFINE n == [req[r] EXCEPT !.pc = "add",
                                 !.slot = basket[VendorOf[req[r].dish]].state # "none"]
  <2>1. /\ calm /\ UNCHANGED basket /\ req[r] \in Request /\ req[r].pc = "slot"
        /\ req' = [req EXCEPT ![r] = n] /\ req \in [Reqs -> Request]
    BY <1>4 DEF AddSlot, IInv, At
  <2>2. req'[r].pc = "add" /\ req'[r].live = req[r].live
    BY <2>1 DEF Request
  <2>3. \A s \in Reqs \ {r} : req'[s] = req[s]
    BY <2>1
  <2>4. OneFound' /\ LiveHolds'
    BY <2>1 DEF CalmInv, OneFound, LiveHolds, Found, Lines
  <2>5. \A s \in Reqs : ~At(s, "idle")' => ~At(s, "idle")
    BY <2>1, <2>3 DEF At
  <2>6. Fresh(req[r])'
    BY <2>1, <2>2 DEF CalmInv, Fresh, Found
  <2>7. ASSUME NEW s \in Reqs \ {r} PROVE Fresh(req[s])'
    BY <2>1, <2>3 DEF CalmInv, Fresh, Found, Lines
  <2> QED BY <2>1, <2>4, <2>5, <2>6, <2>7 DEF CalmInv
<1>5. ASSUME NEW r \in Reqs, ClearRead(r) PROVE CalmInv'
  <2> PICK n : n = [Idle EXCEPT !.pc = "clear",
                                !.carts = {v \in Vendors : basket[v].state = "live"}]
    OBVIOUS
  <2>1. Fresh(n)
    BY DEF Fresh, Idle
  <2> QED BY <1>5, <2>1, BeginCalm DEF ClearRead
<1>6. ASSUME NEW r \in Reqs, Fail(r) PROVE CalmInv'
  <2>1. calm => OneFound' /\ LiveHolds'
    BY <1>6 DEF Fail, CalmInv, OneFound, LiveHolds, Found, Lines
  <2> QED BY <1>6, <2>1, DoneCalm DEF Fail
<1>7. CASE UNCHANGED vars
  <2>1. UNCHANGED <<basket, req, calm>>
    BY <1>7 DEF vars
  <2> QED BY <2>1 DEF CalmInv, OneFound, LiveHolds, Fresh, Found, Lines, At
<1> QED
  BY <1>1, <1>2, <1>3, <1>4, <1>5, <1>6, <1>7,
     AddCalm, SetCalm, RemoveCalm, ClearCalm, ExpireCalm DEF Next

\* As long as no two requests have overlapped, whatever was added, set, removed,
\* cleared, lost or expired: one live basket at most, a live one has something in
\* it and a discarded one is empty (findLiveCart(), addItem(), removeItem()).
THEOREM OneBasketHolds == Spec => []OneBasketWhenCalm
<1>1. CalmInv => OneBasketWhenCalm
  BY DEF CalmInv, OneFound, LiveHolds, OneBasketWhenCalm
<1> QED BY <1>1, Invariance, CalmInitially, CalmStepwise, PTL DEF Spec
=============================================================================
