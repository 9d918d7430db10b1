------------------------- MODULE OrderPromise_proofs -------------------------
(***************************************************************************)
(* What follows from the contract of an order, for any number of orders    *)
(* and any price.                                                          *)
(***************************************************************************)
EXTENDS OrderPromise, TLAPS

\* An order that nobody has paid for is owed nothing, and what is paid back is
\* within the price.
Sensible(a) ==
  /\ a \in Account
  /\ Fair(a)
  /\ a.stage = "basket" => a.price = "due" /\ a.claim = "none"

EveryAccountIsSensible ==
  account \in [Orders -> Account] /\ \A o \in Orders : Sensible(account[o])

\* A clause of the contract keeps an account sensible, and takes nothing back.
LEMMA ClauseKeeps ==
  ASSUME Price \in Nat, NEW a, NEW b, Sensible(a), Keeps(a, b)
  PROVE  Sensible(b) /\ Settled(a, b)
<1>1. a \in Account /\ Price \in 0..Price
  BY DEF Sensible
<1>2. CASE Accept(a, b)
  BY <1>1, <1>2 DEF Accept, Sensible, Fair, Settled, Account
<1>3. CASE Serve(a, b)
  BY <1>1, <1>3 DEF Serve, Sensible, Fair, Settled, Account
<1>4. CASE Close(a, b)
  BY <1>1, <1>4 DEF Close, Sensible, Fair, Settled, Account
<1>5. CASE Ask(a, b)
  BY <1>1, <1>5 DEF Ask, Sensible, Fair, Settled, Account
<1>6. CASE Refuse(a, b)
  <2>1. a.price = "taken" /\ a.claim \in {"none", "requested"}
    BY <1>6 DEF Refuse, Undecided
  <2>2. /\ b \in Account /\ b.stage = a.stage /\ b.price = a.price
        /\ b.claim = "rejected" /\ b.agreed = a.agreed /\ b.back = a.back
    BY <1>1, <1>6 DEF Refuse, Account
  <2> QED BY <1>1, <2>1, <2>2 DEF Sensible, Fair, Settled
<1>7. CASE Approve(a, b)
  <2> PICK n \in 0..Price : b = [a EXCEPT !.claim = "approved", !.agreed = n]
    BY <1>7 DEF Approve
  <2>1. a.price = "taken" /\ a.claim \in {"none", "requested"}
    BY <1>7 DEF Approve, Undecided
  <2>2. /\ b \in Account /\ b.stage = a.stage /\ b.price = a.price
        /\ b.claim = "approved" /\ b.agreed = n /\ b.back = a.back
    BY <1>1 DEF Account
  <2> QED BY <1>1, <2>1, <2>2 DEF Sensible, Fair, Settled
<1>8. CASE PayBack(a, b)
  <2>1. a.price = "taken" /\ a.claim = "approved"
    BY <1>8 DEF PayBack
  <2>2. PICK n \in 0..Price : n = Due(a)
    BY <1>1 DEF Due, Account
  <2>3. 0 \in 0..Price
    OBVIOUS
  <2>4. b = [a EXCEPT !.claim = "refunded", !.agreed = 0, !.back = n]
    BY <1>8, <2>2 DEF PayBack
  <2>5. /\ b \in Account /\ b.stage = a.stage /\ b.price = a.price
        /\ b.claim = "refunded" /\ b.agreed = 0 /\ b.back = n
    BY <1>1, <2>3, <2>4 DEF Account
  <2> QED BY <1>1, <2>1, <2>2, <2>5 DEF Sensible, Fair, Settled
<1>9. CASE PayAtOnce(a, b)
  <2> PICK n \in 0..Price : b = [a EXCEPT !.claim = "refunded", !.back = n]
    BY <1>9 DEF PayAtOnce
  <2>1. a.price = "taken" /\ a.claim \in {"none", "requested"}
    BY <1>9 DEF PayAtOnce, Undecided
  <2>2. /\ b \in Account /\ b.stage = a.stage /\ b.price = a.price
        /\ b.claim = "refunded" /\ b.agreed = a.agreed /\ b.back = n
    BY <1>1 DEF Account
  <2> QED BY <1>1, <2>1, <2>2 DEF Sensible, Fair, Settled
<1>10. CASE Fail(a, b)
  <2> DEFINE e == [Owed(a) EXCEPT !.stage = "ended"]
  <2>1. /\ e \in Account /\ e.stage = "ended" /\ e.price = a.price /\ e.back = a.back
        /\ e.agreed = a.agreed
        /\ e.claim = IF a.price = "taken" /\ a.claim = "none" THEN "requested" ELSE a.claim
    BY <1>1 DEF Owed, Account
  <2>2. Sensible(e) /\ Settled(a, e)
    BY <1>10, <2>1 DEF Fail, Sensible, Fair, Settled, Account
  <2>3. CASE b = e
    BY <2>2, <2>3
  <2>4. CASE Undecided(e) /\ b = [e EXCEPT !.claim = "refunded", !.back = Price]
    <3> HIDE DEF e
    <3>1. e.price = "taken" /\ e.claim \in {"none", "requested"}
      BY <2>4 DEF Undecided
    <3>2. /\ b \in Account /\ b.stage = "ended" /\ b.price = "taken"
          /\ b.claim = "refunded" /\ b.back = Price /\ b.agreed = e.agreed
      BY <1>1, <2>1, <2>4, <3>1 DEF Account
    <3>3. Sensible(b)
      BY <1>1, <2>1, <2>2, <3>1, <3>2 DEF Sensible, Fair, Account
    <3>4. a.claim \in {"none", "requested"} /\ a.stage = "open"
      BY <1>1, <1>10, <2>1, <3>1 DEF Fail, Account
    <3> QED BY <3>2, <3>3, <3>4 DEF Settled
  <2> QED BY <1>10, <2>3, <2>4 DEF Fail
<1> QED BY <1>2, <1>3, <1>4, <1>5, <1>6, <1>7, <1>8,
           <1>9, <1>10 DEF Keeps

LEMMA StepKeeps ==
  ASSUME Price \in Nat, EveryAccountIsSensible, [Next]_account
  PROVE  EveryAccountIsSensible' /\ \A o \in Orders : Settled(account[o], account'[o])
<1>1. CASE UNCHANGED account
  BY <1>1 DEF EveryAccountIsSensible, Settled
<1>2. CASE Next
  <2> PICK o \in Orders : /\ Keeps(account[o], account'[o])
                          /\ account' = [account EXCEPT ![o] = account'[o]]
    BY <1>2 DEF Next
  <2>1. Sensible(account'[o]) /\ Settled(account[o], account'[o])
    BY ClauseKeeps DEF EveryAccountIsSensible
  <2>2. account' \in [Orders -> Account]
    BY <2>1 DEF EveryAccountIsSensible, Sensible
  <2>3. \A x \in Orders \ {o} : account'[x] = account[x]
    BY DEF EveryAccountIsSensible
  <2>4. \A x \in Orders : Sensible(account'[x]) /\ Settled(account[x], account'[x])
    BY <2>1, <2>3 DEF EveryAccountIsSensible, Settled
  <2> QED BY <2>2, <2>4 DEF EveryAccountIsSensible, Sensible, Fair
<1> QED BY <1>1, <1>2

\* Whatever happens, every account is fair: what was served is paid for, what was
\* taken for nothing is asked back, and no more than the price comes back.
THEOREM ContractIsFair ==
  ASSUME Price \in Nat
  PROVE  Spec => []EveryAccountIsFair
<1>1. Init => EveryAccountIsSensible
  BY DEF Init, EveryAccountIsSensible, Sensible, Fair, Account
<1>2. EveryAccountIsSensible /\ [Next]_account => EveryAccountIsSensible'
  BY StepKeeps
<1>3. EveryAccountIsSensible => EveryAccountIsFair
  BY DEF EveryAccountIsSensible, Sensible, EveryAccountIsFair
<1> QED BY <1>1, <1>2, <1>3, PTL DEF Spec

\* And nothing that was settled is taken back.
THEOREM ContractIsFinal ==
  ASSUME Price \in Nat
  PROVE  Spec => NothingIsTakenBack
<1>1. Init => EveryAccountIsSensible
  BY DEF Init, EveryAccountIsSensible, Sensible, Fair, Account
<1>2. EveryAccountIsSensible /\ [Next]_account => EveryAccountIsSensible'
  BY StepKeeps
<1>3. EveryAccountIsSensible /\ [Next]_account
        => [\A o \in Orders : Settled(account[o], account'[o])]_account
  BY StepKeeps
<1> QED BY <1>1, <1>2, <1>3, PTL DEF Spec, NothingIsTakenBack
=============================================================================
