-------------------------- MODULE AuthSessions_proofs --------------------------
(***************************************************************************)
(* What AuthSessions keeps true, for any number of requests, sessions,     *)
(* tokens, codes and resets.                                               *)
(*                                                                         *)
(* That a chain has one live link is not inductive: between the two        *)
(* queries of a rotation it has none, and the link to come is known to the *)
(* request alone.  Inv therefore says of each request what it may rely on  *)
(* where it is (Place), of each two requests what they cannot both be      *)
(* doing (Apart), and of the tables what agrees with what (Chain, Codes,   *)
(* Resets, Tokens, Tries).                                                 *)
(*                                                                         *)
(* Most steps read and move one request: they are quiet, and QuietKeeps    *)
(* covers them all.  What is left are the steps that write: opening a      *)
(* session, the two halves of a rotation, the revocations and the codes.   *)
(***************************************************************************)
EXTENDS AuthSessions, FiniteSetTheorems, TLAPS

-----------------------------------------------------------------------------
(* The inductive invariant.                                                *)

Rows ==
  /\ password \in Nat /\ epoch \in Nat
  /\ session \in [Sessions -> [state : {"none", "live", "revoked"}, born : Nat,
                               since : Nat, code : 0..MaxCodes]]
  /\ access \in [Sessions -> [claim : Nat, minted : Nat]]
  /\ link \in [Links -> [owner : Sessions \union {NoSession}, used : BOOLEAN,
                         revoked : BOOLEAN]]
  /\ reset \in [Resets -> {"none", "open", "used"}]
  /\ code \in [1..MaxCodes -> [tries : Nat, used : BOOLEAN]]
  /\ issued \in 0..MaxCodes
  /\ cut \subseteq Sessions /\ begun \in Nat /\ closed \in 0..begun

Requests == req \in [Reqs -> Request]

Rotating == {"account", "spend", "mint"}
Carrying == {"otpAccount", "open"}

\* The sessions opened since a password change last listed them.
Newer == {s \in Sessions : session[s].since >= begun}

\* What a request may rely on where it is.
Place(x) ==
  /\ x.pc \in Rotating \union {"reuse", "logout", "others"} => x.session \in Opened
  /\ x.pc \in Rotating => x.link \in Links
  /\ x.link # NoLink => x.link \in Minted /\ link[x.link].owner = x.session
  /\ x.pc \in {"account", "spend"} /\ Usable(x.link) => Live(x.session)
  /\ x.pc = "mint" => \A l \in Links : Usable(l) => link[l].owner # x.session
  /\ x.pc \in {"miss", "spendCode", "otpAccount"} => x.code \in 1..MaxCodes
  /\ x.pc \in Carrying /\ x.code # 0 =>
       code[x.code].used /\ \A s \in Opened : session[s].code # x.code
  /\ x.pc = "consume" => x.reset \in Resets
  /\ x.epoch <= epoch
  /\ x.pc = "changeWrite" => LiveSessions \subseteq x.ids \union Newer

\* What two requests cannot both be doing.
Apart(x, y) ==
  /\ ~(x.pc = "mint" /\ y.pc = "mint" /\ x.session = y.session)
  /\ ~(x.pc \in Carrying /\ y.pc \in Carrying /\ x.code # 0 /\ x.code = y.code)
  /\ ~(x.pc = "changeWrite" /\ y.pc = "changeWrite")

InPlace ==
  /\ \A r \in Reqs : Place(req[r])
  /\ \A r, q \in Reqs : r # q => Apart(req[r], req[q])

\* A token that does not exist is blank, and one that exists has its session;
\* tokens are revoked with their session, never alone.
Chain ==
  /\ \A l \in Links : l \notin Minted => link[l] = Unminted
  /\ \A l \in Minted : link[l].owner \in Opened
  /\ \A l \in Links : link[l].revoked => ~Live(link[l].owner)
  /\ OneLiveLink
  /\ LiveSessionCanRenew

Codes ==
  /\ \A s \in Opened : session[s].code # 0 => code[session[s].code].used
  /\ OneSessionPerCode

Tokens ==
  /\ epoch = password
  /\ \A s \in Sessions : access[s].claim <= access[s].minted /\ access[s].minted <= password

\* A guess being counted is as good as counted.
Missing(c) == {r \in Reqs : At(r, "miss") /\ req[r].code = c}
Tries ==
  \A c \in 1..MaxCodes :
    code[c].tries + Cardinality(Missing(c)) < OtpMax + Cardinality(Reqs)

Inv ==
  /\ Rows /\ Requests /\ InPlace /\ Chain /\ Codes
  /\ ResetEndsEarlierSessions /\ Tokens /\ Tries

-----------------------------------------------------------------------------
(* Requests, and the steps that do no more than move one.                  *)

LEMMA IdleIsInPlace ==
  /\ Idle \in Request /\ (Rows => Place(Idle))
  /\ Idle.code = 0 /\ Idle.epoch = 0 /\ Idle.link = NoLink
  BY CodesAssumption DEF Idle, Request, Pcs, Place, Rotating, Carrying, Rows

LEMMA Places ==
  {"open", "spendCode", "miss", "account", "reuse", "logout", "consume"} \subseteq Pcs
  BY DEF Pcs

LEMMA RequestFields ==
  ASSUME NEW x \in Request
  PROVE  /\ x.pc \in Pcs /\ x.session \in Sessions \union {NoSession}
         /\ x.link \in Links \union {NoLink} /\ x.reset \in Resets \union {NoReset}
         /\ x.password \in Nat /\ x.epoch \in Nat /\ x.code \in 0..MaxCodes /\ x.ids \subseteq Sessions
         /\ x.all \in BOOLEAN
  BY DEF Request

\* The next state holds x for r and what it held for everybody else.
Moves(r, x) ==
  /\ x \in Request
  /\ Requests'
  /\ \A q \in Reqs : req'[q] = IF q = r THEN x ELSE req[q]

LEMMA Replaced ==
  ASSUME Requests, NEW r \in Reqs, NEW x \in Request, req' = [req EXCEPT ![r] = x]
  PROVE  Moves(r, x)
  BY DEF Requests, Moves

\* A request that is over.
LEMMA DoneMoves ==
  ASSUME Requests, NEW r \in Reqs, Done(r)
  PROVE  Moves(r, Idle)
  BY IdleIsInPlace, Replaced DEF Done

\* A request that goes on with what it knows.
LEMMA GotoMoves ==
  ASSUME Requests, NEW r \in Reqs, NEW pc \in Pcs, Goto(r, pc)
  PROVE  /\ Moves(r, [req[r] EXCEPT !.pc = pc])
         /\ req'[r].pc = pc
         /\ req'[r].session = req[r].session /\ req'[r].link = req[r].link
         /\ req'[r].code = req[r].code /\ req'[r].epoch = req[r].epoch
         /\ req'[r].ids = req[r].ids /\ req'[r].reset = req[r].reset
<1>1. req[r] \in Request
  BY DEF Requests
<1>2. [req[r] EXCEPT !.pc = pc] \in Request
  BY <1>1 DEF Request
<1>3. Moves(r, [req[r] EXCEPT !.pc = pc])
  BY <1>2, Replaced DEF Goto, Requests
<1> QED BY <1>1, <1>3 DEF Moves, Request

\* Cardinality of what is not there any more.
LEMMA CountBound ==
  ASSUME NEW A, IsFiniteSet(A), NEW B, B \subseteq A
  PROVE  IsFiniteSet(B) /\ Cardinality(B) \in Nat /\ Cardinality(B) <= Cardinality(A)
  BY FS_Subset, FS_CardinalityType

LEMMA TriesKept ==
  ASSUME Rows, Tries, \A c \in 1..MaxCodes : code'[c].tries = code[c].tries,
         \A c \in 1..MaxCodes : Missing(c)' \subseteq Missing(c)
  PROVE  Tries'
<1> SUFFICES ASSUME NEW c \in 1..MaxCodes
             PROVE  code[c].tries + Cardinality(Missing(c)') < OtpMax + Cardinality(Reqs)
    BY DEF Tries
<1>1. /\ IsFiniteSet(Reqs) /\ OtpMax \in Nat /\ code[c].tries \in Nat /\ Cardinality(Reqs) \in Nat
  BY RowsAssumption, CodesAssumption, FS_CardinalityType DEF Rows
<1>2. IsFiniteSet(Missing(c)) /\ Cardinality(Missing(c)) \in Nat
  BY <1>1, CountBound DEF Missing
<1>3. Cardinality(Missing(c)') \in Nat /\ Cardinality(Missing(c)') <= Cardinality(Missing(c))
  BY <1>2, CountBound
<1> QED BY <1>1, <1>2, <1>3 DEF Tries

\* A step that leaves the rows and moves one request to a place it may be in,
\* apart from every other request, keeps the invariant.
LEMMA QuietKeeps ==
  ASSUME Inv, NEW r \in Reqs, NEW x, Moves(r, x), Place(x),
         UNCHANGED <<rows, codes, closed>>, cut \subseteq cut', cut' \subseteq Sessions,
         \/ begun' = begun
         \/ /\ begun' = begun + 1 /\ LiveSessions \subseteq x.ids
            /\ \A q \in Reqs \ {r} : ~At(q, "changeWrite"),
         \A q \in Reqs \ {r} : Apart(x, req[q]) /\ Apart(req[q], x),
         At(r, "mint") => (x.pc = "mint" /\ x.session = req[r].session) \/ req[r].session \in cut',
         x.pc = "miss" => code[x.code].tries < OtpMax
  PROVE  Inv'
<1> USE DEF Inv
<1>1. Rows'
  BY DEF Rows, rows, codes
<1>2. UNCHANGED <<password, epoch, session, access, link, reset, code, issued, closed>>
  BY DEF rows, codes
<1>3. /\ \A y : Place(y) /\ (y.pc # "changeWrite" \/ begun' = begun) => Place(y)'
      /\ Place(x)'
  BY <1>2 DEF Place, Opened, Usable, Minted, Live, LiveSessions, Newer
<1>4. InPlace'
  <2>1. \A q \in Reqs \ {r} : Place(req[q])'
    BY <1>3 DEF InPlace, Moves, At, Place
  <2>2. Place(req[r])'
    BY <1>3 DEF Moves, Place
  <2> QED BY <2>1, <2>2 DEF InPlace, Moves, Apart
<1>5. Chain'
  <2>1. LiveSessionCanRenew'
    BY <1>2 DEF Chain, LiveSessionCanRenew, Moves, At, Usable, Minted, Live, LiveSessions
  <2> QED BY <1>2, <2>1 DEF Chain, OneLiveLink, Usable, Minted, Live, Opened
<1>6. Codes' /\ Tokens' /\ ResetEndsEarlierSessions'
  BY <1>2 DEF Codes, Tokens, OneSessionPerCode, Opened, ResetEndsEarlierSessions, LiveSessions, Live
<1>7. Tries'
  <2> SUFFICES ASSUME NEW c \in 1..MaxCodes
               PROVE  code[c].tries + Cardinality(Missing(c)') < OtpMax + Cardinality(Reqs)
      BY <1>2 DEF Tries
  <2>1. /\ IsFiniteSet(Reqs) /\ OtpMax \in Nat /\ code[c].tries \in Nat /\ Cardinality(Reqs) \in Nat
      BY RowsAssumption, CodesAssumption, FS_CardinalityType DEF Rows
  <2>2. CASE x.pc = "miss" /\ x.code = c
    <3>1. Cardinality(Missing(c)') \in Nat /\ Cardinality(Missing(c)') <= Cardinality(Reqs)
      BY <2>1, CountBound DEF Missing
    <3> QED BY <2>1, <2>2, <3>1
  <2>3. CASE ~(x.pc = "miss" /\ x.code = c)
    <3>1. Missing(c)' \subseteq Missing(c)
      BY <2>3 DEF Missing, At, Moves
    <3>2. IsFiniteSet(Missing(c)) /\ Cardinality(Missing(c)) \in Nat
      BY <2>1, CountBound DEF Missing
    <3>3. Cardinality(Missing(c)') \in Nat /\ Cardinality(Missing(c)') <= Cardinality(Missing(c))
      BY <3>1, <3>2, CountBound
    <3> QED BY <2>1, <3>2, <3>3 DEF Tries
  <2> QED BY <2>2, <2>3
<1> QED BY <1>1, <1>4, <1>5, <1>6, <1>7 DEF Moves

-----------------------------------------------------------------------------
(* The quiet steps: reads, refusals, and a request that ends.              *)

\* A request that ends where it was leaves everybody else where they were.
LEMMA EndingKeeps ==
  ASSUME Inv, NEW r \in Reqs, Done(r), UNCHANGED <<rows, codes, begun, closed>>,
         cut \subseteq cut', cut' \subseteq Sessions,
         At(r, "mint") => req[r].session \in cut'
  PROVE  Inv'
<1>1. Moves(r, Idle) /\ Place(Idle) /\ Idle.pc = "idle"
  BY DoneMoves, IdleIsInPlace DEF Inv, Idle
<1>2. \A q \in Reqs : Apart(Idle, req[q]) /\ Apart(req[q], Idle)
  BY <1>1 DEF Apart, Carrying
<1> QED BY <1>1, <1>2, QuietKeeps

\* A request that begins, or goes on, without entering a place only one may be in.
LEMMA MovingKeeps ==
  ASSUME Inv, NEW r \in Reqs, NEW x \in Request, req' = [req EXCEPT ![r] = x],
         UNCHANGED <<rows, codes, ghosts>>, ~At(r, "mint"), Place(x),
         x.pc \notin {"mint", "changeWrite"},
         x.pc \in Carrying /\ x.code # 0 => req[r].pc \in Carrying /\ req[r].code = x.code,
         x.pc = "miss" => code[x.code].tries < OtpMax
  PROVE  Inv'
<1>1. Moves(r, x) /\ UNCHANGED <<rows, codes, begun, closed, cut>>
  BY Replaced DEF Inv, ghosts
<1>2. \A q \in Reqs \ {r} : Apart(x, req[q]) /\ Apart(req[q], x)
  BY DEF Inv, InPlace, Apart
<1>3. cut \subseteq cut' /\ cut' \subseteq Sessions
  BY <1>1 DEF Inv, Rows
<1> QED BY <1>1, <1>2, <1>3, QuietKeeps

LEMMA SignInReads ==
  ASSUME Inv, NEW r \in Reqs,
         LoginRead(r) \/ (\E right \in BOOLEAN : VerifyRead(r, right)) \/ OtpAccount(r)
  PROVE  Inv'
<1> USE DEF Inv, Rows, Place, Rotating, Carrying
<1>1. CASE LoginRead(r)
  <2> DEFINE x == [Idle EXCEPT !.pc = "open", !.password = password, !.epoch = epoch]
  <2>1. /\ x \in Request /\ x.pc = "open" /\ x.code = 0 /\ x.epoch = epoch
        /\ x.link = NoLink
    BY IdleIsInPlace, Places DEF Request
  <2>2. Place(x)
    BY <2>1
  <2>3. req' = [req EXCEPT ![r] = x] /\ ~At(r, "mint") /\ UNCHANGED <<rows, codes, ghosts>>
    BY <1>1 DEF LoginRead, Begin, At
  <2> HIDE DEF x
  <2> QED BY <2>1, <2>2, <2>3, MovingKeeps DEF Carrying
<1>2. ASSUME NEW right \in BOOLEAN, VerifyRead(r, right) PROVE Inv'
  <2> DEFINE x == [Idle EXCEPT !.pc = IF right THEN "spendCode" ELSE "miss", !.password = password, !.code = issued]
  <2>1. /\ x \in Request /\ x.pc \in {"spendCode", "miss"} /\ x.code = issued /\ x.epoch = 0
        /\ x.link = NoLink
    BY IdleIsInPlace, Places DEF Request
  <2>0. issued \in 0..MaxCodes /\ MaxCodes \in Nat /\ issued > 0
        /\ code[issued].tries < OtpMax
    BY <1>2, CodesAssumption DEF VerifyRead
  <2>2. issued \in 1..MaxCodes /\ code[issued].tries < OtpMax
    BY ONLY <2>0
  <2>3. Place(x)
    BY <2>1, <2>2
  <2>4. req' = [req EXCEPT ![r] = x] /\ ~At(r, "mint") /\ UNCHANGED <<rows, codes, ghosts>>
    BY <1>2 DEF VerifyRead, Begin, At
  <2> HIDE DEF x
  <2> QED BY <2>1, <2>2, <2>3, <2>4, MovingKeeps
<1>3. CASE OtpAccount(r)
  <2> DEFINE x == [req[r] EXCEPT !.pc = "open", !.epoch = epoch]
  <2>1. req[r] \in Request /\ req[r].pc = "otpAccount" /\ Place(req[r])
    BY <1>3 DEF OtpAccount, At, Requests, InPlace
  <2>2. /\ x \in Request /\ x.pc = "open" /\ x.code = req[r].code /\ x.epoch = epoch
        /\ x.link = req[r].link /\ x.session = req[r].session
    BY <2>1 DEF Request, Pcs
  <2>3. Place(x)
    BY <2>1, <2>2
  <2>4. req' = [req EXCEPT ![r] = x] /\ ~At(r, "mint") /\ UNCHANGED <<rows, codes, ghosts>>
    BY <1>3 DEF OtpAccount, At, Requests
  <2> HIDE DEF x
  <2> QED BY <2>1, <2>2, <2>3, <2>4, MovingKeeps
<1> QED BY <1>1, <1>2, <1>3

LEMMA RefreshReads ==
  ASSUME Inv, NEW r \in Reqs,
         (\E l \in Links : RefreshRead(r, l)) \/ RefreshAccount(r)
  PROVE  Inv'
<1> USE DEF Inv, Rows, Place, Rotating, Carrying
<1>1. ASSUME NEW l \in Links, RefreshRead(r, l) PROVE Inv'
  <2> DEFINE s == link[l].owner
             x == IF Usable(l) THEN [Idle EXCEPT !.pc = "account", !.session = s, !.link = l]
                  ELSE [Idle EXCEPT !.pc = "reuse", !.session = s]
  <2>1. l \in Minted /\ s \in Opened /\ s \in Sessions /\ (Usable(l) => Live(s))
    BY <1>1 DEF RefreshRead, Minted, Chain, Opened
  <2>2. /\ x \in Request /\ x.session = s /\ x.code = 0 /\ x.epoch = 0
        /\ x.pc = IF Usable(l) THEN "account" ELSE "reuse"
        /\ x.link = IF Usable(l) THEN l ELSE NoLink
    BY <2>1, IdleIsInPlace, Places DEF Request
  <2>3. Place(x)
    BY <2>1, <2>2
  <2>4. req' = [req EXCEPT ![r] = x] /\ ~At(r, "mint") /\ UNCHANGED <<rows, codes, ghosts>>
    BY <1>1 DEF RefreshRead, Begin, At
  <2> HIDE DEF x
  <2> QED BY <2>2, <2>3, <2>4, MovingKeeps
<1>2. CASE RefreshAccount(r)
  <2> DEFINE x == [req[r] EXCEPT !.pc = "spend", !.epoch = epoch]
  <2>1. req[r] \in Request /\ req[r].pc = "account" /\ Place(req[r])
    BY <1>2 DEF RefreshAccount, At, Requests, InPlace
  <2>2. /\ x \in Request /\ x.pc = "spend" /\ x.code = req[r].code /\ x.epoch = epoch
        /\ x.link = req[r].link /\ x.session = req[r].session
    BY <2>1 DEF Request, Pcs
  <2>3. Place(x)
    BY <2>1, <2>2
  <2>4. req' = [req EXCEPT ![r] = x] /\ ~At(r, "mint") /\ UNCHANGED <<rows, codes, ghosts>>
    BY <1>2 DEF RefreshAccount, At, Requests
  <2> HIDE DEF x
  <2> QED BY <2>1, <2>2, <2>3, <2>4, MovingKeeps
<1> QED BY <1>1, <1>2

LEMMA LogoutReads ==
  ASSUME Inv, NEW r \in Reqs,
         (\E s \in Sessions, all \in BOOLEAN : LogoutRead(r, s, all)) \/ OthersRead(r)
  PROVE  Inv'
<1> USE DEF Inv, Rows, Place, Rotating, Carrying
<1>1. ASSUME NEW s \in Sessions, NEW all \in BOOLEAN, LogoutRead(r, s, all) PROVE Inv'
  <2> DEFINE x == [Idle EXCEPT !.pc = "logout", !.session = s, !.all = all]
  <2>1. /\ x \in Request /\ x.session = s /\ x.code = 0 /\ x.epoch = 0 /\ x.pc = "logout"
        /\ x.link = NoLink
    BY IdleIsInPlace, Places DEF Request
  <2>2. s \in Opened
    BY <1>1 DEF LogoutRead
  <2>3. Place(x)
    BY <2>1, <2>2
  <2>4. req' = [req EXCEPT ![r] = x] /\ ~At(r, "mint") /\ UNCHANGED <<rows, codes, ghosts>>
    BY <1>1 DEF LogoutRead, Begin, At
  <2> HIDE DEF x
  <2> QED BY <2>1, <2>3, <2>4, MovingKeeps
<1>2. CASE OthersRead(r)
  <2>1. req[r] \in Request /\ req[r].pc = "others" /\ Place(req[r]) /\ ~At(r, "mint")
    BY <1>2 DEF OthersRead, At, Requests, InPlace
  <2>2. CASE Done(r)
    BY <1>2, <2>1, <2>2, EndingKeeps DEF OthersRead, ghosts
  <2>3. CASE ~Done(r)
    <3> DEFINE x == [req[r] EXCEPT !.pc = "othersWrite", !.ids = LiveSessions \ {req[r].session}]
    <3>1. /\ x \in Request /\ x.pc = "othersWrite" /\ x.code = req[r].code /\ x.epoch = req[r].epoch
          /\ x.link = req[r].link /\ x.session = req[r].session
      BY <2>1 DEF Request, Pcs, LiveSessions
    <3>2. Place(x)
      BY <2>1, <3>1
    <3>3. req' = [req EXCEPT ![r] = x] /\ UNCHANGED <<rows, codes, ghosts>>
      BY <1>2, <2>3 DEF OthersRead, Requests
    <3> HIDE DEF x
    <3> QED BY <2>1, <3>1, <3>2, <3>3, MovingKeeps
  <2> QED BY <2>2, <2>3
<1> QED BY <1>1, <1>2

\* The one read that enters a place only one request may be in: the credential
\* row is locked.
LEMMA ResetReads ==
  ASSUME Inv, NEW r \in Reqs, (\E k \in Resets : ResetRead(r, k)) \/ ChangeRead(r)
  PROVE  Inv'
<1> USE DEF Inv, Rows, Place, Rotating, Carrying
<1>1. ASSUME NEW k \in Resets, ResetRead(r, k) PROVE Inv'
  <2> DEFINE x == [Idle EXCEPT !.pc = "consume", !.reset = k]
  <2>1. /\ x \in Request /\ x.reset = k /\ x.code = 0 /\ x.epoch = 0 /\ x.pc = "consume"
        /\ x.link = NoLink
    BY IdleIsInPlace, Places DEF Request
  <2>2. Place(x)
    BY <2>1
  <2>3. req' = [req EXCEPT ![r] = x] /\ ~At(r, "mint") /\ UNCHANGED <<rows, codes, ghosts>>
    BY <1>1 DEF ResetRead, Begin, At
  <2> HIDE DEF x
  <2> QED BY <2>1, <2>2, <2>3, MovingKeeps
<1>2. CASE ChangeRead(r)
  <2> DEFINE x == [req[r] EXCEPT !.pc = "changeWrite", !.ids = LiveSessions]
  <2>1. req[r] \in Request /\ req[r].pc = "change" /\ Place(req[r])
    BY <1>2 DEF ChangeRead, At, Requests, InPlace
  <2>2. /\ x \in Request /\ x.pc = "changeWrite" /\ x.code = req[r].code /\ x.epoch = req[r].epoch
        /\ x.link = req[r].link /\ x.session = req[r].session /\ x.ids = LiveSessions
    BY <2>1 DEF Request, Pcs, LiveSessions
  <2>3. Place(x)
    BY <2>1, <2>2
  <2>4. /\ req' = [req EXCEPT ![r] = x] /\ ~At(r, "mint") /\ begun' = begun + 1
        /\ UNCHANGED <<rows, codes, closed, cut>>
    BY <1>2 DEF ChangeRead, At, Requests, ghosts
  <2>5. \A q \in Reqs : req[q].pc # "changeWrite"
    BY <1>2 DEF ChangeRead, Changing, At
  <2> HIDE DEF x
  <2>6. \A q \in Reqs \ {r} : Apart(x, req[q]) /\ Apart(req[q], x)
    BY <2>2, <2>5 DEF Apart
  <2>7. Moves(r, x)
    BY <2>2, <2>4, Replaced
  <2> QED BY <2>2, <2>3, <2>4, <2>5, <2>6, <2>7, QuietKeeps DEF At
<1> QED BY <1>1, <1>2

LEMMA CrashKeeps == ASSUME Inv, NEW r \in Reqs, Crash(r) PROVE Inv'
<1>1. At(r, "mint") => req[r].session \in Sessions
  BY DEF Inv, InPlace, Place, Rotating, Opened, At
<1>2. cut \subseteq cut' /\ cut' \subseteq Sessions /\ (At(r, "mint") => req[r].session \in cut')
  BY <1>1 DEF Crash, Inv, Rows
<1> QED BY <1>2, EndingKeeps DEF Crash

-----------------------------------------------------------------------------
(* The steps that write.                                                   *)

\* Ending sessions keeps the invariant, with or without a password change: what
\* could be renewed of them is dead, and who is about to rotate it will fail.
LEMMA RevokeKeeps ==
  ASSUME Inv, NEW ids \in SUBSET Sessions, Revoke(ids), NEW r \in Reqs, NEW x, Moves(r, x),
         Place(x), x.pc \in {"idle", "others"}, ~At(r, "mint"),
         UNCHANGED <<access, reset, codes, cut, begun>>,
         \/ UNCHANGED <<password, epoch, closed>>
         \/ /\ password' = password + 1 /\ epoch' = epoch + 1 /\ closed' = begun
            /\ LiveSessions \subseteq ids \union Newer
  PROVE  Inv'
<1> USE DEF Inv
<1>1. \A s \in Sessions :
        /\ session'[s].code = session[s].code /\ session'[s].since = session[s].since
        /\ Live(s)' <=> Live(s) /\ s \notin ids
        /\ s \in Opened' <=> s \in Opened
  BY DEF Revoke, Rows, Live, Opened
<1>2. \A l \in Links :
        /\ link'[l].owner = link[l].owner /\ link'[l].used = link[l].used
        /\ link'[l].revoked <=> link[l].revoked \/ link[l].owner \in ids
        /\ link[l].owner \notin ids => link'[l] = link[l]
  BY DEF Revoke, Rows
<1>3. Rows'
  <2> DEFINE Row == [state : {"none", "live", "revoked"}, born : Nat, since : Nat, code : 0..MaxCodes]
  <2>0. \A row \in Row : [row EXCEPT !.state = "revoked"] \in Row
    OBVIOUS
  <2>1. session' \in [Sessions -> Row]
    <3>1. session \in [Sessions -> Row]
      BY DEF Rows
    <3> HIDE DEF Row
    <3> QED BY <2>0, <3>1 DEF Revoke
  <2>2. link' \in [Links -> [owner : Sessions \union {NoSession}, used : BOOLEAN, revoked : BOOLEAN]]
    BY DEF Revoke, Rows
  <2>3. password' \in Nat /\ epoch' \in Nat /\ closed' \in 0..begun
    BY DEF Rows
  <2> QED BY <2>1, <2>2, <2>3 DEF Rows, codes
<1>4. /\ Opened' = Opened /\ Minted' = Minted
      /\ \A l \in Links : Usable(l)' <=> Usable(l) /\ link[l].owner \notin ids
  BY <1>1, <1>2 DEF Opened, Minted, Usable
<1>5. LiveSessions' \subseteq LiveSessions
  BY <1>1 DEF LiveSessions
<1>6. epoch \in Nat /\ epoch' \in Nat /\ epoch <= epoch' /\ UNCHANGED <<code, begun, cut>>
  BY DEF Rows, codes
<1>7. ASSUME NEW y \in Request, Place(y) PROVE Place(y)'
  <2>1. y.session \in Sessions \union {NoSession} /\ y.epoch \in Nat
    BY RequestFields
  <2>2. y.epoch <= epoch'
    BY <1>6, <1>7, <2>1 DEF Place
  <2>3. y.pc \in {"account", "spend"} /\ Usable(y.link)' => Live(y.session)'
    BY <1>1, <1>2, <1>4, <1>7, RowsAssumption DEF Place, Rotating, Opened
  <2>4. y.pc = "changeWrite" => LiveSessions' \subseteq y.ids \union Newer'
    BY <1>1, <1>5, <1>6, <1>7 DEF Place, Newer
  <2>5. y.pc = "mint" => \A l \in Links : Usable(l)' => link'[l].owner # y.session
    BY <1>2, <1>4, <1>7 DEF Place
  <2>6. y.link # NoLink => y.link \in Minted' /\ link'[y.link].owner = y.session
    BY <1>2, <1>4, <1>7 DEF Place, Minted
  <2>7. y.pc \in Carrying /\ y.code # 0 =>
          code'[y.code].used /\ \A s \in Opened' : session'[s].code # y.code
    BY <1>1, <1>4, <1>6, <1>7 DEF Place, Opened
  <2> QED BY <1>4, <1>7, <2>2, <2>3, <2>4, <2>5, <2>6, <2>7 DEF Place
<1>8. InPlace'
  <2>1. \A q \in Reqs : Place(req[q])'
    <3> SUFFICES ASSUME NEW q \in Reqs PROVE Place(req[q])'
        OBVIOUS
    <3>1. req'[q] \in Request /\ Place(req'[q])
      BY DEF InPlace, Moves, Requests
    <3> QED BY <1>7, <3>1 DEF Place
  <2>2. \A q \in Reqs : Apart(x, req[q]) /\ Apart(req[q], x)
    BY DEF Apart, Carrying
  <2> QED BY <2>1, <2>2 DEF InPlace, Moves
<1>9. Chain'
  <2>1. \A l \in Links : l \notin Minted' => link'[l] = Unminted
    BY <1>2, <1>4, RowsAssumption DEF Chain, Minted
  <2>2. \A l \in Minted' : link'[l].owner \in Opened'
    BY <1>2, <1>4 DEF Chain, Minted
  <2>3. (\A l \in Links : link[l].revoked => ~Live(link[l].owner))'
    <3> SUFFICES ASSUME NEW l \in Links, link'[l].revoked
                 PROVE  ~Live(link[l].owner)'
        OBVIOUS
    <3>1. CASE link[l].owner \in ids
      BY <1>1, <1>2, <3>1 DEF Live
    <3>2. CASE link[l].owner \notin ids
      <4>1. link[l].revoked
        BY <1>2, <3>2
      <4>2. l \in Minted /\ ~Live(link[l].owner) /\ link[l].owner \in Sessions
        BY <4>1 DEF Chain, Unminted, Opened
      <4> QED BY <1>1, <1>2, <4>2 DEF Live
    <3> QED BY <3>1, <3>2
  <2>4. OneLiveLink'
    BY <1>2, <1>4 DEF Chain, OneLiveLink
  <2>5. LiveSessionCanRenew'
    <3> SUFFICES ASSUME NEW s \in LiveSessions' \ cut'
                 PROVE  \/ \E l \in Links : Usable(l)' /\ link'[l].owner = s
                        \/ \E q \in Reqs : At(q, "mint")' /\ req'[q].session = s
        BY DEF LiveSessionCanRenew
    <3>1. s \in LiveSessions \ cut /\ s \notin ids
      BY <1>1, <1>6 DEF LiveSessions
    <3>2. CASE \E l \in Links : Usable(l) /\ link[l].owner = s
      BY <1>2, <1>4, <3>1, <3>2
    <3>3. CASE \E q \in Reqs : At(q, "mint") /\ req[q].session = s
      BY <3>3 DEF Moves, At
    <3> QED BY <3>1, <3>2, <3>3 DEF Chain, LiveSessionCanRenew
  <2> QED BY <2>1, <2>2, <2>3, <2>4, <2>5 DEF Chain
<1>10. Codes'
  BY <1>1, <1>4, <1>6 DEF Codes, OneSessionPerCode, Opened
<1>11. Tokens'
  BY DEF Tokens, Rows
<1>12. ResetEndsEarlierSessions'
  <2> SUFFICES ASSUME NEW s \in LiveSessions' PROVE session'[s].since >= closed'
      BY DEF ResetEndsEarlierSessions
  <2>1. s \in LiveSessions /\ s \in Sessions /\ s \notin ids /\ session'[s].since = session[s].since
    BY <1>1 DEF LiveSessions
  <2> QED BY <2>1 DEF ResetEndsEarlierSessions, Newer
<1>13. Tries'
  BY <1>6, TriesKept DEF Missing, At, Moves
<1> QED BY <1>3, <1>8, <1>9, <1>10, <1>11, <1>12, <1>13 DEF Moves

LEMMA RevocationsKeep ==
  ASSUME Inv, NEW r \in Reqs,
         RevokeReuse(r) \/ LogoutRevoke(r) \/ OthersWrite(r) \/ ChangeWrite(r)
  PROVE  Inv'
<1>0. /\ req[r] \in Request /\ Place(req[r]) /\ Idle.pc = "idle" /\ Place(Idle)
  BY IdleIsInPlace DEF Inv, Requests, InPlace, Idle
<1>1. CASE RevokeReuse(r)
  <2>1. {req[r].session} \in SUBSET Sessions /\ ~At(r, "mint") /\ Moves(r, Idle)
    BY <1>0, <1>1, DoneMoves DEF RevokeReuse, At, Place, Opened, Inv
  <2> QED BY <1>0, <1>1, <2>1, RevokeKeeps DEF RevokeReuse, ghosts
<1>2. CASE LogoutRevoke(r)
  <2>1. {req[r].session} \in SUBSET Sessions /\ ~At(r, "mint") /\ req[r].pc = "logout"
    BY <1>0, <1>2 DEF LogoutRevoke, At, Place, Opened
  <2>2. CASE Done(r)
    BY <1>0, <1>2, <2>1, <2>2, DoneMoves, RevokeKeeps DEF LogoutRevoke, Inv, ghosts
  <2>3. CASE Goto(r, "others")
    <3> DEFINE x == [req[r] EXCEPT !.pc = "others"]
    <3>1. Moves(r, x) /\ x.pc = "others" /\ x.session = req[r].session /\ x.link = req[r].link
          /\ x.epoch = req[r].epoch
      BY <1>0, <2>3, GotoMoves DEF Inv, Request, Pcs
    <3> HIDE DEF x
    <3>2. Place(x)
      BY <1>0, <2>1, <3>1 DEF Place, Rotating, Carrying
    <3> QED BY <1>2, <2>1, <3>1, <3>2, RevokeKeeps DEF LogoutRevoke, ghosts
  <2> QED BY <1>2, <2>2, <2>3 DEF LogoutRevoke
<1>3. CASE OthersWrite(r)
  <2>1. req[r].ids \in SUBSET Sessions /\ ~At(r, "mint") /\ Moves(r, Idle)
    BY <1>0, <1>3, DoneMoves, RequestFields DEF OthersWrite, At, Inv
  <2> QED BY <1>0, <1>3, <2>1, RevokeKeeps DEF OthersWrite, ghosts
<1>4. CASE ChangeWrite(r)
  <2>1. req[r].ids \in SUBSET Sessions /\ ~At(r, "mint") /\ Moves(r, Idle)
    BY <1>0, <1>4, DoneMoves, RequestFields DEF ChangeWrite, At, Inv
  <2>2. LiveSessions \subseteq req[r].ids \union Newer
    BY <1>0, <1>4 DEF ChangeWrite, At, Place
  <2> QED BY <1>0, <1>4, <2>1, <2>2, RevokeKeeps DEF ChangeWrite
<1> QED BY <1>1, <1>2, <1>3, <1>4

\* A new session: a row nobody knew, a token nobody held.
LEMMA OpenSessionKeeps == ASSUME Inv, NEW r \in Reqs, OpenSession(r) PROVE Inv'
<1> USE DEF Inv
<1>1. PICK s \in Sessions \ Opened, l \in Links \ Minted :
        /\ session' = [session EXCEPT ![s] = Born(r)]
        /\ access' = [access EXCEPT ![s] = [claim |-> req[r].epoch, minted |-> password]]
        /\ link' = [link EXCEPT ![l].owner = s]
  BY DEF OpenSession
<1>2. /\ Moves(r, Idle) /\ Idle.pc = "idle" /\ Place(Idle) /\ Place(req[r])
      /\ req[r].pc = "open" /\ req[r].code \in 0..MaxCodes /\ req[r].epoch \in Nat
      /\ req[r].password \in Nat
      /\ UNCHANGED <<password, epoch, reset, code, issued, cut, begun, closed>>
  BY DoneMoves, IdleIsInPlace, RequestFields
     DEF OpenSession, At, Idle, Requests, InPlace, codes, ghosts
<1>3. Rows'
  <2>1. session' \in [Sessions -> [state : {"none", "live", "revoked"}, born : Nat, since : Nat, code : 0..MaxCodes]]
    BY <1>1, <1>2 DEF Rows, Born
  <2>2. access' \in [Sessions -> [claim : Nat, minted : Nat]]
    BY <1>1, <1>2 DEF Rows
  <2>3. link' \in [Links -> [owner : Sessions \union {NoSession}, used : BOOLEAN, revoked : BOOLEAN]]
    BY <1>1 DEF Rows
  <2> QED BY <1>1, <1>2, <2>1, <2>2, <2>3 DEF Rows
<1>4. /\ Opened' = Opened \union {s} /\ LiveSessions' = LiveSessions \union {s}
      /\ \A t \in Sessions : t # s => session'[t] = session[t] /\ (Live(t)' <=> Live(t))
      /\ Live(s)' /\ session'[s].code = req[r].code /\ session'[s].since = begun
  BY <1>1 DEF Born, Opened, LiveSessions, Live, Rows
<1>5. /\ \A m \in Links : m # l => link'[m] = link[m] /\ (Usable(m)' <=> Usable(m))
      /\ link'[l].owner = s /\ ~link'[l].used /\ ~link'[l].revoked
      /\ Minted' = Minted \union {l} /\ Usable(l)' /\ ~Usable(l)
  BY <1>1, RowsAssumption DEF Minted, Usable, Chain, Unminted, Rows
<1>6. InPlace'
  <2>1. ASSUME NEW q \in Reqs, q # r PROVE Place(req[q])'
    <3> DEFINE y == req[q]
    <3>1. y' = y /\ Place(y) /\ y \in Request
      BY <1>2, <2>1 DEF InPlace, Moves, Requests
    <3> HIDE DEF y
    <3>2. y.link # NoLink => y.link \in Minted' /\ link'[y.link].owner = y.session
      BY <1>5, <3>1 DEF Place, Minted
    <3>3. y.pc \in {"account", "spend"} /\ Usable(y.link)' => Live(y.session)'
      BY <1>4, <1>5, <3>1, RowsAssumption DEF Place, Rotating, Opened, Minted
    <3>4. y.pc = "mint" => \A m \in Links : Usable(m)' => link'[m].owner # y.session
      BY <1>5, <3>1 DEF Place, Rotating
    <3>5. y.pc \in Carrying /\ y.code # 0 => \A t \in Opened' : session'[t].code # y.code
      <4>1. Apart(req[r], req[q])
        BY <2>1 DEF InPlace
      <4>2. y.pc \in Carrying /\ y.code # 0 => y.code # req[r].code
        BY <1>2, <3>1, <4>1 DEF Apart, Carrying, y
      <4> QED BY <1>4, <3>1, <4>2 DEF Place, Opened
    <3>6. y.pc = "changeWrite" => LiveSessions' \subseteq y.ids \union Newer'
      <4>1. begun' = begun /\ begun \in Nat /\ s \in Sessions
        BY <1>1, <1>2 DEF Rows
      <4>2. s \in Newer'
        BY <1>4, <4>1 DEF Newer
      <4>3. Newer \subseteq Newer'
        BY <1>4, <4>1, <4>2 DEF Newer
      <4> QED BY <1>4, <3>1, <4>2, <4>3 DEF Place
    <3> QED BY <1>2, <1>4, <3>1, <3>2, <3>3, <3>4, <3>5, <3>6 DEF Place, y
  <2>2. Place(req[r])'
    BY <1>2, <1>3, IdleIsInPlace DEF Place, Moves, Rotating, Carrying, Rows
  <2>3. \A q \in Reqs : Apart(Idle, req[q]) /\ Apart(req[q], Idle)
    BY <1>2 DEF Apart, Carrying
  <2> QED BY <1>2, <2>1, <2>2, <2>3 DEF InPlace, Moves
<1>7. Chain'
  <2>1. (\A m \in Links : m \notin Minted => link[m] = Unminted)'
    BY <1>5 DEF Chain
  <2>2. (\A m \in Minted : link[m].owner \in Opened)'
    BY <1>4, <1>5 DEF Chain, Minted
  <2>3. (\A m \in Links : link[m].revoked => ~Live(link[m].owner))'
    BY <1>4, <1>5, RowsAssumption DEF Chain, Unminted, Opened, Live
  <2>4. OneLiveLink'
    BY <1>5 DEF Chain, OneLiveLink, Usable
  <2>5. LiveSessionCanRenew'
    <3> SUFFICES ASSUME NEW t \in LiveSessions' \ cut'
                 PROVE  \/ \E m \in Links : Usable(m)' /\ link'[m].owner = t
                        \/ \E q \in Reqs : At(q, "mint")' /\ req'[q].session = t
        BY DEF LiveSessionCanRenew
    <3>1. CASE t = s
      BY <1>5, <3>1
    <3>2. CASE t # s
      <4>1. t \in LiveSessions \ cut
        BY <1>2, <1>4, <3>2
      <4>2. CASE \E m \in Links : Usable(m) /\ link[m].owner = t
        BY <1>5, <4>2
      <4>3. CASE \E q \in Reqs : At(q, "mint") /\ req[q].session = t
        BY <1>2, <4>3 DEF Moves, At
      <4> QED BY <4>1, <4>2, <4>3 DEF Chain, LiveSessionCanRenew
    <3> QED BY <3>1, <3>2
  <2> QED BY <2>1, <2>2, <2>3, <2>4, <2>5 DEF Chain
<1>8. Codes'
  BY <1>2, <1>4 DEF Codes, OneSessionPerCode, Place, Carrying, Opened
<1>9. Tokens'
  BY <1>1, <1>2 DEF Tokens, Rows, Place
<1>10. ResetEndsEarlierSessions'
  BY <1>1, <1>2, <1>4 DEF ResetEndsEarlierSessions, Rows, LiveSessions
<1>11. Tries'
  BY <1>2, TriesKept DEF Missing, At, Moves
<1> QED BY <1>2, <1>3, <1>6, <1>7, <1>8, <1>9, <1>10, <1>11 DEF Moves

\* The first half of a rotation: the session's one live link is gone, and the
\* request that spent it is the only one about to mint another.
LEMMA SpendLinkKeeps == ASSUME Inv, NEW r \in Reqs, SpendLink(r) PROVE Inv'
<1> USE DEF Inv
<1>0. PICK l \in Links :
        /\ req[r] \in Request /\ Place(req[r]) /\ req[r].pc = "spend" /\ req[r].link = l
        /\ link[l].owner = req[r].session /\ req[r].session \in Opened
  BY RowsAssumption DEF SpendLink, At, Requests, InPlace, Place, Rotating
<1>1. CASE ~Usable(l)
  <2> DEFINE x == [req[r] EXCEPT !.pc = "reuse"]
  <2>1. req' = [req EXCEPT ![r] = x] /\ ~At(r, "mint") /\ UNCHANGED <<rows, codes, ghosts>>
    BY <1>0, <1>1 DEF SpendLink, Goto, Requests, rows, At
  <2>2. /\ x \in Request /\ x.pc = "reuse" /\ x.session = req[r].session /\ x.link = l
        /\ x.epoch = req[r].epoch
    BY <1>0 DEF Request, Pcs
  <2> HIDE DEF x
  <2>3. Place(x)
    BY <1>0, <2>2 DEF Place, Rotating, Carrying
  <2> QED BY <2>1, <2>2, <2>3, MovingKeeps DEF Carrying
<1>2. CASE Usable(l)
  <2>1. link' = [link EXCEPT ![l].used = TRUE] /\ Goto(r, "mint")
    BY <1>0, <1>2 DEF SpendLink
  <2>2. UNCHANGED <<password, epoch, session, access, reset, code, issued, cut, begun, closed>>
    BY DEF SpendLink, codes, ghosts
  <2>3. PICK x : /\ Moves(r, x) /\ x.pc = "mint" /\ x.session = req[r].session
                 /\ x.link = l /\ x.epoch = req[r].epoch
    <3> DEFINE x == [req[r] EXCEPT !.pc = "mint"]
    <3>1. Moves(r, x)
      BY <2>1, GotoMoves DEF Pcs
    <3> QED BY <1>0, <3>1 DEF Request
  <2>4. /\ Minted' = Minted /\ Opened' = Opened /\ LiveSessions' = LiveSessions
        /\ \A m \in Links :
             /\ link'[m].owner = link[m].owner
             /\ link'[m].revoked = link[m].revoked
             /\ m # l => link'[m] = link[m]
             /\ Usable(m)' <=> Usable(m) /\ m # l
        /\ \A t : Live(t)' <=> Live(t)
    BY <1>0, <2>1, <2>2 DEF Minted, Opened, LiveSessions, Usable, Live, Rows
  <2>5. \A m \in Links : Usable(m)' => link[m].owner # x.session
    BY <1>0, <1>2, <2>3, <2>4 DEF Chain, OneLiveLink
  <2>6. \A q \in Reqs : q # r => ~(req[q].pc = "mint" /\ req[q].session = x.session)
    BY <1>0, <1>2, <2>3 DEF InPlace, Place
  <2>7. Rows'
    <3>1. link' \in [Links -> [owner : Sessions \union {NoSession}, used : BOOLEAN, revoked : BOOLEAN]]
      BY <2>1 DEF Rows
    <3> QED BY <2>2, <3>1 DEF Rows
  <2>8. InPlace'
    <3>1. Place(x)'
      <4>1. l \in Minted /\ req[r].epoch <= epoch
        BY <1>0, <1>2 DEF Usable, Place
      <4> QED BY <1>0, <2>2, <2>3, <2>4, <2>5, <4>1 DEF Place, Rotating, Carrying
    <3>2. ASSUME NEW q \in Reqs, q # r PROVE Place(req[q])'
      <4>1. PICK y : y = req[q] /\ y = req'[q] /\ Place(y)
        BY <2>3, <3>2 DEF InPlace, Moves
      <4>2. y.pc \in {"account", "spend"} /\ Usable(y.link)' => Live(y.session)'
        BY <2>4, <4>1 DEF Place, Rotating
      <4>3. y.pc = "mint" => \A m \in Links : Usable(m)' => link'[m].owner # y.session
        BY <2>4, <4>1 DEF Place
      <4>4. y.link # NoLink => y.link \in Minted' /\ link'[y.link].owner = y.session
        BY <2>4, <4>1 DEF Place, Minted
      <4>5. Newer' = Newer
        BY <2>2 DEF Newer
      <4>6. Place(y)'
        BY <2>2, <2>4, <4>1, <4>2, <4>3, <4>4, <4>5 DEF Place
      <4> QED BY <4>1, <4>6
    <3>3. \A q \in Reqs \ {r} : Apart(x, req[q]) /\ Apart(req[q], x)
      BY <2>3, <2>6 DEF Apart, Carrying
    <3>4. \A q \in Reqs : Place(req[q])'
      <4>1. req'[r] = x
        BY <2>3 DEF Moves
      <4> QED BY <3>1, <3>2, <4>1 DEF Place
    <3> QED BY <2>3, <3>3, <3>4 DEF InPlace, Moves
  <2>9. Chain'
    <3>1. (\A m \in Links : m \notin Minted => link[m] = Unminted)'
      BY <1>2, <2>4 DEF Chain, Usable
    <3>2. (\A m \in Minted : link[m].owner \in Opened)'
      BY <2>4 DEF Chain, Minted
    <3>3. (\A m \in Links : link[m].revoked => ~Live(link[m].owner))'
      BY <2>4 DEF Chain
    <3>4. OneLiveLink'
      BY <2>4 DEF Chain, OneLiveLink
    <3>5. LiveSessionCanRenew'
      <4> SUFFICES ASSUME NEW t \in LiveSessions \ cut
                   PROVE  \/ \E m \in Links : Usable(m)' /\ link'[m].owner = t
                          \/ \E q \in Reqs : At(q, "mint")' /\ req'[q].session = t
          BY <2>2, <2>4 DEF LiveSessionCanRenew
      <4>1. CASE t = req[r].session
        BY <2>3, <4>1 DEF Moves, At
      <4>2. CASE t # req[r].session
        <5>1. CASE \E m \in Links : Usable(m) /\ link[m].owner = t
          BY <1>0, <2>4, <4>2, <5>1
        <5>2. CASE \E q \in Reqs : At(q, "mint") /\ req[q].session = t
          BY <1>0, <2>3, <5>2 DEF Moves, At
        <5> QED BY <5>1, <5>2 DEF Chain, LiveSessionCanRenew
      <4> QED BY <4>1, <4>2
    <3> QED BY <3>1, <3>2, <3>3, <3>4, <3>5 DEF Chain
  <2>10. Codes' /\ Tokens' /\ ResetEndsEarlierSessions'
    BY <2>2, <2>4 DEF Codes, Tokens, OneSessionPerCode, ResetEndsEarlierSessions
  <2>11. Tries'
    BY <2>2, <2>3, TriesKept DEF Missing, At, Moves
  <2> QED BY <2>3, <2>7, <2>8, <2>9, <2>10, <2>11 DEF Moves
<1> QED BY <1>1, <1>2

\* The second half: the one request that may mint for the session does.
LEMMA MintKeeps == ASSUME Inv, NEW r \in Reqs, Mint(r) PROVE Inv'
<1> USE DEF Inv
<1>0. PICK s \in Opened :
        /\ req[r] \in Request /\ Place(req[r]) /\ req[r].pc = "mint" /\ req[r].session = s
        /\ s \in Sessions
  BY DEF Mint, At, Requests, InPlace, Place, Rotating, Opened
<1>1. PICK l \in Links \ Minted : link' = [link EXCEPT ![l].owner = s]
  BY <1>0 DEF Mint
<1>2. /\ access' = [access EXCEPT ![s] = [claim |-> req[r].epoch, minted |-> password]]
      /\ UNCHANGED <<password, epoch, session, reset, code, issued, cut, begun, closed>>
      /\ Moves(r, Idle) /\ Idle.pc = "idle" /\ Place(Idle)
  BY <1>0, DoneMoves, IdleIsInPlace DEF Mint, codes, ghosts, Idle
<1>3. req[r].epoch \in Nat /\ req[r].epoch <= epoch
  BY <1>0, RequestFields DEF Place
<1>4. Rows'
  <2>1. access' \in [Sessions -> [claim : Nat, minted : Nat]]
    BY <1>2, <1>3 DEF Rows
  <2>2. link' \in [Links -> [owner : Sessions \union {NoSession}, used : BOOLEAN, revoked : BOOLEAN]]
    BY <1>0, <1>1 DEF Rows
  <2> QED BY <1>2, <2>1, <2>2 DEF Rows
<1>5. /\ \A m \in Links : m # l => link'[m] = link[m] /\ (Usable(m)' <=> Usable(m))
      /\ link'[l].owner = s /\ ~link'[l].used /\ ~link'[l].revoked
      /\ Minted' = Minted \union {l} /\ Usable(l)' /\ ~Usable(l)
      /\ Opened' = Opened /\ LiveSessions' = LiveSessions /\ \A t : Live(t)' <=> Live(t)
  BY <1>0, <1>1, <1>2, RowsAssumption
     DEF Minted, Usable, Chain, Unminted, Rows, Opened, LiveSessions, Live
<1>6. \A q \in Reqs : q # r => ~(req[q].pc = "mint" /\ req[q].session = s)
  BY <1>0 DEF InPlace, Apart
<1>7. InPlace'
  <2>1. ASSUME NEW q \in Reqs, q # r PROVE Place(req[q])'
    <3>1. PICK y : y = req[q] /\ y = req'[q] /\ Place(y)
      BY <1>2, <2>1 DEF InPlace, Moves
    <3>2. y.link # NoLink => y.link \in Minted' /\ link'[y.link].owner = y.session
      BY <1>5, <3>1 DEF Place, Minted
    <3>3. y.pc \in {"account", "spend"} /\ Usable(y.link)' => Live(y.session)'
      <4>1. y.pc \in {"account", "spend"} => y.link \in Links /\ y.link # l
        BY <1>5, <3>1, RowsAssumption DEF Place, Rotating
      <4> QED BY <1>5, <3>1, <4>1 DEF Place
    <3>4. y.pc = "mint" => \A m \in Links : Usable(m)' => link'[m].owner # y.session
      BY <1>5, <1>6, <2>1, <3>1 DEF Place
    <3>5. Newer' = Newer
      BY <1>2 DEF Newer
    <3>6. Place(y)'
      BY <1>2, <1>5, <3>1, <3>2, <3>3, <3>4, <3>5 DEF Place
    <3> QED BY <3>1, <3>6
  <2>2. Place(req[r])'
    BY <1>2, <1>4, IdleIsInPlace DEF Place, Moves, Rotating, Carrying, Rows
  <2>3. \A q \in Reqs : Apart(Idle, req[q]) /\ Apart(req[q], Idle)
    BY <1>2 DEF Apart, Carrying
  <2> QED BY <1>2, <2>1, <2>2, <2>3 DEF InPlace, Moves
<1>8. Chain'
  <2>1. (\A m \in Links : m \notin Minted => link[m] = Unminted)'
    BY <1>5 DEF Chain
  <2>2. (\A m \in Minted : link[m].owner \in Opened)'
    BY <1>5 DEF Chain, Minted
  <2>3. (\A m \in Links : link[m].revoked => ~Live(link[m].owner))'
    BY <1>5 DEF Chain
  <2>4. OneLiveLink'
    <3>1. \A m \in Links : Usable(m) => link[m].owner # s
      BY <1>0 DEF Place
    <3> QED BY <1>5, <3>1 DEF Chain, OneLiveLink
  <2>5. LiveSessionCanRenew'
    <3> SUFFICES ASSUME NEW t \in LiveSessions \ cut
                 PROVE  \/ \E m \in Links : Usable(m)' /\ link'[m].owner = t
                        \/ \E q \in Reqs : At(q, "mint")' /\ req'[q].session = t
        BY <1>2, <1>5 DEF LiveSessionCanRenew
    <3>1. CASE t = s
      BY <1>5, <3>1
    <3>2. CASE t # s
      <4>1. CASE \E m \in Links : Usable(m) /\ link[m].owner = t
        BY <1>5, <4>1
      <4>2. CASE \E q \in Reqs : At(q, "mint") /\ req[q].session = t
        BY <1>0, <1>2, <3>2, <4>2 DEF Moves, At
      <4> QED BY <4>1, <4>2 DEF Chain, LiveSessionCanRenew
    <3> QED BY <3>1, <3>2
  <2> QED BY <2>1, <2>2, <2>3, <2>4, <2>5 DEF Chain
<1>9. Codes' /\ ResetEndsEarlierSessions'
  BY <1>2, <1>5 DEF Codes, OneSessionPerCode, ResetEndsEarlierSessions
<1>10. Tokens'
  BY <1>2, <1>3 DEF Tokens, Rows
<1>11. Tries'
  BY <1>2, TriesKept DEF Missing, At, Moves
<1> QED BY <1>2, <1>4, <1>7, <1>8, <1>9, <1>10, <1>11 DEF Moves

\* What changes neither the sessions nor the tokens keeps what is said of them.
LEMMA TablesKept ==
  ASSUME Inv, NEW r \in Reqs, NEW x, Moves(r, x), ~At(r, "mint"),
         UNCHANGED <<password, epoch, session, access, link, ghosts>>
  PROVE  Chain' /\ Tokens' /\ ResetEndsEarlierSessions'
<1>1. LiveSessionCanRenew'
  BY DEF Inv, Chain, LiveSessionCanRenew, Moves, At, Usable, Minted, Live, LiveSessions, ghosts
<1> QED BY <1>1 DEF Inv, Chain, OneLiveLink, Usable, Minted, Live, Opened, LiveSessions,
                    Tokens, ResetEndsEarlierSessions, ghosts

\* A guess that was wrong is counted; its request no longer is.
LEMMA MissKeeps == ASSUME Inv, NEW r \in Reqs, Miss(r) PROVE Inv'
<1> USE DEF Inv
<1>0. PICK c \in 1..MaxCodes :
        /\ req[r].code = c /\ req[r].pc = "miss" /\ code' = [code EXCEPT ![c].tries = @ + 1]
        /\ code[c] \in [tries : Nat, used : BOOLEAN]
  BY DEF Miss, At, InPlace, Place, Rows
<1>1. /\ Moves(r, Idle) /\ Idle.pc = "idle" /\ Place(Idle) /\ ~At(r, "mint")
      /\ UNCHANGED <<password, epoch, session, access, link, reset, issued, cut, begun, closed>>
  BY <1>0, DoneMoves, IdleIsInPlace DEF Miss, rows, ghosts, Idle, At
<1>2. /\ code' \in [1..MaxCodes -> [tries : Nat, used : BOOLEAN]]
      /\ \A d \in 1..MaxCodes : code'[d].used = code[d].used
      /\ \A d \in 1..MaxCodes : d # c => code'[d].tries = code[d].tries
      /\ code'[c].tries = code[c].tries + 1
  <2> DEFINE Row == [tries : Nat, used : BOOLEAN]
  <2>1. code \in [1..MaxCodes -> Row]
    BY DEF Rows
  <2>2. /\ [code[c] EXCEPT !.tries = @ + 1] \in Row
        /\ [code[c] EXCEPT !.tries = @ + 1].used = code[c].used
        /\ [code[c] EXCEPT !.tries = @ + 1].tries = code[c].tries + 1
    BY <1>0
  <2>3. code' = [code EXCEPT ![c] = [code[c] EXCEPT !.tries = @ + 1]]
    BY <1>0, <2>1
  <2> HIDE DEF Row
  <2>4. /\ code' \in [1..MaxCodes -> Row]
        /\ code'[c] = [code[c] EXCEPT !.tries = @ + 1]
        /\ \A d \in 1..MaxCodes : d # c => code'[d] = code[d]
    BY <2>1, <2>2, <2>3
  <2> QED BY <2>2, <2>4 DEF Row
<1>3. Rows'
  BY <1>1, <1>2 DEF Rows
<1>4. InPlace'
  <2>1. ASSUME NEW y \in Request, Place(y) PROVE Place(y)'
    <3>1. y.code # 0 => y.code \in 1..MaxCodes
      BY RequestFields, CodesAssumption
    <3> QED BY <1>1, <1>2, <2>1, <3>1 DEF Place, Opened, Usable, Minted, Live, LiveSessions, Newer
  <2>2. \A q \in Reqs : Place(req[q])'
    <3> SUFFICES ASSUME NEW q \in Reqs PROVE Place(req[q])'
        OBVIOUS
    <3>1. req'[q] \in Request /\ Place(req'[q])
      BY <1>1 DEF InPlace, Moves, Requests
    <3> QED BY <2>1, <3>1 DEF Place
  <2>3. \A q \in Reqs : Apart(Idle, req[q]) /\ Apart(req[q], Idle)
    BY <1>1 DEF Apart, Carrying
  <2> QED BY <1>1, <2>2, <2>3 DEF InPlace, Moves
<1>5. Chain' /\ Tokens' /\ ResetEndsEarlierSessions'
  BY <1>1, TablesKept DEF ghosts
<1>6. Codes'
  <2>1. \A s \in Opened : session[s].code # 0 => session[s].code \in 1..MaxCodes
    BY CodesAssumption DEF Rows, Opened
  <2> QED BY <1>1, <1>2, <2>1 DEF Codes, OneSessionPerCode, Opened
<1>7. Tries'
  <2> SUFFICES ASSUME NEW d \in 1..MaxCodes
               PROVE  code'[d].tries + Cardinality(Missing(d)') < OtpMax + Cardinality(Reqs)
      BY DEF Tries
  <2>1. /\ IsFiniteSet(Reqs) /\ OtpMax \in Nat /\ code[d].tries \in Nat /\ Cardinality(Reqs) \in Nat
    BY RowsAssumption, CodesAssumption, FS_CardinalityType DEF Rows
  <2>2. IsFiniteSet(Missing(d)) /\ Cardinality(Missing(d)) \in Nat
    BY <2>1, CountBound DEF Missing
  <2>3. Missing(d)' = Missing(d) \ {r}
    BY <1>1 DEF Missing, At, Moves
  <2>4. CASE d = c
    <3>1. r \in Missing(d)
      BY <1>0, <2>4 DEF Missing, At
    <3>2. Cardinality(Missing(d)') = Cardinality(Missing(d)) - 1
      BY <2>2, <2>3, <3>1, FS_RemoveElement
    <3> QED BY <1>2, <2>1, <2>2, <2>4, <3>2 DEF Tries
  <2>5. CASE d # c
    <3>1. Cardinality(Missing(d)') \in Nat /\ Cardinality(Missing(d)') <= Cardinality(Missing(d))
      BY <2>2, <2>3, CountBound
    <3> QED BY <1>2, <2>1, <2>2, <2>5, <3>1 DEF Tries
  <2> QED BY <2>4, <2>5
<1> QED BY <1>1, <1>3, <1>4, <1>5, <1>6, <1>7 DEF Moves

\* A code is spent once: its request is the only one that carries it.
LEMMA SpendCodeKeeps == ASSUME Inv, NEW r \in Reqs, SpendCode(r) PROVE Inv'
<1> USE DEF Inv
<1>0. PICK c \in 1..MaxCodes :
        /\ req[r] \in Request /\ Place(req[r])
        /\ req[r].code = c /\ req[r].pc = "spendCode" /\ ~At(r, "mint")
        /\ c # 0
  BY CodesAssumption DEF SpendCode, At, Requests, InPlace, Place
<1>1. UNCHANGED <<password, epoch, session, access, link, reset, issued, cut, begun, closed>>
  BY DEF SpendCode, rows, ghosts
<1>2. CASE code[c].used
  BY <1>0, <1>2, EndingKeeps DEF SpendCode, rows, codes, ghosts, Rows
<1>3. CASE ~code[c].used
  <2>1. code' = [code EXCEPT ![c].used = TRUE] /\ (Goto(r, "otpAccount") \/ Done(r))
    BY <1>0, <1>3 DEF SpendCode
  <2>2. PICK x : /\ Moves(r, x) /\ x.pc \in {"otpAccount", "idle"} /\ x.epoch <= epoch
                 /\ x.link # NoLink => x.link \in Minted /\ link[x.link].owner = x.session
                 /\ x.pc = "otpAccount" => x.code = c
    <3>1. CASE Done(r)
      BY <3>1, DoneMoves, IdleIsInPlace DEF Place, Idle
    <3>2. CASE Goto(r, "otpAccount")
      <4> DEFINE x == [req[r] EXCEPT !.pc = "otpAccount"]
      <4>1. Moves(r, x)
        BY <3>2, GotoMoves DEF Pcs
      <4>2. /\ x.pc = "otpAccount" /\ x.epoch = req[r].epoch /\ x.link = req[r].link
            /\ x.session = req[r].session /\ x.code = c
        BY <1>0 DEF Request
      <4> HIDE DEF x
      <4> QED BY <1>0, <4>1, <4>2 DEF Place
    <3> QED BY <2>1, <3>1, <3>2
  <2>3. /\ code' \in [1..MaxCodes -> [tries : Nat, used : BOOLEAN]]
        /\ \A d \in 1..MaxCodes : d # c => code'[d] = code[d]
        /\ code'[c].used /\ code'[c].tries = code[c].tries
    BY <2>1 DEF Rows
  <2>4. Rows'
    BY <1>1, <2>3 DEF Rows
  <2>5. InPlace'
    <3>1. ASSUME NEW y \in Request, Place(y) PROVE Place(y)'
      <4>1. y.code # 0 => y.code \in 1..MaxCodes
        BY RequestFields, CodesAssumption
      <4>2. y.pc \in Carrying /\ y.code # 0 => code'[y.code].used
        BY <2>3, <3>1, <4>1 DEF Place
      <4> QED BY <1>1, <3>1, <4>2 DEF Place, Opened, Usable, Minted, Live, LiveSessions, Newer
    <3>2. \A s \in Opened : session[s].code # c
      BY <1>0, <1>3 DEF Codes
    <3>3. Place(x)'
      BY <1>1, <2>2, <2>3, <3>2 DEF Place, Rotating, Carrying, Opened, Minted
    <3>4. \A q \in Reqs : Place(req[q])'
      <4> SUFFICES ASSUME NEW q \in Reqs PROVE Place(req[q])'
          OBVIOUS
      <4>1. CASE q = r
        BY <2>2, <3>3, <4>1 DEF Moves, Place
      <4>2. CASE q # r
        <5>1. req'[q] \in Request /\ Place(req'[q])
          BY <2>2, <4>2 DEF InPlace, Moves, Requests
        <5> QED BY <3>1, <5>1 DEF Place
      <4> QED BY <4>1, <4>2
    <3>5. \A q \in Reqs : req[q].pc \in Carrying => req[q].code # c
      BY <1>0, <1>3 DEF InPlace, Place
    <3>6. \A q \in Reqs : Apart(x, req[q]) /\ Apart(req[q], x)
      BY <2>2, <3>5 DEF Apart, Carrying
    <3> QED BY <2>2, <3>4, <3>6 DEF InPlace, Moves
  <2>6. Chain' /\ Tokens' /\ ResetEndsEarlierSessions'
    BY <1>0, <1>1, <2>2, TablesKept DEF ghosts
  <2>7. Codes'
    <3>1. \A s \in Opened : session[s].code # 0 => session[s].code \in 1..MaxCodes
      BY CodesAssumption DEF Rows, Opened
    <3> QED BY <1>1, <2>3, <3>1 DEF Codes, OneSessionPerCode, Opened
  <2>8. Tries'
    BY <2>2, <2>3, TriesKept DEF Missing, At, Moves
  <2> QED BY <2>2, <2>4, <2>5, <2>6, <2>7, <2>8 DEF Moves
<1> QED BY <1>2, <1>3

\* The reset tokens are told apart by nothing the invariant speaks of.
LEMMA ConsumeResetKeeps == ASSUME Inv, NEW r \in Reqs, ConsumeReset(r) PROVE Inv'
<1> USE DEF Inv
<1>0. PICK k \in Resets :
        /\ req[r] \in Request /\ Place(req[r]) /\ req[r].reset = k /\ req[r].pc = "consume"
        /\ ~At(r, "mint")
  BY DEF ConsumeReset, At, Requests, InPlace, Place
<1>1. UNCHANGED <<password, epoch, session, access, link, code, issued, cut, begun, closed>>
  BY DEF ConsumeReset, codes, ghosts
<1>2. CASE reset[k] = "used"
  BY <1>0, <1>1, <1>2, EndingKeeps DEF ConsumeReset, rows, codes, Rows
<1>3. CASE reset[k] # "used"
  <2>1. reset' = [reset EXCEPT ![k] = "used"] /\ Goto(r, "change")
    BY <1>0, <1>3 DEF ConsumeReset
  <2>2. PICK x : /\ Moves(r, x) /\ x.pc = "change" /\ x.epoch <= epoch
                 /\ x.link # NoLink => x.link \in Minted /\ link[x.link].owner = x.session
    <3> DEFINE x == [req[r] EXCEPT !.pc = "change"]
    <3>1. Moves(r, x)
      BY <2>1, GotoMoves DEF Pcs
    <3>2. /\ x.pc = "change" /\ x.epoch = req[r].epoch /\ x.link = req[r].link
          /\ x.session = req[r].session
      BY <1>0 DEF Request
    <3> HIDE DEF x
    <3> QED BY <1>0, <3>1, <3>2 DEF Place
  <2>3. Rows'
    BY <1>1, <2>1 DEF Rows
  <2>4. \A y : Place(y) => Place(y)'
    BY <1>1 DEF Place, Opened, Usable, Minted, Live, LiveSessions, Newer
  <2>5. InPlace'
    <3>1. Place(x)
      BY <2>2 DEF Place, Rotating, Carrying
    <3>2. \A q \in Reqs : Apart(x, req[q]) /\ Apart(req[q], x)
      BY <2>2 DEF Apart, Carrying
    <3> QED BY <2>2, <2>4, <3>1, <3>2 DEF InPlace, Moves
  <2>6. Chain' /\ Tokens' /\ ResetEndsEarlierSessions'
    BY <1>0, <1>1, <2>2, TablesKept DEF ghosts
  <2>7. Codes'
    BY <1>1 DEF Codes, OneSessionPerCode, Opened
  <2>8. Tries'
    BY <1>1, <2>2, TriesKept DEF Missing, At, Moves
  <2> QED BY <2>2, <2>3, <2>5, <2>6, <2>7, <2>8 DEF Moves
<1> QED BY <1>2, <1>3

\* A row that is added to the resets or to the codes.
LEMMA IssuingKeeps ==
  ASSUME Inv, RequestCode \/ \E k \in Resets : RequestReset(k)
  PROVE  Inv'
<1> USE DEF Inv
<1>1. /\ UNCHANGED <<password, epoch, session, access, link, code, cut, begun, closed, req>>
      /\ Rows'
  <2>1. CASE RequestCode
    BY <2>1, CodesAssumption DEF RequestCode, rows, ghosts, Rows
  <2>2. ASSUME NEW k \in Resets, RequestReset(k)
        PROVE  /\ UNCHANGED <<password, epoch, session, access, link, code, cut, begun, closed, req>>
               /\ Rows'
    BY <2>2 DEF RequestReset, codes, ghosts, Rows
  <2> QED BY <2>1, <2>2
<1>2. \A y : Place(y) => Place(y)'
  BY <1>1 DEF Place, Opened, Usable, Minted, Live, LiveSessions, Newer
<1>3. InPlace' /\ Requests'
  BY <1>1, <1>2 DEF InPlace, Apart, Requests
<1>4. Chain' /\ Codes' /\ Tokens' /\ ResetEndsEarlierSessions' /\ Tries'
  BY <1>1 DEF Chain, OneLiveLink, LiveSessionCanRenew, At, Usable, Minted, Live, Opened,
              LiveSessions, Codes, OneSessionPerCode, Tokens, ResetEndsEarlierSessions,
              Tries, Missing
<1> QED BY <1>1, <1>3, <1>4

-----------------------------------------------------------------------------
(* The invariant, and what follows from it.                                *)

LEMMA InvInit == Init => Inv
<1> SUFFICES ASSUME Init PROVE Inv
    OBVIOUS
<1> USE DEF Init
<1>1. Opened = {} /\ Minted = {} /\ LiveSessions = {}
  BY DEF Opened, Minted, LiveSessions, Live, Unopened, Unminted
<1>2. Rows
  BY CodesAssumption DEF Rows, Unopened, Unsigned, Unminted
<1>3. /\ Requests /\ \A r \in Reqs : req[r] = Idle /\ Place(req[r])
  BY <1>2, IdleIsInPlace DEF Requests
<1>4. InPlace
  BY <1>3 DEF InPlace, Apart, Carrying, Idle
<1>5. Chain
  BY <1>1, RowsAssumption
     DEF Chain, Unminted, OneLiveLink, Usable, LiveSessionCanRenew
<1>6. Codes /\ ResetEndsEarlierSessions
  BY <1>1 DEF Codes, OneSessionPerCode, ResetEndsEarlierSessions
<1>7. Tokens
  BY DEF Tokens, Unsigned
<1>8. Tries
  <2> SUFFICES ASSUME NEW c \in 1..MaxCodes
               PROVE  code[c].tries + Cardinality(Missing(c)) < OtpMax + Cardinality(Reqs)
      BY DEF Tries
  <2>1. Missing(c) = {}
    BY <1>3 DEF Missing, At, Idle
  <2> QED BY <2>1, FS_EmptySet, FS_CardinalityType, RowsAssumption, CodesAssumption
<1> QED BY <1>2, <1>3, <1>4, <1>5, <1>6, <1>7, <1>8 DEF Inv

LEMMA InvStep == Inv /\ [Next]_vars => Inv'
<1> SUFFICES ASSUME Inv, [Next]_vars PROVE Inv'
    OBVIOUS
<1>1. CASE UNCHANGED vars
  <2>1. /\ UNCHANGED <<password, epoch, session, access, link, reset, code, issued, cut,
                       begun, closed, req>>
    BY <1>1 DEF vars, rows, codes, ghosts
  <2>2. \A y : Place(y) => Place(y)'
    BY <2>1 DEF Place, Opened, Usable, Minted, Live, LiveSessions, Newer
  <2>3. InPlace' /\ Requests' /\ Rows'
    BY <2>1, <2>2 DEF Inv, InPlace, Apart, Requests, Rows
  <2>4. Chain' /\ Codes' /\ Tokens' /\ ResetEndsEarlierSessions' /\ Tries'
    BY <2>1 DEF Inv, Chain, OneLiveLink, LiveSessionCanRenew, At, Usable, Minted, Live, Opened,
                LiveSessions, Codes, OneSessionPerCode, Tokens, ResetEndsEarlierSessions,
                Tries, Missing
  <2> QED BY <2>3, <2>4 DEF Inv
<1>2. ASSUME NEW r \in Reqs, SignIn(r) PROVE Inv'
  BY <1>2, SignInReads, OpenSessionKeeps, MissKeeps, SpendCodeKeeps DEF SignIn
<1>3. ASSUME NEW r \in Reqs, Refresh(r) PROVE Inv'
  BY <1>3, RefreshReads, SpendLinkKeeps, MintKeeps, RevocationsKeep DEF Refresh
<1>4. ASSUME NEW r \in Reqs, Logout(r) PROVE Inv'
  BY <1>4, LogoutReads, RevocationsKeep DEF Logout
<1>5. ASSUME NEW r \in Reqs, ResetPassword(r) PROVE Inv'
  BY <1>5, ResetReads, ConsumeResetKeeps, RevocationsKeep DEF ResetPassword
<1>6. ASSUME NEW r \in Reqs, Crash(r) PROVE Inv'
  BY <1>6, CrashKeeps
<1> QED BY <1>1, <1>2, <1>3, <1>4, <1>5, <1>6, IssuingKeeps DEF Next

THEOREM Invariance == Spec => []Inv
  BY InvInit, InvStep, PTL DEF Spec

\* Types, and that no token is without its session and no request rotates a
\* token of another session than the one it would revoke.
THEOREM TypeCorrect == Spec => []TypeOK
<1>1. Inv => TypeOK
  BY DEF Inv, TypeOK, Rows, Requests, Chain, InPlace, Place
<1> QED BY <1>1, Invariance, PTL

\* However many requests carry the same token, one of them rotates it.
THEOREM OneLiveLinkHolds == Spec => []OneLiveLink
<1>1. Inv => OneLiveLink
  BY DEF Inv, Chain
<1> QED BY <1>1, Invariance, PTL

\* A session that nobody ended can be renewed, unless a rotation of it was cut
\* between its two queries.
THEOREM LiveSessionCanRenewHolds == Spec => []LiveSessionCanRenew
<1>1. Inv => LiveSessionCanRenew
  BY DEF Inv, Chain
<1> QED BY <1>1, Invariance, PTL

\* A code opens one session, however often it is presented.
THEOREM OneSessionPerCodeHolds == Spec => []OneSessionPerCode
<1>1. Inv => OneSessionPerCode
  BY DEF Inv, Codes
<1> QED BY <1>1, Invariance, PTL

\* However sign-ins, rotations and changes overlap, a password change ends every
\* session that it listed: what is alive was opened after the last listing that
\* was committed.
THEOREM ResetEndsEarlierSessionsHolds == Spec => []ResetEndsEarlierSessions
<1>1. Inv => ResetEndsEarlierSessions
  BY DEF Inv
<1> QED BY <1>1, Invariance, PTL

\* No access token signed before the last password change is admitted, be its
\* session alive or not.
THEOREM TokensDieHolds == Spec => []TokensDieWithThePassword
<1>1. Inv => TokensDieWithThePassword
  BY DEF Inv, Tokens, TokensDieWithThePassword, Admitted, Rows
<1> QED BY <1>1, Invariance, PTL

\* A code takes as many guesses as it allows, and one more for every other
\* request that was comparing when the last was counted.
THEOREM TriesAreBoundedHolds == Spec => []TriesAreBounded
<1>1. ASSUME Inv, NEW c \in 1..MaxCodes PROVE code[c].tries < OtpMax + Cardinality(Reqs)
  <2>1. /\ IsFiniteSet(Missing(c)) /\ Cardinality(Missing(c)) \in Nat /\ code[c].tries \in Nat
        /\ Cardinality(Reqs) \in Nat
    BY <1>1, RowsAssumption, CountBound, FS_CardinalityType DEF Inv, Rows, Missing
  <2> QED BY <1>1, <2>1, CodesAssumption DEF Inv, Tries
<1>2. Inv => TriesAreBounded
  BY <1>1 DEF TriesAreBounded
<1> QED BY <1>2, Invariance, PTL

\* A request that had found a session alive spends nothing of it once it has
\* been ended: who ended it has taken the token as well.
LEMMA SpendsOfTheLiving ==
  ASSUME Inv, [Next]_vars, NEW l \in Links, ~link[l].used, link'[l].used
  PROVE  Live(link[l].owner)
<1> USE DEF Inv, Rows
<1>1. CASE UNCHANGED vars
  BY <1>1 DEF vars, rows
<1>2. ASSUME NEW r \in Reqs, SpendLink(r) PROVE Live(link[l].owner)
  <2>1. l = req[r].link /\ Usable(l) /\ req[r].pc = "spend"
    BY <1>2 DEF SpendLink, At
  <2>2. l # NoLink /\ Place(req[r])
    BY RowsAssumption, <1>2 DEF InPlace
  <2> QED BY <2>1, <2>2 DEF Place
<1>3. ASSUME NEW r \in Reqs, NEW ids, Revoke(ids) PROVE FALSE
  BY <1>3 DEF Revoke
<1>4. ASSUME NEW r \in Reqs, OpenSession(r) \/ Mint(r) PROVE FALSE
  <2>1. PICK m \in Links : \E s : link' = [link EXCEPT ![m].owner = s]
    BY <1>4 DEF OpenSession, Mint
  <2>2. link'[l].used = link[l].used
    BY <2>1
  <2> QED BY <2>2
<1>5. ASSUME link' = link PROVE FALSE
  BY <1>5
<1>6. ASSUME NEW r \in Reqs, SignIn(r) PROVE FALSE
  BY <1>4, <1>5, <1>6 DEF SignIn, LoginRead, VerifyRead, Miss, SpendCode, OtpAccount, rows
<1>7. ASSUME NEW r \in Reqs, Refresh(r) PROVE Live(link[l].owner)
  BY <1>2, <1>3, <1>4, <1>5, <1>7 DEF Refresh, RefreshRead, RefreshAccount, RevokeReuse, rows
<1>8. ASSUME NEW r \in Reqs, Logout(r) PROVE FALSE
  BY <1>3, <1>5, <1>8 DEF Logout, LogoutRead, LogoutRevoke, OthersRead, OthersWrite, rows
<1>9. ASSUME NEW r \in Reqs, ResetPassword(r) PROVE FALSE
  BY <1>3, <1>5, <1>9 DEF ResetPassword, ResetRead, ConsumeReset, ChangeRead, ChangeWrite, rows
<1> QED BY <1>1, <1>5, <1>6, <1>7, <1>8, <1>9
        DEF Next, Crash, RequestReset, RequestCode, rows

\* No token of a session that has been ended is spent, one that a rotation under
\* way minted after the end included.
THEOREM DeadSessionsSpendNothingHolds == Spec => DeadSessionsSpendNothing
<1>1. Inv /\ [Next]_vars
      => [\A l \in Links : ~link[l].used /\ link'[l].used => Live(link[l].owner)]_vars
  BY SpendsOfTheLiving
<1> QED BY <1>1, Invariance, PTL DEF Spec, DeadSessionsSpendNothing
=============================================================================
