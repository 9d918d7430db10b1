----------------------------- MODULE AuthSessions -----------------------------
(***************************************************************************)
(* Sessions of one account in the backend (backend/src/modules/auth):      *)
(* password and one-time-code sign-in, the rotating chain of refresh       *)
(* tokens, sign-out, and the password reset that ends every session.       *)
(*                                                                         *)
(* Requests are served concurrently by an event loop over a PostgreSQL     *)
(* database at read committed.  Every awaited query is a step of its own;  *)
(* a transaction is one step, except where it reads rows and then writes   *)
(* to the ids it has read.  A request may die between any two steps.       *)
(*                                                                         *)
(* Abstracted: a password is the number of changes before it, a token or a *)
(* code is its row.  Anybody may present any token at any time, again and  *)
(* late, so a lost answer and a client that retries are behaviours.        *)
(***************************************************************************)
EXTENDS Integers, FiniteSets

CONSTANTS
  Reqs,           \* requests in flight at once
  Sessions,       \* rows the database may come to hold: sessions,
  Links,          \* refresh tokens,
  Resets,         \* and password resets
  MaxCodes,       \* one-time codes issued, at most
  OtpMax,         \* AUTH_OTP_MAX_ATTEMPTS
  NoSession, NoLink, NoReset

ASSUME RowsAssumption ==
  /\ NoSession \notin Sessions /\ NoLink \notin Links /\ NoReset \notin Resets
  /\ IsFiniteSet(Reqs)
ASSUME CodesAssumption == MaxCodes \in Nat /\ OtpMax \in Nat \ {0}

VARIABLES
  password,       \* credentials.passwordHash: how often it has been changed
  epoch,          \* credentials.tokenEpoch
  session,        \* the sessions table
  access,         \* the newest access token signed for each session
  link,           \* the refresh_tokens table: every session's chain
  reset,          \* the password_resets table
  code,           \* the otp_challenges table, oldest first
  issued,         \* how many codes there are; the latest is the one that counts
  cut,            \* sessions whose rotation died between its two queries
  begun,          \* how many password changes have listed the open sessions,
  closed,         \* and which of them was the last to commit
  req             \* what each request knows and where it is

rows == <<password, epoch, session, access, link, reset>>
codes == <<code, issued>>
ghosts == <<cut, begun, closed>>
vars == <<rows, codes, ghosts, req>>

-----------------------------------------------------------------------------

Unopened == [state |-> "none", born |-> 0, since |-> 0, code |-> 0]
Unsigned == [claim |-> 0, minted |-> 0]
Unminted == [owner |-> NoSession, used |-> FALSE, revoked |-> FALSE]

Idle ==
  [ pc |-> "idle", session |-> NoSession, link |-> NoLink, reset |-> NoReset,
    password |-> 0, epoch |-> 0, code |-> 0, ids |-> {}, all |-> FALSE ]

Init ==
  /\ password = 0 /\ epoch = 0
  /\ session = [s \in Sessions |-> Unopened]
  /\ access = [s \in Sessions |-> Unsigned]
  /\ link = [l \in Links |-> Unminted]
  /\ reset = [k \in Resets |-> "none"]
  /\ code = [c \in 1..MaxCodes |-> [tries |-> 0, used |-> FALSE]]
  /\ issued = 0
  /\ cut = {} /\ begun = 0 /\ closed = 0
  /\ req = [r \in Reqs |-> Idle]

At(r, pc) == req[r].pc = pc
Goto(r, pc) == req' = [req EXCEPT ![r].pc = pc]
Begin(r, locals) == At(r, "idle") /\ req' = [req EXCEPT ![r] = locals]
Done(r) == req' = [req EXCEPT ![r] = Idle]

Live(s) == session[s].state = "live"
LiveSessions == {s \in Sessions : Live(s)}
Opened == {s \in Sessions : session[s].state # "none"}
Minted == {l \in Links : link[l].owner # NoSession}
Usable(l) == l \in Minted /\ ~link[l].used /\ ~link[l].revoked

\* The credential row is locked from the first write of a change to its commit.
Changing == \E r \in Reqs : At(r, "changeWrite")

\* updateMany on the sessions and on their tokens, in one transaction.
Revoke(ids) ==
  /\ session' = [s \in Sessions |->
       IF s \in ids /\ Live(s) THEN [session[s] EXCEPT !.state = "revoked"]
       ELSE session[s]]
  /\ link' = [l \in Links |->
       IF link[l].owner \in ids THEN [link[l] EXCEPT !.revoked = TRUE] ELSE link[l]]

-----------------------------------------------------------------------------
(* Signing in: login(), verifyOtp() and what both end in, startSession().  *)

\* The password is checked against the row that is read here, with its epoch.  A
\* wrong one changes nothing: the lockout counter is abstracted.
LoginRead(r) ==
  /\ Begin(r, [Idle EXCEPT !.pc = "open", !.password = password, !.epoch = epoch])
  /\ UNCHANGED <<rows, codes, ghosts>>

\* What a session was opened on: the password in force when its credential was
\* checked, and the last change to have listed the sessions before it was there.
Born(r) ==
  [state |-> "live", born |-> req[r].password, since |-> begun, code |-> req[r].code]

\* Mutant: the token is created, the session is not.
OpenTokenOnly(r) ==
  /\ At(r, "open")
  /\ \E s \in Sessions \ Opened, l \in Links \ Minted :
       link' = [link EXCEPT ![l].owner = s]
  /\ Done(r)
  /\ UNCHANGED <<password, epoch, session, access, reset, codes, ghosts>>

\* The session and the first link of its chain are one transaction.
OpenSession(r) ==
  /\ At(r, "open")
  /\ \E s \in Sessions \ Opened, l \in Links \ Minted :
       /\ session' = [session EXCEPT ![s] = Born(r)]
       /\ access' = [access EXCEPT ![s] =
            [claim |-> req[r].epoch, minted |-> password]]
       /\ link' = [link EXCEPT ![l].owner = s]
  /\ Done(r)
  /\ UNCHANGED <<password, epoch, reset, codes, ghosts>>

\* The resend window is time: any number of codes may be asked for in it here.
RequestCode ==
  /\ issued < MaxCodes
  /\ issued' = issued + 1
  /\ UNCHANGED <<rows, code, ghosts, req>>

\* Mutant: the attempts made are not looked at.
VerifyUncounted(r, right) ==
  /\ issued > 0
  /\ ~code[issued].used
  /\ Begin(r, [Idle EXCEPT !.pc = IF right THEN "spendCode" ELSE "miss",
                           !.password = password, !.code = issued])
  /\ UNCHANGED <<rows, codes, ghosts>>

\* Only the latest code counts.  right: what was typed is that code.
VerifyRead(r, right) ==
  /\ issued > 0
  /\ ~code[issued].used
  /\ code[issued].tries < OtpMax
  /\ Begin(r, [Idle EXCEPT !.pc = IF right THEN "spendCode" ELSE "miss",
                           !.password = password, !.code = issued])
  /\ UNCHANGED <<rows, codes, ghosts>>

Miss(r) ==
  /\ At(r, "miss")
  /\ code' = [code EXCEPT ![req[r].code].tries = @ + 1]
  /\ Done(r)
  /\ UNCHANGED <<rows, issued, ghosts>>

\* Mutant: the code is spent by whoever has compared it.
SpendCodeUnfiltered(r) ==
  /\ At(r, "spendCode")
  /\ code' = [code EXCEPT ![req[r].code].used = TRUE]
  /\ Goto(r, "otpAccount")
  /\ UNCHANGED <<rows, issued, ghosts>>

\* consumedAt: null in the filter; a purpose that does not sign in stops here.
SpendCode(r) ==
  /\ At(r, "spendCode")
  /\ \/ /\ ~code[req[r].code].used
        /\ code' = [code EXCEPT ![req[r].code].used = TRUE]
        /\ Goto(r, "otpAccount") \/ Done(r)
     \/ /\ code[req[r].code].used
        /\ Done(r)
        /\ UNCHANGED code
  /\ UNCHANGED <<rows, issued, ghosts>>

OtpAccount(r) ==
  /\ At(r, "otpAccount")
  /\ req' = [req EXCEPT ![r].pc = "open", ![r].epoch = epoch]
  /\ UNCHANGED <<rows, codes, ghosts>>

-----------------------------------------------------------------------------
(* refresh(): spend one link of the chain for the next.                    *)

\* Mutant: the token is looked at, its session is not.
RefreshReadTokenOnly(r, l) ==
  /\ l \in Minted
  /\ LET s == link[l].owner
     IN  \/ /\ ~Usable(l)
            /\ Begin(r, [Idle EXCEPT !.pc = "reuse", !.session = s])
         \/ /\ Usable(l)
            /\ Begin(r, [Idle EXCEPT !.pc = "account", !.session = s, !.link = l])
  /\ UNCHANGED <<rows, codes, ghosts>>

RefreshRead(r, l) ==
  /\ l \in Minted
  /\ LET s == link[l].owner
     IN  \/ /\ ~Usable(l)
            /\ Begin(r, [Idle EXCEPT !.pc = "reuse", !.session = s])
         \/ /\ Usable(l)
            /\ Live(s)
            /\ Begin(r, [Idle EXCEPT !.pc = "account", !.session = s, !.link = l])
  /\ UNCHANGED <<rows, codes, ghosts>>

RefreshAccount(r) ==
  /\ At(r, "account")
  /\ req' = [req EXCEPT ![r].pc = "spend", ![r].epoch = epoch]
  /\ UNCHANGED <<rows, codes, ghosts>>

\* Mutant: the row is spent as it was read.
SpendLinkUnfiltered(r) ==
  /\ At(r, "spend")
  /\ link' = [link EXCEPT ![req[r].link].used = TRUE]
  /\ Goto(r, "mint")
  /\ UNCHANGED <<password, epoch, session, access, reset, codes, ghosts>>

\* usedAt and revokedAt are in the filter: one of two racing requests matches.
SpendLink(r) ==
  /\ At(r, "spend")
  /\ \/ /\ Usable(req[r].link)
        /\ link' = [link EXCEPT ![req[r].link].used = TRUE]
        /\ Goto(r, "mint")
     \/ /\ ~Usable(req[r].link)
        /\ Goto(r, "reuse")
        /\ UNCHANGED link
  /\ UNCHANGED <<password, epoch, session, access, reset, codes, ghosts>>

\* Whatever has become of the session in the meantime.
Mint(r) ==
  /\ At(r, "mint")
  /\ \E l \in Links \ Minted : link' = [link EXCEPT ![l].owner = req[r].session]
  /\ access' = [access EXCEPT ![req[r].session] =
       [claim |-> req[r].epoch, minted |-> password]]
  /\ Done(r)
  /\ UNCHANGED <<password, epoch, session, reset, codes, ghosts>>

\* Mutant: a token presented twice ends its own link and not the session.
RevokeReuseLinksOnly(r) ==
  /\ At(r, "reuse")
  /\ link' = [l \in Links |->
       IF link[l].owner = req[r].session THEN [link[l] EXCEPT !.revoked = TRUE]
       ELSE link[l]]
  /\ Done(r)
  /\ UNCHANGED <<password, epoch, session, access, reset, codes, ghosts>>

RevokeReuse(r) ==
  /\ At(r, "reuse")
  /\ Revoke({req[r].session})
  /\ Done(r)
  /\ UNCHANGED <<password, epoch, access, reset, codes, ghosts>>

-----------------------------------------------------------------------------
(* logout(), with revokeAllSessions() for every device.                    *)

LogoutRead(r, s, all) ==
  /\ s \in Opened
  /\ Begin(r, [Idle EXCEPT !.pc = "logout", !.session = s, !.all = all])
  /\ UNCHANGED <<rows, codes, ghosts>>

LogoutRevoke(r) ==
  /\ At(r, "logout")
  /\ Revoke({req[r].session})
  /\ IF req[r].all THEN Goto(r, "others") ELSE Done(r)
  /\ UNCHANGED <<password, epoch, access, reset, codes, ghosts>>

OthersRead(r) ==
  /\ At(r, "others")
  /\ LET ids == LiveSessions \ {req[r].session}
     IN  IF ids = {} THEN Done(r)
         ELSE req' = [req EXCEPT ![r].pc = "othersWrite", ![r].ids = ids]
  /\ UNCHANGED <<rows, codes, ghosts>>

OthersWrite(r) ==
  /\ At(r, "othersWrite")
  /\ Revoke(req[r].ids)
  /\ Done(r)
  /\ UNCHANGED <<password, epoch, access, reset, codes, ghosts>>

-----------------------------------------------------------------------------
(* requestPasswordReset(), resetPassword() and changePassword().           *)

RequestReset(k) ==
  /\ reset[k] = "none"
  /\ reset' = [reset EXCEPT ![k] = "open"]
  /\ UNCHANGED <<password, epoch, session, access, link, codes, ghosts, req>>

ResetRead(r, k) ==
  /\ reset[k] = "open"
  /\ Begin(r, [Idle EXCEPT !.pc = "consume", !.reset = k])
  /\ UNCHANGED <<rows, codes, ghosts>>

ConsumeReset(r) ==
  /\ At(r, "consume")
  /\ LET k == req[r].reset
     IN  \/ /\ reset[k] = "open"
            /\ reset' = [reset EXCEPT ![k] = "used"]
            /\ Goto(r, "change")
         \/ /\ reset[k] = "used"
            /\ Done(r)
            /\ UNCHANGED reset
  /\ UNCHANGED <<password, epoch, session, access, link, codes, ghosts>>

\* The credential is written (and locked), then the open sessions are listed.
ChangeRead(r) ==
  /\ At(r, "change")
  /\ ~Changing
  /\ req' = [req EXCEPT ![r].pc = "changeWrite", ![r].ids = LiveSessions]
  /\ begun' = begun + 1
  /\ UNCHANGED <<rows, codes, cut, closed>>

\* Mutant: the epoch is left where it was.
ChangeKeepsEpoch(r) ==
  /\ At(r, "changeWrite")
  /\ password' = password + 1
  /\ Revoke(req[r].ids)
  /\ Done(r)
  /\ closed' = begun
  /\ UNCHANGED <<epoch, access, reset, codes, cut, begun>>

\* Mutant: the epoch is thought to be enough.
ChangeKeepsSessions(r) ==
  /\ At(r, "changeWrite")
  /\ password' = password + 1
  /\ epoch' = epoch + 1
  /\ Done(r)
  /\ closed' = begun
  /\ UNCHANGED <<session, access, link, reset, codes, cut, begun>>

ChangeWrite(r) ==
  /\ At(r, "changeWrite")
  /\ password' = password + 1
  /\ epoch' = epoch + 1
  /\ Revoke(req[r].ids)
  /\ Done(r)
  /\ closed' = begun
  /\ UNCHANGED <<access, reset, codes, cut, begun>>

-----------------------------------------------------------------------------

\* The process dies, or the query fails: an open transaction is rolled back.
Crash(r) ==
  /\ ~At(r, "idle")
  /\ cut' = IF At(r, "mint") THEN cut \union {req[r].session} ELSE cut
  /\ Done(r)
  /\ UNCHANGED <<rows, codes, begun, closed>>

SignIn(r) ==
  \/ LoginRead(r) \/ OpenSession(r)
  \/ \E right \in BOOLEAN : VerifyRead(r, right)
  \/ Miss(r) \/ SpendCode(r) \/ OtpAccount(r)

Refresh(r) ==
  \/ \E l \in Links : RefreshRead(r, l)
  \/ RefreshAccount(r) \/ SpendLink(r) \/ Mint(r) \/ RevokeReuse(r)

Logout(r) ==
  \/ \E s \in Sessions, all \in BOOLEAN : LogoutRead(r, s, all)
  \/ LogoutRevoke(r) \/ OthersRead(r) \/ OthersWrite(r)

ResetPassword(r) ==
  \/ \E k \in Resets : ResetRead(r, k)
  \/ ConsumeReset(r) \/ ChangeRead(r) \/ ChangeWrite(r)

Next ==
  \/ \E r \in Reqs : SignIn(r) \/ Refresh(r) \/ Logout(r) \/ ResetPassword(r) \/ Crash(r)
  \/ \E k \in Resets : RequestReset(k)
  \/ RequestCode

Spec == Init /\ [][Next]_vars

-----------------------------------------------------------------------------
(* Properties.                                                             *)

Pcs == { "idle", "open", "miss", "spendCode", "otpAccount", "account",
         "spend", "mint", "reuse", "logout", "others", "othersWrite", "consume",
         "change", "changeWrite" }

Request ==
  [ pc : Pcs, session : Sessions \union {NoSession}, link : Links \union {NoLink},
    reset : Resets \union {NoReset}, password : Nat, epoch : Nat, code : 0..MaxCodes,
    ids : SUBSET Sessions, all : BOOLEAN ]

\* Every row and every request is of its kind.  A refresh token is of a session
\* that exists, or revocation could not reach it (createSession()), and a request
\* rotates a token of the session it will revoke.
TypeOK ==
  /\ password \in Nat /\ epoch \in Nat
  /\ session \in [Sessions -> [state : {"none", "live", "revoked"}, born : Nat,
                               since : Nat, code : 0..MaxCodes]]
  /\ access \in [Sessions -> [claim : Nat, minted : Nat]]
  /\ link \in [Links -> [owner : Sessions \union {NoSession}, used : BOOLEAN,
                         revoked : BOOLEAN]]
  /\ reset \in [Resets -> {"none", "open", "used"}]
  /\ code \in [1..MaxCodes -> [tries : Nat, used : BOOLEAN]]
  /\ issued \in 0..MaxCodes
  /\ cut \subseteq Sessions /\ begun \in Nat /\ closed \in Nat
  /\ req \in [Reqs -> Request]
  /\ \A l \in Minted : link[l].owner \in Opened
  /\ \A r \in Reqs : req[r].link # NoLink => link[req[r].link].owner = req[r].session

\* A session never has two refresh tokens that would both be accepted: of two
\* requests with one token, one rotates it (rotateRefreshToken()).
OneLiveLink ==
  \A l, m \in Links :
    Usable(l) /\ Usable(m) /\ link[l].owner = link[m].owner => l = m

\* A session that has not been ended can be renewed: it has a token that would
\* be accepted, or a request is about to mint it.  The exception is a rotation
\* that died between its two queries.
LiveSessionCanRenew ==
  \A s \in LiveSessions \ cut :
    \/ \E l \in Links : Usable(l) /\ link[l].owner = s
    \/ \E r \in Reqs : At(r, "mint") /\ req[r].session = s

\* No token of a session that has been ended, by a sign-out, a reset or a reuse,
\* is ever spent, not even by a request that had read the session alive.  A
\* rotation that had spent its token before the end still mints the next one
\* (rotateRefreshToken() does not look again): that one is never spent either.
DeadSessionsSpendNothing ==
  [][\A l \in Links :
       ~link[l].used /\ link'[l].used => Live(link[l].owner)]_vars

\* A code presented several times at once opens one session (consumeOtp()).
OneSessionPerCode ==
  \A s, t \in Opened :
    session[s].code # 0 /\ session[s].code = session[t].code => s = t

\* A password change ends every session that was open when it listed them,
\* whatever was being opened, rotated or ended meanwhile (changePassword()): what
\* lives after it was opened after that listing.
ResetEndsEarlierSessions ==
  \A s \in LiveSessions : session[s].since >= closed

\* No session is left standing on a credential that was checked before the reset
\* (resetPassword(): "Success revokes every session").  Not so: a sign-in that
\* has checked the old password may open its session after the listing.
ResetEndsEverySession ==
  \A s \in LiveSessions : session[s].born = password

\* requireUser() admits no access token that was signed before the last
\* password change, not even of a session the change did not see.  Such a session
\* is signed one that is admitted as soon as it refreshes: see
\* ResetEndsEverySession.
Admitted(s) == Live(s) /\ access[s].claim = epoch
TokensDieWithThePassword ==
  \A s \in Sessions : Admitted(s) => access[s].minted = password

\* Guesses at one code stay within the attempts allowed, but for those that
\* were already being compared when the last of them was counted (verifyOtp()).
TriesAreBounded ==
  \A c \in 1..MaxCodes : code[c].tries < OtpMax + Cardinality(Reqs)
=============================================================================
