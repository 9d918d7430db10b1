--------------------------- MODULE MenuBoard_proofs ---------------------------
(***************************************************************************)
(* Proofs about MenuBoard, for any number of requests, menus and options:  *)
(* at most one default remains once everybody has cleared, and a group     *)
(* that nobody wrote on a stale reading can be satisfied.                  *)
(*                                                                         *)
(* The arguments: of any two defaults one was written by a request that    *)
(* has yet to clear the others; and a request whose reading is fresh has   *)
(* judged the group as it is.                                              *)
(***************************************************************************)
EXTENDS MenuBoard, FiniteSetTheorems, FunctionTheorems, TLAPS

Request ==
  [pc : {"idle", "createMenu", "updateMenu", "clear"} \union Judging,
   menu : Menus \union {"none"}, default : BOOLEAN, option : Options \union {"none"},
   state : {"on", "off", "deleted"}, min : 0..MaxChoices, max : 0..MaxChoices, fresh : BOOLEAN]

MenuRow == [state : {"absent", "live", "deleted"}, default : BOOLEAN]

\* What request q names is there.
Named(q) ==
  /\ q.pc \in {"createMenu", "updateMenu", "clear"} => q.menu \in Menus
  /\ q.pc \in {"updateMenu", "clear"} => menu[q.menu].state # "absent"
  /\ q.pc \in {"updateOption", "deleteOption"} => q.option \in Options

\* Of two defaults, one is waiting to be the only one.
DefaultInv ==
  \A a, b \in Defaults :
    a # b => torn \/ \E r \in Reqs : At(r, "clear") /\ req[r].menu \in {a, b}

\* What request q has judged.
Judged(q) ==
  /\ q.pc = "updateGroup" => Legal(q.min, q.max, option)
  /\ q.pc \in {"updateOption", "deleteOption"} =>
       /\ option[q.option] \in {"on", "off"}
       /\ Legal(group.min, group.max, [option EXCEPT ![q.option] = q.state])

GroupInv ==
  calm /\ group.state = "live" =>
    /\ Legal(group.min, group.max, option)
    /\ \A r \in Reqs : req[r].fresh => Judged(req[r])

\* Nobody judges a group that was not created.
AbsentInv == group.state = "absent" => \A r \in Reqs : req[r].pc \notin Judging

IInv == TypeOK /\ DefaultInv /\ GroupInv /\ AbsentInv

-----------------------------------------------------------------------------
(* Requests.                                                               *)

LEMMA Kinds ==
  ASSUME TypeOK
  PROVE  /\ req \in [Reqs -> Request] /\ menu \in [Menus -> MenuRow]
         /\ \A r \in Reqs : Named(req[r])
BY DEF TypeOK, Request, MenuRow, Named

LEMMA IdleKind ==
  /\ Idle \in Request /\ Idle.pc = "idle" /\ Idle.fresh = TRUE /\ Idle.option = "none"
  /\ Idle.menu = "none"
BY ChoicesAssumption DEF Idle, Request

LEMMA IdleNamed == ASSUME NEW q, q.pc = "idle" PROVE Named(q) /\ Judged(q)
BY DEF Named, Judged

\* The rows that a request names stay created.
LEMMA MenuNamed ==
  ASSUME TypeOK, NEW q \in Request, Named(q), menu' \in [Menus -> MenuRow],
         \A m \in Menus : menu[m].state # "absent" => menu'[m].state # "absent"
  PROVE  Named(q)'
BY DEF Named

\* A request that is updated in place.
LEMMA OneRequest ==
  ASSUME TypeOK, NEW r \in Reqs, NEW q \in Request, req' = [req EXCEPT ![r] = q]
  PROVE  /\ req' \in [Reqs -> Request] /\ req'[r] = q
         /\ \A s \in Reqs \ {r} : req'[s] = req[s]
BY Kinds

LEMMA WrittenMenu ==
  ASSUME TypeOK, NEW r \in Reqs, NEW m \in Menus, NEW pc \in {"idle", "clear"}, MenuWritten(r, m, pc)
  PROVE  /\ req' \in [Reqs -> Request]
         /\ req'[r].pc = pc /\ (pc = "clear" => req'[r].menu = m) /\ req'[r].fresh = TRUE
         /\ \A s \in Reqs \ {r} :
              \/ req'[s] = req[s]
              \/ /\ req[s].pc = "updateMenu" /\ req'[s].pc = "updateMenu"
                 /\ req'[s].menu = req[s].menu /\ req'[s].fresh = FALSE
<1> DEFINE p == [Idle EXCEPT !.pc = pc, !.menu = IF pc = "idle" THEN "none" ELSE m]
<1>1. p \in Request /\ p.pc = pc /\ (pc = "clear" => p.menu = m) /\ p.fresh = TRUE
  <2>1. (IF pc = "idle" THEN "none" ELSE m) \in Menus \union {"none"}
    OBVIOUS
  <2>2. p \in Request
    BY <2>1, IdleKind DEF Request
  <2>3. p.pc = pc /\ p.menu = IF pc = "idle" THEN "none" ELSE m
    BY DEF Idle
  <2>4. p.fresh = TRUE
    BY DEF Idle
  <2> QED BY <2>2, <2>3, <2>4
<1>2. \A s \in Reqs : [req[s] EXCEPT !.fresh = FALSE] \in Request
  BY Kinds DEF Request
<1>3. \A s \in Reqs : req'[s] =
        IF s = r THEN p
        ELSE IF req[s].pc = "updateMenu" /\ req[s].menu = m THEN [req[s] EXCEPT !.fresh = FALSE]
        ELSE req[s]
  BY DEF MenuWritten
<1> HIDE DEF p
<1>4. req' \in [Reqs -> Request]
  <2>1. req' = [s \in Reqs |-> req'[s]]
    BY DEF MenuWritten
  <2>2. \A s \in Reqs : req'[s] \in Request
    BY <1>1, <1>2, <1>3, Kinds
  <2> QED BY <2>1, <2>2
<1>5. ASSUME NEW s \in Reqs \ {r}
      PROVE  \/ req'[s] = req[s]
             \/ /\ req[s].pc = "updateMenu" /\ req'[s].pc = "updateMenu"
                /\ req'[s].menu = req[s].menu /\ req'[s].fresh = FALSE
  <2>1. CASE req[s].pc = "updateMenu" /\ req[s].menu = m
    <3>1. req'[s] = [req[s] EXCEPT !.fresh = FALSE] /\ req[s] \in Request
      BY <1>3, <2>1, Kinds
    <3> QED BY <2>1, <3>1 DEF Request
  <2>2. CASE ~(req[s].pc = "updateMenu" /\ req[s].menu = m)
    BY <1>3, <2>2
  <2> QED BY <2>1, <2>2
<1> QED BY <1>1, <1>3, <1>4, <1>5

LEMMA WrittenGroup ==
  ASSUME TypeOK, NEW r \in Reqs, GroupWritten(r)
  PROVE  /\ req' \in [Reqs -> Request] /\ req'[r] = Idle
         /\ \A s \in Reqs \ {r} :
              \/ req'[s] = req[s] /\ req[s].pc \notin Judging
              \/ /\ req[s].pc \in Judging /\ req'[s].pc = req[s].pc
                 /\ req'[s].option = req[s].option /\ req'[s].fresh = FALSE
<1>1. \A s \in Reqs : req'[s] =
        IF s = r THEN Idle
        ELSE IF req[s].pc \in Judging THEN [req[s] EXCEPT !.fresh = FALSE] ELSE req[s]
  BY DEF GroupWritten
<1>2. \A s \in Reqs : [req[s] EXCEPT !.fresh = FALSE] \in Request
  BY Kinds DEF Request
<1>3. req' \in [Reqs -> Request]
  <2>1. req' = [s \in Reqs |-> req'[s]]
    BY DEF GroupWritten
  <2>2. \A s \in Reqs : req'[s] \in Request
    BY <1>1, <1>2, Kinds, IdleKind
  <2> QED BY <2>1, <2>2
<1>4. ASSUME NEW s \in Reqs \ {r}
      PROVE  \/ req'[s] = req[s] /\ req[s].pc \notin Judging
             \/ /\ req[s].pc \in Judging /\ req'[s].pc = req[s].pc
                /\ req'[s].option = req[s].option /\ req'[s].fresh = FALSE
  <2>1. CASE req[s].pc \in Judging
    <3>1. req'[s] = [req[s] EXCEPT !.fresh = FALSE] /\ req[s] \in Request
      BY <1>1, <2>1, Kinds
    <3> QED BY <2>1, <3>1 DEF Request
  <2>2. CASE req[s].pc \notin Judging
    BY <1>1, <2>2
  <2> QED BY <2>1, <2>2
<1> QED BY <1>1, <1>3, <1>4

-----------------------------------------------------------------------------
(* What an action leaves alone.                                            *)

LEMMA KindsBack ==
  ASSUME req' \in [Reqs -> Request], menu' \in [Menus -> MenuRow],
         (group \in [state : {"absent", "live", "deleted"}, min : 0..MaxChoices, max : 0..MaxChoices])',
         (option \in [Options -> {"absent", "on", "off", "deleted"}])',
         (torn \in BOOLEAN)', (calm \in BOOLEAN)',
         \A m \in Menus : menu'[m].default => menu'[m].state # "absent",
         \A r \in Reqs : Named(req[r])'
  PROVE  TypeOK'
BY DEF TypeOK, Request, MenuRow, Named

LEMMA GroupUnmoved ==
  ASSUME GroupInv, UNCHANGED <<group, option, calm>>,
         \A s \in Reqs : req'[s] = req[s] \/ req'[s].pc \notin Judging
  PROVE  GroupInv'
<1> SUFFICES ASSUME calm, group.state = "live"
             PROVE  /\ Legal(group.min, group.max, option)'
                    /\ \A s \in Reqs : (req[s].fresh => Judged(req[s]))'
  BY DEF GroupInv
<1>1. Legal(group.min, group.max, option)'
  BY DEF GroupInv, Legal, On
<1>2. ASSUME NEW s \in Reqs PROVE (req[s].fresh => Judged(req[s]))'
  <2>1. CASE req'[s].pc \notin Judging
    BY <2>1 DEF Judged, Judging
  <2>2. CASE req'[s] = req[s]
    BY <2>2 DEF GroupInv, Judged, Legal, On
  <2> QED BY <2>1, <2>2
<1> QED BY <1>1, <1>2

LEMMA DefaultsUnmoved ==
  ASSUME DefaultInv, Defaults' \subseteq Defaults, torn => torn',
         \A s \in Reqs : At(s, "clear") =>
           torn' \/ (req'[s].pc = "clear" /\ req'[s].menu = req[s].menu)
  PROVE  DefaultInv'
<1> SUFFICES ASSUME NEW a \in Defaults', NEW b \in Defaults', a # b, ~torn'
             PROVE  \E r \in Reqs : req'[r].pc = "clear" /\ req'[r].menu \in {a, b}
  BY DEF DefaultInv, At
<1>1. PICK r \in Reqs : At(r, "clear") /\ req[r].menu \in {a, b}
  BY DEF DefaultInv
<1> QED BY <1>1

LEMMA SameDefaults == ASSUME menu' = menu PROVE Defaults' = Defaults
BY DEF Defaults, Live

-----------------------------------------------------------------------------
(* Steps that many actions share.                                          *)

LEMMA InitIInv == Init => IInv
<1> SUFFICES ASSUME Init PROVE IInv
  OBVIOUS
<1>1. \A m \in Menus : menu[m] = [state |-> "absent", default |-> FALSE]
  BY DEF Init
<1>2. req \in [Reqs -> Request] /\ \A r \in Reqs : req[r] = Idle
  BY IdleKind DEF Init
<1>3. \A r \in Reqs : Named(req[r])
  BY <1>2, IdleKind, IdleNamed
<1>4. TypeOK
  <2>1. menu \in [Menus -> MenuRow]
    BY DEF Init, MenuRow
  <2>2. group \in [state : {"absent", "live", "deleted"}, min : 0..MaxChoices, max : 0..MaxChoices]
    BY ChoicesAssumption DEF Init
  <2>3. option \in [Options -> {"absent", "on", "off", "deleted"}] /\ torn \in BOOLEAN /\ calm \in BOOLEAN
    BY DEF Init
  <2> QED BY <1>1, <1>2, <1>3, <2>1, <2>2, <2>3 DEF TypeOK, Request, MenuRow, Named
<1>5. DefaultInv
  BY <1>1 DEF DefaultInv, Defaults, Live
<1>6. GroupInv
  BY DEF Init, GroupInv
<1>7. AbsentInv
  BY <1>2, IdleKind DEF AbsentInv, Judging
<1> QED BY <1>4, <1>5, <1>6, <1>7 DEF IInv

LEMMA BeginKeeps ==
  ASSUME IInv, NEW r \in Reqs, NEW q \in Request, Begin(r, q), Named(q), q.pc # "clear",
         UNCHANGED <<menu, group, option, torn, calm>>,
         calm /\ group.state = "live" => Judged(q),
         q.pc \in Judging => group.state # "absent"
  PROVE  IInv'
<1>1. /\ TypeOK /\ DefaultInv /\ GroupInv /\ req[r].pc = "idle"
      /\ req' \in [Reqs -> Request] /\ req'[r] = q
      /\ \A s \in Reqs \ {r} : req'[s] = req[s]
  BY OneRequest DEF IInv, Begin, At
<1>2. \A s \in Reqs : Named(req[s])'
  BY <1>1, Kinds DEF Named
<1>3. TypeOK'
  BY <1>1, <1>2, Kinds, KindsBack DEF TypeOK
<1>4. DefaultInv'
  <2>1. \A s \in Reqs : At(s, "clear") => req'[s].pc = "clear" /\ req'[s].menu = req[s].menu
    BY <1>1 DEF At
  <2> QED BY <1>1, <2>1, DefaultsUnmoved, SameDefaults
<1>5. GroupInv'
  <2>1. \A s \in Reqs : calm /\ group.state = "live" /\ req'[s].fresh => Judged(req'[s])
    BY <1>1 DEF GroupInv
  <2> QED BY <1>1, <2>1 DEF GroupInv, Judged, Legal, On
<1>6. AbsentInv'
  BY <1>1 DEF IInv, AbsentInv
<1> QED BY <1>3, <1>4, <1>5, <1>6 DEF IInv

LEMMA DoneKeeps ==
  ASSUME IInv, NEW r \in Reqs, Done(r), UNCHANGED <<menu, group, option, calm>>,
         torn' = (torn \/ At(r, "clear"))
  PROVE  IInv'
<1>1. /\ TypeOK /\ DefaultInv /\ GroupInv
      /\ req' \in [Reqs -> Request] /\ req'[r] = Idle
      /\ \A s \in Reqs \ {r} : req'[s] = req[s]
  BY OneRequest, IdleKind DEF IInv, Done
<1>2. \A s \in Reqs : Named(req[s])'
  BY <1>1, Kinds, IdleKind DEF Named
<1>3. TypeOK'
  BY <1>1, <1>2, Kinds, KindsBack DEF TypeOK
<1>4. DefaultInv'
  <2>1. \A s \in Reqs : At(s, "clear") =>
          torn' \/ (req'[s].pc = "clear" /\ req'[s].menu = req[s].menu)
    BY <1>1 DEF At
  <2>2. torn => torn'
    OBVIOUS
  <2> QED BY <1>1, <2>1, <2>2, DefaultsUnmoved, SameDefaults
<1>5. GroupInv'
  <2>1. \A s \in Reqs : req'[s] = req[s] \/ req'[s].pc \notin Judging
    BY <1>1, IdleKind DEF Judging
  <2> QED BY <1>1, <2>1, GroupUnmoved
<1>6. AbsentInv'
  BY <1>1, IdleKind DEF IInv, AbsentInv, Judging
<1> QED BY <1>3, <1>4, <1>5, <1>6 DEF IInv

\* A menu is written, and a request that made it a default goes on to clear.
LEMMA MenuWriteKeeps ==
  ASSUME IInv, NEW r \in Reqs, NEW m \in Menus, NEW row \in MenuRow, NEW pc \in {"idle", "clear"},
         ~At(r, "clear"), MenuWritten(r, m, pc),
         menu' = [menu EXCEPT ![m] = row], row.state # "absent",
         row.state = "live" /\ row.default => pc = "clear" \/ m \in Defaults,
         UNCHANGED <<group, option, torn, calm>>
  PROVE  IInv'
<1>1. TypeOK /\ DefaultInv /\ GroupInv
  BY DEF IInv
<1>2. /\ req' \in [Reqs -> Request]
      /\ req'[r].pc = pc /\ (pc = "clear" => req'[r].menu = m)
      /\ \A s \in Reqs \ {r} :
           \/ req'[s] = req[s]
           \/ /\ req[s].pc = "updateMenu" /\ req'[s].pc = "updateMenu"
              /\ req'[s].menu = req[s].menu /\ req'[s].fresh = FALSE
  BY <1>1, WrittenMenu
<1>3. /\ menu \in [Menus -> MenuRow] /\ menu' \in [Menus -> MenuRow] /\ menu'[m] = row
      /\ \A k \in Menus \ {m} : menu'[k] = menu[k]
  BY <1>1, Kinds
<1>4. \A k \in Menus : menu[k].state # "absent" => menu'[k].state # "absent"
  BY <1>3
<1>5. \A s \in Reqs : Named(req[s])'
  <2> SUFFICES ASSUME NEW s \in Reqs PROVE Named(req[s])'
    OBVIOUS
  <2>1. CASE s = r
    BY <1>2, <1>3, <2>1 DEF Named
  <2>2. CASE s # r
    BY <1>1, <1>2, <1>4, <2>2, Kinds DEF Named
  <2> QED BY <2>1, <2>2
<1>6. TypeOK'
  <2>1. \A k \in Menus : menu'[k].default => menu'[k].state # "absent"
    BY <1>1, <1>3 DEF TypeOK
  <2> QED BY <1>1, <1>2, <1>3, <1>5, <2>1, KindsBack DEF TypeOK
<1>7. DefaultInv'
  <2> SUFFICES ASSUME NEW a \in Defaults', NEW b \in Defaults', a # b, ~torn
               PROVE  \E s \in Reqs : req'[s].pc = "clear" /\ req'[s].menu \in {a, b}
    BY DEF DefaultInv, At
  <2>1. CASE pc = "clear" /\ m \in {a, b}
    BY <1>2, <2>1
  <2>2. CASE ~(pc = "clear" /\ m \in {a, b})
    <3>1. a \in Menus /\ b \in Menus
          /\ menu'[a].state = "live" /\ menu'[a].default /\ menu'[b].state = "live" /\ menu'[b].default
      BY DEF Defaults, Live
    <3>2. a \in Defaults
      BY <1>3, <2>2, <3>1 DEF Defaults, Live
    <3>3. b \in Defaults
      BY <1>3, <2>2, <3>1 DEF Defaults, Live
    <3>4. PICK s \in Reqs : At(s, "clear") /\ req[s].menu \in {a, b}
      BY <1>1, <3>2, <3>3 DEF DefaultInv
    <3>5. s # r /\ req'[s] = req[s]
      BY <1>2, <3>4 DEF At
    <3> QED BY <3>4, <3>5 DEF At
  <2> QED BY <2>1, <2>2
<1>8. GroupInv'
  <2>1. \A s \in Reqs : req'[s] = req[s] \/ req'[s].pc \notin Judging
    BY <1>2 DEF Judging
  <2> QED BY <1>1, <2>1, GroupUnmoved
<1>9. AbsentInv'
  BY <1>2 DEF IInv, AbsentInv, Judging
<1> QED BY <1>6, <1>7, <1>8, <1>9 DEF IInv

LEMMA ClearKeeps == ASSUME IInv, NEW r \in Reqs, ClearDefaults(r) PROVE IInv'
<1> DEFINE keep == req[r].menu
<1>1. /\ TypeOK /\ GroupInv /\ menu \in [Menus -> MenuRow]
      /\ req' \in [Reqs -> Request] /\ req'[r] = Idle
      /\ \A s \in Reqs \ {r} : req'[s] = req[s]
  BY OneRequest, IdleKind, Kinds DEF IInv, ClearDefaults, Done
<1>2. \A m \in Menus : /\ menu'[m].state = menu[m].state
                       /\ menu'[m] \in MenuRow
                       /\ menu'[m].default => menu[m].default /\ m = keep
  <2> SUFFICES ASSUME NEW m \in Menus
               PROVE  /\ menu'[m].state = menu[m].state /\ menu'[m] \in MenuRow
                      /\ menu'[m].default => menu[m].default /\ m = keep
    OBVIOUS
  <2>1. menu'[m] = IF m = keep THEN menu[m] ELSE [menu[m] EXCEPT !.default = FALSE]
    BY DEF ClearDefaults
  <2>2. menu[m] \in MenuRow
    BY <1>1
  <2> QED BY <2>1, <2>2 DEF MenuRow
<1>3. menu' \in [Menus -> MenuRow]
  <2>1. menu' = [m \in Menus |-> menu'[m]]
    BY DEF ClearDefaults
  <2> QED BY <1>2, <2>1
<1>4. \A s \in Reqs : Named(req[s])'
  BY <1>1, <1>2, Kinds, IdleKind DEF Named
<1>5. TypeOK'
  BY <1>1, <1>2, <1>3, <1>4, KindsBack DEF TypeOK, ClearDefaults
<1>6. DefaultInv'
  <2>1. \A a \in Defaults' : a = keep
    BY <1>2 DEF Defaults, Live
  <2> HIDE DEF keep
  <2> QED BY <2>1 DEF DefaultInv
<1>7. GroupInv'
  <2>1. \A s \in Reqs : req'[s] = req[s] \/ req'[s].pc \notin Judging
    BY <1>1, IdleKind DEF Judging
  <2> QED BY <1>1, <2>1, GroupUnmoved DEF ClearDefaults
<1>8. AbsentInv'
  BY <1>1, IdleKind DEF IInv, AbsentInv, Judging, ClearDefaults
<1> QED BY <1>5, <1>6, <1>7, <1>8 DEF IInv

\* The group or an option is written by a request that had judged the outcome:
\* everybody else's judgement is out of date.
LEMMA GroupWriteKeeps ==
  ASSUME IInv, NEW r \in Reqs, GroupWritten(r), ~At(r, "clear"), UNCHANGED <<menu, torn>>,
         (group \in [state : {"absent", "live", "deleted"}, min : 0..MaxChoices, max : 0..MaxChoices])',
         (option \in [Options -> {"absent", "on", "off", "deleted"}])',
         (calm /\ req[r].fresh /\ group'.state = "live") => Legal(group'.min, group'.max, option'),
         group'.state = "absent" => group.state = "absent"
  PROVE  IInv'
<1>1. /\ TypeOK /\ DefaultInv /\ GroupInv
      /\ req' \in [Reqs -> Request] /\ req'[r] = Idle
      /\ \A s \in Reqs \ {r} :
           \/ req'[s] = req[s] /\ req[s].pc \notin Judging
           \/ /\ req[s].pc \in Judging /\ req'[s].pc = req[s].pc
              /\ req'[s].option = req[s].option /\ req'[s].fresh = FALSE
  BY WrittenGroup DEF IInv
<1>2. \A s \in Reqs : Named(req[s])'
  <2> SUFFICES ASSUME NEW s \in Reqs PROVE Named(req[s])'
    OBVIOUS
  <2>1. CASE s = r
    BY <1>1, <2>1, IdleKind DEF Named
  <2>2. CASE s # r
    BY <1>1, <2>2, Kinds DEF Named, Judging
  <2> QED BY <2>1, <2>2
<1>3. req[r].fresh \in BOOLEAN
  BY <1>1, Kinds DEF Request
<1>4. TypeOK'
  BY <1>1, <1>2, <1>3, Kinds, KindsBack DEF TypeOK, GroupWritten
<1>5. DefaultInv'
  <2>1. \A s \in Reqs : At(s, "clear") => req'[s].pc = "clear" /\ req'[s].menu = req[s].menu
    BY <1>1 DEF At, Judging
  <2> QED BY <1>1, <2>1, DefaultsUnmoved, SameDefaults
<1>6. GroupInv'
  <2> SUFFICES ASSUME calm', group'.state = "live"
               PROVE  /\ Legal(group'.min, group'.max, option')
                      /\ \A s \in Reqs : req'[s].fresh => Judged(req[s])'
    BY DEF GroupInv, Legal, On
  <2>1. Legal(group'.min, group'.max, option')
    BY DEF GroupWritten
  <2>2. \A s \in Reqs : req'[s].fresh => req'[s].pc \notin Judging
    BY <1>1, IdleKind DEF Judging
  <2> QED BY <2>1, <2>2 DEF Judged, Judging
<1>7. AbsentInv'
  BY <1>1, IdleKind DEF IInv, AbsentInv, Judging
<1> QED BY <1>4, <1>5, <1>6, <1>7 DEF IInv

-----------------------------------------------------------------------------
(* The actions.                                                            *)

LEMMA CreateMenuReadKeeps ==
  ASSUME IInv, NEW r \in Reqs, NEW m \in Menus, NEW asked \in BOOLEAN, CreateMenuRead(r, m, asked)
  PROVE  IInv'
<1> DEFINE q == [Idle EXCEPT !.pc = "createMenu", !.menu = m, !.default = (Live = {} \/ asked)]
<1>1. /\ q \in Request /\ q.pc = "createMenu" /\ q.menu = m
  <2>1. (Live = {} \/ asked) \in BOOLEAN
    OBVIOUS
  <2> QED BY <2>1, IdleKind DEF Request, Idle
<1>2. Begin(r, q) /\ UNCHANGED <<menu, group, option, torn, calm>>
  BY DEF CreateMenuRead
<1> HIDE DEF q
<1>3. Named(q) /\ Judged(q) /\ q.pc \notin Judging
  BY <1>1 DEF Named, Judged, Judging
<1> QED BY <1>1, <1>2, <1>3, BeginKeeps

LEMMA UpdateMenuReadKeeps ==
  ASSUME IInv, NEW r \in Reqs, NEW m \in Menus, NEW default \in BOOLEAN, UpdateMenuRead(r, m, default)
  PROVE  IInv'
<1> DEFINE q == [Idle EXCEPT !.pc = "updateMenu", !.menu = m, !.default = default]
<1>1. /\ q \in Request /\ q.pc = "updateMenu" /\ q.menu = m
  BY IdleKind DEF Request, Idle
<1>2. Begin(r, q) /\ UNCHANGED <<menu, group, option, torn, calm>> /\ menu[m].state = "live"
  BY DEF UpdateMenuRead, Live
<1> HIDE DEF q
<1>3. Named(q) /\ Judged(q) /\ q.pc \notin Judging
  BY <1>1, <1>2 DEF Named, Judged, Judging
<1> QED BY <1>1, <1>2, <1>3, BeginKeeps

\* A request that gives up with nothing written.
LEMMA RefusedKeeps ==
  ASSUME IInv, NEW r \in Reqs, Done(r), ~At(r, "clear"), UNCHANGED <<menu, group, option, torn, calm>>
  PROVE  IInv'
<1>1. torn' = (torn \/ At(r, "clear"))
  BY DEF IInv, TypeOK
<1> QED BY <1>1, DoneKeeps

LEMMA CreateMenuWriteKeeps == ASSUME IInv, NEW r \in Reqs, CreateMenuWrite(r) PROVE IInv'
<1> DEFINE m == req[r].menu
           row == [state |-> "live", default |-> req[r].default]
<1>1. m \in Menus /\ req[r].default \in BOOLEAN /\ ~At(r, "clear")
  BY Kinds DEF IInv, CreateMenuWrite, At, Named, Request
<1>2. CASE menu[m].state = "absent"
  <2>1. row \in MenuRow /\ row.state # "absent" /\ AfterDefault(req[r].default) \in {"idle", "clear"}
    BY <1>1 DEF MenuRow, AfterDefault
  <2>2. row.state = "live" /\ row.default => AfterDefault(req[r].default) = "clear"
    BY DEF AfterDefault
  <2>3. /\ menu' = [menu EXCEPT ![m] = row] /\ MenuWritten(r, m, AfterDefault(req[r].default))
        /\ UNCHANGED <<group, option, torn, calm>>
    BY <1>2 DEF CreateMenuWrite
  <2> HIDE DEF m, row
  <2> QED BY <1>1, <2>1, <2>2, <2>3, MenuWriteKeeps
<1>3. CASE menu[m].state # "absent"
  BY <1>1, <1>3, RefusedKeeps DEF CreateMenuWrite
<1> QED BY <1>2, <1>3

LEMMA UpdateMenuWriteKeeps == ASSUME IInv, NEW r \in Reqs, UpdateMenuWrite(r) PROVE IInv'
<1> DEFINE m == req[r].menu
           row == [menu[m] EXCEPT !.default = req[r].default]
<1>1. /\ m \in Menus /\ menu[m] \in MenuRow /\ menu[m].state # "absent"
      /\ req[r].default \in BOOLEAN /\ ~At(r, "clear")
  BY Kinds DEF IInv, UpdateMenuWrite, At, Named, Request
<1>2. CASE req[r].fresh
  <2>1. /\ row \in MenuRow /\ row.state # "absent" /\ row.default = req[r].default
        /\ AfterDefault(req[r].default) \in {"idle", "clear"}
    BY <1>1 DEF MenuRow, AfterDefault
  <2>2. row.state = "live" /\ row.default => AfterDefault(req[r].default) = "clear"
    BY <2>1 DEF AfterDefault
  <2>3. /\ menu' = [menu EXCEPT ![m] = row] /\ MenuWritten(r, m, AfterDefault(req[r].default))
        /\ UNCHANGED <<group, option, torn, calm>>
    BY <1>2 DEF UpdateMenuWrite
  <2> HIDE DEF m, row
  <2> QED BY <1>1, <2>1, <2>2, <2>3, MenuWriteKeeps
<1>3. CASE ~req[r].fresh
  BY <1>1, <1>3, RefusedKeeps DEF UpdateMenuWrite
<1> QED BY <1>2, <1>3

LEMMA TouchMenuKeeps == ASSUME IInv, NEW r \in Reqs, NEW m \in Menus, TouchMenu(r, m) PROVE IInv'
<1>1. /\ menu \in [Menus -> MenuRow] /\ menu[m].state = "live" /\ ~At(r, "clear")
      /\ MenuWritten(r, m, "idle") /\ UNCHANGED <<menu, group, option, torn, calm>>
  BY Kinds DEF IInv, TouchMenu, Live, At
<1>2. menu[m] \in MenuRow /\ menu' = [menu EXCEPT ![m] = menu[m]]
  BY <1>1
<1>3. menu[m].state = "live" /\ menu[m].default => m \in Defaults
  BY DEF Defaults, Live
<1> QED BY <1>1, <1>2, <1>3, MenuWriteKeeps

LEMMA DeleteMenuKeeps == ASSUME IInv, NEW r \in Reqs, NEW m \in Menus, DeleteMenu(r, m) PROVE IInv'
<1> DEFINE row == [menu[m] EXCEPT !.state = "deleted"]
<1>1. /\ menu \in [Menus -> MenuRow] /\ ~At(r, "clear") /\ menu' = [menu EXCEPT ![m] = row]
      /\ MenuWritten(r, m, "idle") /\ UNCHANGED <<group, option, torn, calm>>
  BY Kinds DEF IInv, DeleteMenu, At
<1>2. row \in MenuRow /\ row.state = "deleted"
  BY <1>1 DEF MenuRow
<1> HIDE DEF row
<1> QED BY <1>1, <1>2, MenuWriteKeeps

LEMMA FailKeeps == ASSUME IInv, NEW r \in Reqs, Fail(r) PROVE IInv'
BY DoneKeeps DEF Fail
LEMMA CreateGroupKeeps ==
  ASSUME IInv, NEW r \in Reqs, NEW min \in 0..MaxChoices, NEW max \in 0..MaxChoices,
         NEW opts \in [Options -> {"absent", "on", "off"}], CreateGroup(r, min, max, opts)
  PROVE  IInv'
<1>1. /\ TypeOK /\ DefaultInv /\ UNCHANGED <<menu, req, torn, calm>>
      /\ group.state = "absent" /\ group' = [state |-> "live", min |-> min, max |-> max]
      /\ option' = opts /\ Legal(min, max, opts)
      /\ \A s \in Reqs : req[s].pc \notin Judging
  BY DEF IInv, CreateGroup, AbsentInv
<1>2. TypeOK'
  <2>1. /\ (group \in [state : {"absent", "live", "deleted"}, min : 0..MaxChoices, max : 0..MaxChoices])'
        /\ (option \in [Options -> {"absent", "on", "off", "deleted"}])'
    BY <1>1
  <2>2. \A s \in Reqs : Named(req[s])'
    BY <1>1, Kinds DEF Named
  <2> QED BY <1>1, <2>1, <2>2, Kinds, KindsBack DEF TypeOK
<1>3. DefaultInv'
  BY <1>1 DEF DefaultInv, Defaults, Live, At
<1>4. GroupInv'
  <2>1. Legal(group.min, group.max, option)'
    BY <1>1 DEF Legal, On
  <2>2. \A s \in Reqs : Judged(req[s])'
    BY <1>1 DEF Judged, Judging
  <2> QED BY <2>1, <2>2 DEF GroupInv
<1>5. AbsentInv'
  BY <1>1 DEF AbsentInv
<1> QED BY <1>2, <1>3, <1>4, <1>5 DEF IInv

LEMMA DeleteGroupKeeps == ASSUME IInv, NEW r \in Reqs, DeleteGroup(r) PROVE IInv'
<1>1. /\ TypeOK /\ DefaultInv /\ UNCHANGED <<menu, option, req, torn, calm>>
      /\ group' = [group EXCEPT !.state = "deleted"]
  BY DEF IInv, DeleteGroup
<1>2. /\ (group \in [state : {"absent", "live", "deleted"}, min : 0..MaxChoices, max : 0..MaxChoices])'
      /\ group'.state = "deleted"
  BY <1>1 DEF TypeOK
<1>3. TypeOK'
  <2>1. \A s \in Reqs : Named(req[s])'
    BY <1>1, Kinds DEF Named
  <2> QED BY <1>1, <1>2, <2>1, Kinds, KindsBack DEF TypeOK
<1>4. DefaultInv'
  BY <1>1 DEF DefaultInv, Defaults, Live, At
<1> QED BY <1>2, <1>3, <1>4 DEF IInv, GroupInv, AbsentInv

LEMMA UpdateGroupReadKeeps ==
  ASSUME IInv, NEW r \in Reqs, NEW min \in 0..MaxChoices, NEW max \in 0..MaxChoices,
         UpdateGroupRead(r, min, max)
  PROVE  IInv'
<1> DEFINE q == [Idle EXCEPT !.pc = "updateGroup", !.min = min, !.max = max]
<1>1. q \in Request /\ q.pc = "updateGroup" /\ q.min = min /\ q.max = max
  BY IdleKind DEF Request, Idle, Judging
<1>2. /\ Begin(r, q) /\ UNCHANGED <<menu, group, option, torn, calm>>
      /\ group.state = "live" /\ Legal(min, max, option)
  BY DEF UpdateGroupRead
<1> HIDE DEF q
<1>3. Named(q) /\ Judged(q)
  BY <1>1, <1>2 DEF Named, Judged
<1> QED BY <1>1, <1>2, <1>3, BeginKeeps

LEMMA OptionReadKeeps ==
  ASSUME IInv, NEW r \in Reqs, NEW pc \in {"updateOption", "deleteOption"}, NEW o \in Options,
         NEW state \in {"on", "off", "deleted"}, OptionRead(r, pc, o, state)
  PROVE  IInv'
<1> DEFINE q == [Idle EXCEPT !.pc = pc, !.option = o, !.state = state]
<1>1. q \in Request /\ q.pc = pc /\ q.option = o /\ q.state = state
  BY IdleKind DEF Request, Idle, Judging
<1>2. /\ Begin(r, q) /\ UNCHANGED <<menu, group, option, torn, calm>>
      /\ group.state = "live" /\ option[o] \in {"on", "off"}
      /\ Legal(group.min, group.max, [option EXCEPT ![o] = state])
  BY DEF OptionRead
<1> HIDE DEF q
<1>3. Named(q) /\ Judged(q)
  BY <1>1, <1>2 DEF Named, Judged
<1> QED BY <1>1, <1>2, <1>3, BeginKeeps

LEMMA UpdateGroupWriteKeeps == ASSUME IInv, NEW r \in Reqs, UpdateGroupWrite(r) PROVE IInv'
<1>1. /\ TypeOK /\ GroupInv /\ req[r] \in Request /\ req[r].pc = "updateGroup"
      /\ group' = [group EXCEPT !.min = req[r].min, !.max = req[r].max]
      /\ GroupWritten(r) /\ UNCHANGED <<menu, option, torn>>
  BY Kinds DEF IInv, UpdateGroupWrite, At
<1>2. /\ (group \in [state : {"absent", "live", "deleted"}, min : 0..MaxChoices, max : 0..MaxChoices])'
      /\ group'.state = group.state /\ group'.min = req[r].min /\ group'.max = req[r].max
  BY <1>1 DEF TypeOK, Request
<1>3. calm /\ req[r].fresh /\ group'.state = "live" => Legal(group'.min, group'.max, option')
  BY <1>1, <1>2 DEF GroupInv, Judged
<1>4. (option \in [Options -> {"absent", "on", "off", "deleted"}])'
  BY <1>1 DEF TypeOK
<1> QED BY <1>1, <1>2, <1>3, <1>4, GroupWriteKeeps DEF At

LEMMA OptionWriteKeeps == ASSUME IInv, NEW r \in Reqs, OptionWrite(r) PROVE IInv'
<1> DEFINE o == req[r].option
<1>1. /\ TypeOK /\ GroupInv /\ req[r] \in Request /\ req[r].pc \in {"updateOption", "deleteOption"}
      /\ o \in Options /\ option \in [Options -> {"absent", "on", "off", "deleted"}]
      /\ option' = [option EXCEPT ![o] = IF option[o] = "deleted" THEN option[o] ELSE req[r].state]
      /\ GroupWritten(r) /\ UNCHANGED <<menu, group, torn>>
  BY Kinds DEF IInv, OptionWrite, TypeOK
<1>2. (option \in [Options -> {"absent", "on", "off", "deleted"}])'
  BY <1>1 DEF Request
<1>3. calm /\ req[r].fresh /\ group'.state = "live" => Legal(group'.min, group'.max, option')
  <2> SUFFICES ASSUME calm, req[r].fresh, group.state = "live"
               PROVE  Legal(group.min, group.max, option')
    BY <1>1
  <2>1. Judged(req[r])
    BY <1>1 DEF GroupInv
  <2>2. option[o] \in {"on", "off"} /\ Legal(group.min, group.max, [option EXCEPT ![o] = req[r].state])
    BY <1>1, <2>1 DEF Judged
  <2>3. option' = [option EXCEPT ![o] = req[r].state]
    BY <1>1, <2>2
  <2> QED BY <2>2, <2>3
<1>4. (group \in [state : {"absent", "live", "deleted"}, min : 0..MaxChoices, max : 0..MaxChoices])'
  BY <1>1 DEF TypeOK
<1> QED BY <1>1, <1>2, <1>3, <1>4, GroupWriteKeeps DEF At

\* One more option that is on leaves no fewer to choose from.
LEMMA MoreOptions ==
  ASSUME option \in [Options -> {"absent", "on", "off", "deleted"}], NEW o \in Options,
         option[o] = "absent", NEW state \in {"on", "off"}, NEW min \in Nat, NEW max \in Nat,
         Legal(min, max, option)
  PROVE  Legal(min, max, [option EXCEPT ![o] = state])
<1> DEFINE more == [option EXCEPT ![o] = state]
<1>1. On(option) \subseteq On(more) /\ On(more) \subseteq Options /\ On(option) \subseteq Options
  BY DEF On
<1>2. IsFiniteSet(On(more)) /\ IsFiniteSet(On(option))
  BY <1>1, FS_Subset, OptionsAssumption
<1>3. /\ Cardinality(On(option)) <= Cardinality(On(more))
      /\ Cardinality(On(option)) \in Nat /\ Cardinality(On(more)) \in Nat
  BY <1>1, <1>2, FS_Subset, FS_CardinalityType
<1> HIDE DEF more
<1> QED BY <1>3 DEF Legal, more

LEMMA CreateOptionKeeps ==
  ASSUME IInv, NEW r \in Reqs, NEW o \in Options, NEW state \in {"on", "off"}, CreateOption(r, o, state)
  PROVE  IInv'
<1>1. /\ TypeOK /\ GroupInv /\ req[r].pc = "idle" /\ option[o] = "absent" /\ group.state = "live"
      /\ option \in [Options -> {"absent", "on", "off", "deleted"}]
      /\ option' = [option EXCEPT ![o] = state] /\ GroupWritten(r) /\ UNCHANGED <<menu, group, torn>>
      /\ group.min \in Nat /\ group.max \in Nat
  BY ChoicesAssumption DEF IInv, CreateOption, TypeOK, At
<1>2. calm => Legal(group.min, group.max, option')
  BY <1>1, MoreOptions DEF GroupInv
<1>3. (option \in [Options -> {"absent", "on", "off", "deleted"}])'
  BY <1>1
<1>4. (group \in [state : {"absent", "live", "deleted"}, min : 0..MaxChoices, max : 0..MaxChoices])'
  BY <1>1 DEF TypeOK
<1> QED BY <1>1, <1>2, <1>3, <1>4, GroupWriteKeeps DEF At

-----------------------------------------------------------------------------
(* The specification.                                                      *)

LEMMA StepIInv == IInv /\ [Next]_vars => IInv'
<1> SUFFICES ASSUME IInv, [Next]_vars PROVE IInv'
  OBVIOUS
<1>1. CASE UNCHANGED vars
  <2>1. TypeOK'
    BY <1>1 DEF IInv, TypeOK, vars
  <2>2. DefaultInv'
    BY <1>1 DEF IInv, DefaultInv, Defaults, Live, At, vars
  <2>3. GroupInv'
    BY <1>1, GroupUnmoved DEF IInv, vars
  <2> QED BY <1>1, <2>1, <2>2, <2>3 DEF IInv, AbsentInv, vars
<1>2. CASE Next
  <2>1. PICK r \in Reqs : MenuStep(r) \/ GroupStep(r) \/ Fail(r)
    BY <1>2 DEF Next
  <2>2. CASE MenuStep(r)
    BY <2>2, CreateMenuReadKeeps, UpdateMenuReadKeeps, TouchMenuKeeps, DeleteMenuKeeps,
       CreateMenuWriteKeeps, UpdateMenuWriteKeeps, ClearKeeps DEF MenuStep
  <2>3. CASE GroupStep(r)
    <3>1. ASSUME NEW min \in 0..MaxChoices, NEW max \in 0..MaxChoices,
                 \/ UpdateGroupRead(r, min, max)
                 \/ \E opts \in [Options -> {"absent", "on", "off"}] : CreateGroup(r, min, max, opts)
          PROVE  IInv'
      BY <3>1, UpdateGroupReadKeeps, CreateGroupKeeps
    <3>2. ASSUME NEW o \in Options,
                 \/ \E state \in {"on", "off"} :
                      CreateOption(r, o, state) \/ OptionRead(r, "updateOption", o, state)
                 \/ OptionRead(r, "deleteOption", o, "deleted")
          PROVE  IInv'
      BY <3>2, CreateOptionKeeps, OptionReadKeeps
    <3> QED BY <2>3, <3>1, <3>2, UpdateGroupWriteKeeps, OptionWriteKeeps, DeleteGroupKeeps DEF GroupStep
  <2>4. CASE Fail(r)
    BY <2>4, FailKeeps
  <2> QED BY <2>1, <2>2, <2>3, <2>4
<1> QED BY <1>1, <1>2

\* The invariant that the others follow from: two defaults have a request that
\* has yet to clear, and a fresh judgement speaks of the group as it is.
THEOREM Invariance == Spec => []IInv
<1>1. Init => IInv
  BY InitIInv
<1>2. IInv /\ [Next]_vars => IInv'
  BY StepIInv
<1> QED BY <1>1, <1>2, PTL DEF Spec

\* Rows and requests are of their kind, and nobody's default was never created.
THEOREM TypeCorrect == Spec => []TypeOK
<1>1. IInv => TypeOK
  BY DEF IInv
<1> QED BY <1>1, Invariance, PTL

\* Once every request that made a default has cleared the others, one remains
\* at most (createMenu(), updateMenu(), clearDefaults()).
THEOREM OneDefaultHolds == Spec => []OneDefaultWhenQuiet
<1>1. IInv => OneDefaultWhenQuiet
  <2> SUFFICES ASSUME IInv, \A r \in Reqs : ~At(r, "clear"), ~torn PROVE Cardinality(Defaults) <= 1
    BY DEF OneDefaultWhenQuiet
  <2>1. \A a, b \in Defaults : a = b
    BY DEF IInv, DefaultInv
  <2>2. CASE Defaults = {}
    BY <2>2, FS_EmptySet
  <2>3. CASE Defaults # {}
    <3>1. PICK a \in Defaults : TRUE
      BY <2>3
    <3>2. Defaults = {a}
      BY <2>1, <3>1
    <3>3. Cardinality({a}) = 1
      BY FS_Singleton
    <3> QED BY <3>2, <3>3
  <2> QED BY <2>2, <2>3
<1> QED BY <1>1, Invariance, PTL

\* A finite set has a subset of every size up to its own.
LEMMA SubsetOfSize ==
  ASSUME NEW S, IsFiniteSet(S), NEW k \in Nat, k <= Cardinality(S)
  PROVE  \E T \in SUBSET S : Cardinality(T) = k
<1> DEFINE n == Cardinality(S)
<1>1. n \in Nat /\ \E f : f \in Bijection(1..n, S)
  BY FS_CardinalityType DEF ExistsBijection
<1>2. PICK f : f \in Bijection(1..n, S)
  BY <1>1
<1>3. 1..k \subseteq 1..n
  BY <1>1
<1> DEFINE T == {f[i] : i \in 1..k}
<1> HIDE DEF n
<1>4. f \in Injection(1..n, S)
  BY <1>2 DEF Bijection
<1>5. f \in [1..n -> S] /\ \A i, j \in 1..n : f[i] = f[j] => i = j
  BY <1>4 DEF Injection, IsInjective
<1>6. T \subseteq S
  BY <1>3, <1>5
<1> DEFINE g == [i \in 1..k |-> f[i]]
<1>7. g \in Bijection(1..k, T)
  <2>1. g \in [1..k -> T] /\ \A i, j \in 1..k : g[i] = g[j] => i = j
    BY <1>3, <1>5
  <2>2. \A t \in T : \E i \in 1..k : g[i] = t
    OBVIOUS
  <2> HIDE DEF g, T
  <2> QED BY <2>1, <2>2, Fun_IsBij
<1>8. IsFiniteSet(1..k) /\ Cardinality(1..k) = k
  <2>1. Cardinality(1..k) = IF 1 > k THEN 0 ELSE k - 1 + 1
    BY FS_Interval
  <2>2. IsFiniteSet(1..k)
    BY FS_Interval
  <2> QED BY <2>1, <2>2
<1>9. Cardinality(T) = k
  <2>1. ExistsBijection(1..k, T)
    BY <1>7 DEF ExistsBijection
  <2> HIDE DEF T
  <2> QED BY <1>8, <2>1, FS_Bijection
<1> QED BY <1>6, <1>9

\* A customer can satisfy a group that nobody wrote on a stale reading
\* (groupError(), updateGroup(), updateOption(), deleteOption()).
THEOREM ADishCanBeOrderedHolds == Spec => []ADishCanBeOrdered
<1>1. IInv => ADishCanBeOrdered
  <2> SUFFICES ASSUME IInv, calm, group.state = "live"
               PROVE  \E chosen \in SUBSET On(option) :
                        group.min <= Cardinality(chosen) /\ Cardinality(chosen) <= group.max
    BY DEF ADishCanBeOrdered
  <2>1. group.min \in Nat /\ group.max \in Nat
    BY ChoicesAssumption DEF IInv, TypeOK
  <2>2. IsFiniteSet(On(option))
    BY FS_Subset, OptionsAssumption DEF On
  <2>3. Cardinality(On(option)) \in Nat
    BY <2>2, FS_CardinalityType
  <2>4. group.min <= group.max /\ group.max <= Cardinality(On(option))
    BY DEF IInv, GroupInv, Legal
  <2>5. group.min <= Cardinality(On(option))
    BY <2>1, <2>3, <2>4
  <2>6. PICK chosen \in SUBSET On(option) : Cardinality(chosen) = group.min
    BY <2>1, <2>2, <2>5, SubsetOfSize
  <2>7. group.min <= Cardinality(chosen) /\ Cardinality(chosen) <= group.max
    BY <2>1, <2>4, <2>6
  <2> QED BY <2>7
<1> QED BY <1>1, Invariance, PTL
=============================================================================
