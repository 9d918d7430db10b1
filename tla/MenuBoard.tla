------------------------------ MODULE MenuBoard ------------------------------
(***************************************************************************)
(* What a merchant edits: which of a restaurant's menus is the default of  *)
(* its kind, and one option group of one dish                              *)
(* (backend/src/modules/menu/service.js, options.js and repository.js).    *)
(*                                                                         *)
(* Every request reads, decides, and writes in later statements with no    *)
(* transaction around them; a menu carries a version that its update must  *)
(* match, a group and its options carry none.                              *)
(*                                                                         *)
(* Abstracted: a menu is its name, which is unique for a restaurant and a  *)
(* kind; names, prices and service windows; the `required` flag, which     *)
(* only labels a group whose minimum is what counts.  A menu's version is  *)
(* modelled by what the guard tells apart: whether the row has been        *)
(* written since the request read it.                                      *)
(***************************************************************************)
EXTENDS Integers, FiniteSets

CONSTANTS
  Reqs,           \* requests in flight at once
  Menus,          \* menus of one restaurant and kind, by name
  Options,        \* options that the group may come to have
  MaxChoices      \* bound: what a group may ask for at most

ASSUME OptionsAssumption == IsFiniteSet(Options)
ASSUME ChoicesAssumption == MaxChoices \in Nat

VARIABLES
  menu,           \* menu rows: absent, live or deleted, and isDefault
  group,          \* the food_option_groups row: absent, live or deleted
  option,         \* its options: absent, on, off or deleted
  req,            \* what each request has decided, and where it is
  torn,           \* a default was written, its others were never cleared
  calm            \* nothing was written on a stale reading of the group

vars == <<menu, group, option, req, torn, calm>>

-----------------------------------------------------------------------------

Idle ==
  [ pc |-> "idle", menu |-> "none", default |-> FALSE, option |-> "none",
    state |-> "on", min |-> 0, max |-> 0, fresh |-> TRUE ]

Init ==
  /\ menu = [m \in Menus |-> [state |-> "absent", default |-> FALSE]]
  /\ group = [state |-> "absent", min |-> 0, max |-> 0]
  /\ option = [o \in Options |-> "absent"]
  /\ req = [r \in Reqs |-> Idle]
  /\ torn = FALSE
  /\ calm = TRUE

At(r, pc) == req[r].pc = pc
Begin(r, locals) == At(r, "idle") /\ req' = [req EXCEPT ![r] = locals]
Done(r) == req' = [req EXCEPT ![r] = Idle]

-----------------------------------------------------------------------------
(* Menus.                                                                  *)

Live == {m \in Menus : menu[m].state = "live"}
Defaults == {m \in Live : menu[m].default}

\* Request r has written menu m and goes on to pc: whoever read m is out of date.
MenuWritten(r, m, pc) ==
  req' = [s \in Reqs |->
    IF s = r THEN [Idle EXCEPT !.pc = pc, !.menu = IF pc = "idle" THEN "none" ELSE m]
    ELSE IF req[s].pc = "updateMenu" /\ req[s].menu = m THEN [req[s] EXCEPT !.fresh = FALSE]
    ELSE req[s]]

AfterDefault(default) == IF default THEN "clear" ELSE "idle"

\* createMenu(): the name is free, and the first of a kind is its default whatever
\* was asked.
CreateMenuRead(r, m, asked) ==
  /\ m \notin Live
  /\ Begin(r, [Idle EXCEPT !.pc = "createMenu", !.menu = m, !.default = (Live = {} \/ asked)])
  /\ UNCHANGED <<menu, group, option, torn, calm>>

\* The unique index counts deleted rows too.
CreateMenuWrite(r) ==
  LET m == req[r].menu
  IN  /\ At(r, "createMenu")
      /\ IF menu[m].state = "absent"
           THEN /\ menu' = [menu EXCEPT ![m] = [state |-> "live", default |-> req[r].default]]
                /\ MenuWritten(r, m, AfterDefault(req[r].default))
           ELSE Done(r) /\ UNCHANGED menu
      /\ UNCHANGED <<group, option, torn, calm>>

\* Mutant: nobody asks whether there is such a menu.
UpdateMenuUnread(r, m, default) ==
  /\ Begin(r, [Idle EXCEPT !.pc = "updateMenu", !.menu = m, !.default = default])
  /\ UNCHANGED <<menu, group, option, torn, calm>>

\* updateMenu() with a patch that names isDefault, either way.
UpdateMenuRead(r, m, default) ==
  /\ m \in Live
  /\ Begin(r, [Idle EXCEPT !.pc = "updateMenu", !.menu = m, !.default = default])
  /\ UNCHANGED <<menu, group, option, torn, calm>>

\* Mutant: the others are not cleared.
UpdateMenuAlone(r) ==
  LET m == req[r].menu
  IN  /\ At(r, "updateMenu")
      /\ IF req[r].fresh
           THEN /\ menu' = [menu EXCEPT ![m].default = req[r].default]
                /\ MenuWritten(r, m, "idle")
           ELSE Done(r) /\ UNCHANGED menu
      /\ UNCHANGED <<group, option, torn, calm>>

UpdateMenuWrite(r) ==
  LET m == req[r].menu
  IN  /\ At(r, "updateMenu")
      /\ IF req[r].fresh
           THEN /\ menu' = [menu EXCEPT ![m].default = req[r].default]
                /\ MenuWritten(r, m, AfterDefault(req[r].default))
           ELSE Done(r) /\ UNCHANGED menu
      /\ UNCHANGED <<group, option, torn, calm>>

\* updateMenu() with a patch that does not name isDefault: it moves the version.
TouchMenu(r, m) ==
  /\ At(r, "idle")
  /\ m \in Live
  /\ MenuWritten(r, m, "idle")
  /\ UNCHANGED <<menu, group, option, torn, calm>>

\* clearDefaults(): one statement, which leaves every version alone.
ClearDefaults(r) ==
  /\ At(r, "clear")
  /\ menu' = [m \in Menus |-> IF m = req[r].menu THEN menu[m] ELSE [menu[m] EXCEPT !.default = FALSE]]
  /\ torn' = FALSE
  /\ Done(r)
  /\ UNCHANGED <<group, option, calm>>

\* deleteMenu(): soft, and by id alone, so that when it was read does not matter.
DeleteMenu(r, m) ==
  /\ At(r, "idle")
  /\ m \in Live
  /\ menu' = [menu EXCEPT ![m].state = "deleted"]
  /\ MenuWritten(r, m, "idle")
  /\ UNCHANGED <<group, option, torn, calm>>

-----------------------------------------------------------------------------
(* The option group.                                                       *)

On(opts) == {o \in Options : opts[o] = "on"}

\* Mutant: every option counts, those that are switched off too.
LegalOnPaper(min, max, opts) ==
  LET n == Cardinality({o \in Options : opts[o] \in {"on", "off"}})
  IN  n >= 1 /\ min <= max /\ max >= 1 /\ max <= n

\* groupError() has nothing to say: of the options that are on, a customer can
\* choose as many as the group asks for.
Legal(min, max, opts) ==
  LET n == Cardinality(On(opts))
  IN  n >= 1 /\ min <= max /\ max >= 1 /\ max <= n

Judging == {"updateGroup", "updateOption", "deleteOption"}

\* Request r has written the group or an option of it: whoever judged the group
\* by what it was has judged another one.
GroupWritten(r) ==
  /\ req' = [s \in Reqs |->
       IF s = r THEN Idle
       ELSE IF req[s].pc \in Judging THEN [req[s] EXCEPT !.fresh = FALSE] ELSE req[s]]
  /\ calm' = (calm /\ req[r].fresh)

\* createGroup(): a group and its options, in one statement.
CreateGroup(r, min, max, opts) ==
  /\ At(r, "idle")
  /\ group.state = "absent"
  /\ Legal(min, max, opts)
  /\ group' = [state |-> "live", min |-> min, max |-> max]
  /\ option' = opts
  /\ UNCHANGED <<menu, req, torn, calm>>

\* updateGroup(): judged with the options that were read, written whole.
UpdateGroupRead(r, min, max) ==
  /\ group.state = "live"
  /\ Legal(min, max, option)
  /\ Begin(r, [Idle EXCEPT !.pc = "updateGroup", !.min = min, !.max = max])
  /\ UNCHANGED <<menu, group, option, torn, calm>>

UpdateGroupWrite(r) ==
  /\ At(r, "updateGroup")
  /\ group' = [group EXCEPT !.min = req[r].min, !.max = req[r].max]
  /\ GroupWritten(r)
  /\ UNCHANGED <<menu, option, torn>>

\* createOption(): the group is not judged, one more option cannot hurt it.
CreateOption(r, o, state) ==
  /\ At(r, "idle")
  /\ group.state = "live"
  /\ option[o] = "absent"
  /\ option' = [option EXCEPT ![o] = state]
  /\ GroupWritten(r)
  /\ UNCHANGED <<menu, group, torn>>

\* updateOption() and deleteOption(): judged by what the write would produce.
OptionRead(r, pc, o, state) ==
  /\ group.state = "live"
  /\ option[o] \in {"on", "off"}
  /\ Legal(group.min, group.max, [option EXCEPT ![o] = state])
  /\ Begin(r, [Idle EXCEPT !.pc = pc, !.option = o, !.state = state])
  /\ UNCHANGED <<menu, group, option, torn, calm>>

\* By id alone: an option that was deleted meanwhile stays deleted.
OptionWrite(r) ==
  LET o == req[r].option
  IN  /\ req[r].pc \in {"updateOption", "deleteOption"}
      /\ option' = [option EXCEPT ![o] = IF @ = "deleted" THEN @ ELSE req[r].state]
      /\ GroupWritten(r)
      /\ UNCHANGED <<menu, group, torn>>

DeleteGroup(r) ==
  /\ At(r, "idle")
  /\ group.state = "live"
  /\ group' = [group EXCEPT !.state = "deleted"]
  /\ UNCHANGED <<menu, option, req, torn, calm>>

-----------------------------------------------------------------------------

\* The process dies, or a query fails, between two statements.
Fail(r) ==
  /\ ~At(r, "idle")
  /\ Done(r)
  /\ torn' = (torn \/ At(r, "clear"))
  /\ UNCHANGED <<menu, group, option, calm>>

MenuStep(r) ==
  \/ \E m \in Menus, default \in BOOLEAN : CreateMenuRead(r, m, default) \/ UpdateMenuRead(r, m, default)
  \/ \E m \in Menus : TouchMenu(r, m) \/ DeleteMenu(r, m)
  \/ CreateMenuWrite(r) \/ UpdateMenuWrite(r) \/ ClearDefaults(r)

GroupStep(r) ==
  \/ \E min, max \in 0..MaxChoices :
       \/ UpdateGroupRead(r, min, max)
       \/ \E opts \in [Options -> {"absent", "on", "off"}] : CreateGroup(r, min, max, opts)
  \/ \E o \in Options :
       \/ \E state \in {"on", "off"} : CreateOption(r, o, state) \/ OptionRead(r, "updateOption", o, state)
       \/ OptionRead(r, "deleteOption", o, "deleted")
  \/ UpdateGroupWrite(r) \/ OptionWrite(r) \/ DeleteGroup(r)

Next == \E r \in Reqs : MenuStep(r) \/ GroupStep(r) \/ Fail(r)

Spec == Init /\ [][Next]_vars

-----------------------------------------------------------------------------
(* Properties.                                                             *)

\* Rows and requests are of their kind; a request names the menu or the option it
\* is about, the menu was created, and only such a menu is anybody's default.
TypeOK ==
  /\ menu \in [Menus -> [state : {"absent", "live", "deleted"}, default : BOOLEAN]]
  /\ group \in [state : {"absent", "live", "deleted"}, min : 0..MaxChoices, max : 0..MaxChoices]
  /\ option \in [Options -> {"absent", "on", "off", "deleted"}]
  /\ req \in [Reqs ->
       [pc : {"idle", "createMenu", "updateMenu", "clear"} \union Judging,
        menu : Menus \union {"none"}, default : BOOLEAN, option : Options \union {"none"},
        state : {"on", "off", "deleted"}, min : 0..MaxChoices, max : 0..MaxChoices, fresh : BOOLEAN]]
  /\ torn \in BOOLEAN /\ calm \in BOOLEAN
  /\ \A m \in Menus : menu[m].default => menu[m].state # "absent"
  /\ \A r \in Reqs :
       /\ req[r].pc \in {"createMenu", "updateMenu", "clear"} => req[r].menu \in Menus
       /\ req[r].pc \in {"updateMenu", "clear"} => menu[req[r].menu].state # "absent"
       /\ req[r].pc \in {"updateOption", "deleteOption"} => req[r].option \in Options

\* "One default per (vendor, kind)" (clearDefaults()), once every request that
\* made one has cleared the others: no two racing creations or promotions leave
\* two menus that both claim to be the one a customer sees.
OneDefaultWhenQuiet ==
  (\A r \in Reqs : ~At(r, "clear")) /\ ~torn => Cardinality(Defaults) <= 1

\* "A group that is illegal is a control a customer cannot satisfy"
\* (updateOption()): as long as nobody wrote on a stale reading, some choice of
\* the options that are on passes checkSelection().
ADishCanBeOrdered ==
  calm /\ group.state = "live" =>
    \E chosen \in SUBSET On(option) :
      group.min <= Cardinality(chosen) /\ Cardinality(chosen) <= group.max
=============================================================================
