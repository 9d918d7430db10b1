------------------------------ MODULE WindowSync ------------------------------
(***************************************************************************)
(* One persisted store and the windows that share its localStorage key     *)
(* (lib/store-sync.ts, and the persist middleware as the stores use it).   *)
(*                                                                         *)
(* A write puts the writer's whole copy on the disk; the browser tells     *)
(* every other window when the text has changed, and a window that is told *)
(* reads the disk as it is by then.                                        *)
(***************************************************************************)
EXTENDS Integers, Sequences

CONSTANTS
  Windows,
  Values,         \* what the store can hold
  Initial,        \* what it holds on a new device
  MaxInbox        \* bound: events on their way to one window

VARIABLES
  disk,           \* the text under the key
  mem,            \* each window's own copy
  inbox,          \* the storage events on their way to each window
  lastSeen        \* the listener's closure variable: the text it was last told,
                  \* or no text

syncVars == <<disk, mem, inbox, lastSeen>>

SyncInit ==
  /\ disk = Initial
  /\ mem = [w \in Windows |-> Initial]
  /\ inbox = [w \in Windows |-> <<>>]
  /\ lastSeen = [w \in Windows |-> {}]

\* No event is fired for a text that is already there, nor at the writer.
Announced(w, v) ==
  [u \in Windows |-> IF u = w \/ v = disk THEN inbox[u] ELSE Append(inbox[u], v)]

\* set() of a persisted store.
Store(w, v) ==
  /\ mem' = [mem EXCEPT ![w] = v]
  /\ disk' = v
  /\ inbox' = Announced(w, v)
  /\ UNCHANGED lastSeen

\* Mutant: the window takes the value that the event carries.
HearTheEvent(w) ==
  /\ inbox[w] # <<>>
  /\ inbox' = [inbox EXCEPT ![w] = Tail(@)]
  /\ IF Head(inbox[w]) \in lastSeen[w]
       THEN UNCHANGED <<mem, lastSeen>>
       ELSE /\ lastSeen' = [lastSeen EXCEPT ![w] = {Head(inbox[w])}]
            /\ mem' = [mem EXCEPT ![w] = Head(inbox[w])]
  /\ UNCHANGED disk

\* The listener: a repeat is skipped, anything else rehydrates from the disk.
\* What a rehydration writes back is the text it has just read.
Hear(w) ==
  /\ inbox[w] # <<>>
  /\ inbox' = [inbox EXCEPT ![w] = Tail(@)]
  /\ IF Head(inbox[w]) \in lastSeen[w]
       THEN UNCHANGED <<mem, lastSeen>>
       ELSE /\ lastSeen' = [lastSeen EXCEPT ![w] = {Head(inbox[w])}]
            /\ mem' = [mem EXCEPT ![w] = disk]
  /\ UNCHANGED disk

\* The window is loaded again: what it was about to be told is lost with it.
Reload(w) ==
  /\ mem' = [mem EXCEPT ![w] = disk]
  /\ inbox' = [inbox EXCEPT ![w] = <<>>]
  /\ lastSeen' = [lastSeen EXCEPT ![w] = {}]
  /\ UNCHANGED disk

SyncNext ==
  \E w \in Windows :
    \/ \E v \in Values :
         /\ v # mem[w] /\ \A u \in Windows : Len(inbox[u]) < MaxInbox
         /\ Store(w, v)
    \/ Hear(w)
    \/ Reload(w)

SyncSpec == SyncInit /\ [][SyncNext]_syncVars

-----------------------------------------------------------------------------

\* Once every window has been told of everything, all hold what is on the disk:
\* no window goes on with a copy that the others have left behind (the claim of
\* store-sync.ts, "Rehydrating on it makes the claim true").
QuietWindowsAgree ==
  (\A w \in Windows : inbox[w] = <<>>) => \A w \in Windows : mem[w] = disk
=============================================================================
