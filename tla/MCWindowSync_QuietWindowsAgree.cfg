\* One window turns it off, the other on, the first off again.
CONSTANTS
  w1 = w1
  w2 = w2
  on = on
  off = off
  Windows <- TwoWindows
  Values <- OnOrOff
  Initial = on
  MaxInbox = 2
SPECIFICATION SyncSpec
INVARIANTS
  QuietWindowsAgree
