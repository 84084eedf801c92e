SPECIFICATION FairTabSpec
CONSTANTS
  Entries = {e1, e2}
  Sockets = {s1, s2}
  Shells = {k, f}
  Kept = {k}
  MaxFaults = 3
  NoShell = NoShell
  NoEntry = NoEntry
INVARIANTS
  TabInv
PROPERTIES
  KeepsItsShell
  Reattaches
CHECK_DEADLOCK FALSE
