SPECIFICATION TabSpec
CONSTANTS
  Entries = {e1, e2}
  Sockets = {s1, s2}
  Shells = {k, f, g}
  Kept = {k}
  MaxFaults = 2
  NoShell = NoShell
  NoEntry = NoEntry
INVARIANT NeverAsksAgain
CHECK_DEADLOCK FALSE
