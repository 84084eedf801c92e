SPECIFICATION FairSocketSpec
CONSTANTS
  Terminals = {1}
  Sinks = {k1, k2}
  Sessions = {s1}
  Waits = {w1}
  Resizes = {c1}
  Sizes = {g1, g2}
  Cap = 1
  Tail = 1
  MaxBytes = 2
  Valve = TRUE
  None = None
  MaxTyped = 1
INVARIANTS
  SocketInv
  TableInv
  NoWaitMissed
PROPERTIES
  ExitedIsReleased
CHECK_DEADLOCK FALSE
