SPECIFICATION SocketSpec
CONSTANTS
  Terminals = {1}
  Sinks = {k1, k2}
  Sessions = {s1}
  Waits = {}
  Resizes = {}
  Sizes = {g1}
  Cap = 2
  Tail = 1
  MaxBytes = 3
  Valve = FALSE
  None = None
  MaxTyped = 1
INVARIANTS
  DetachedKeepsFilling
CHECK_DEADLOCK FALSE
