SPECIFICATION SocketSpec
CONSTANTS
  Terminals = {1}
  Sinks = {k1}
  Sessions = {s1}
  Waits = {}
  Resizes = {c1}
  Sizes = {g1, g2}
  Cap = 1
  Tail = 1
  MaxBytes = 1
  Valve = FALSE
  None = None
  MaxTyped = 1
PROPERTIES
  SizeReachesShell
CHECK_DEADLOCK FALSE
