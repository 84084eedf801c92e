SPECIFICATION FairProcessSpec
CONSTANTS
  Handles = {p}
  Chunks = 3
  Window = 2
  Backlog = 2
  None = None
INVARIANTS
  ProcessInv
  PipeIsThePrint
PROPERTIES
  TerminateEndsLeader
  HandleSettles
CHECK_DEADLOCK FALSE
