SPECIFICATION FairProcessSpec
CONSTANTS
  Handles = {p}
  Chunks = 3
  Window = 2
  Backlog = 2
  None = None
PROPERTIES
  TerminatedRangeEnds
CHECK_DEADLOCK FALSE
