SPECIFICATION ProcessSpec
CONSTANTS
  Handles = {p, q}
  Chunks = 1
  Window = 2
  Backlog = 2
  None = None
INVARIANTS
  NoChunkUnheard
CHECK_DEADLOCK FALSE
