SPECIFICATION TtySpec
CONSTANTS
  Reads = {"follow", "last"}
  MaxBytes = 2
  Window = 1
  Children = FALSE
INVARIANTS
  NothingTwice
CHECK_DEADLOCK FALSE
