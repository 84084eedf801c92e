SPECIFICATION FairTtySpec
CONSTANTS
  Reads = {"follow", "last"}
  MaxBytes = 2
  Window = 1
  Children = FALSE
INVARIANTS
  TtyInv
PROPERTIES
  NothingAfterEnd
  HandleSettles
  TeardownReturns
CHECK_DEADLOCK FALSE
