SPECIFICATION FairTtySpec
CONSTANTS
  Reads = {"follow", "last"}
  MaxBytes = 2
  Window = 1
  Children = FALSE
PROPERTIES
  ReleasedSettles
CHECK_DEADLOCK FALSE
