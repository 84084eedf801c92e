SPECIFICATION FairAgentSpec
CONSTANTS
  Reads = {"follow"}
  MaxBytes = 2
  Window = 1
  Children = TRUE
INVARIANTS
  NoReadOversleeps
  NoSurvivor
PROPERTIES
  DaemonAnswers
CHECK_DEADLOCK FALSE
