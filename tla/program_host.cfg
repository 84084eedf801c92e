SPECIFICATION FairProgramSpec
CONSTANTS
  MaxOutput = 12
  MaxCalls = 2
  MaxLines = 3
  Lines <- MCLines
  Completions = {6}
  Wires <- MCWires
  Arity = 2
  Depth = 2
INVARIANTS
  OutputAccounted
  RepliesArriveWhole
PROPERTIES
  CloseEndsRun
CHECK_DEADLOCK FALSE
