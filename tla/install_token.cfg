SPECIFICATION InstallSpec
CONSTANTS
  Attempts = {a}
  Installs = {}
  Releases <- MCRotation
  MayFail = {"alive", "recipe", "kill"}
  MaxFaults = 0
  Pids = {p1, p2, p3, p4, p5}
  None = None
INVARIANTS
  AnswerIsCurrent
CHECK_DEADLOCK FALSE
