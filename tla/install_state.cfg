SPECIFICATION InstallSpec
CONSTANTS
  Attempts = {a}
  Installs = {}
  Releases <- MCUpgrades
  MayFail = {"alive", "recipe", "kill", "state"}
  MaxFaults = 3
  Pids = {p1, p2, p3, p4, p5}
  None = None
INVARIANTS
  AnswerIsCurrent
CHECK_DEADLOCK FALSE
