SPECIFICATION FairInstallSpec
CONSTANTS
  Attempts = {a}
  Installs = {i}
  Releases <- MCUpgrades
  MayFail = {"alive", "recipe", "kill"}
  MaxFaults = 3
  Pids = {p1, p2, p3, p4, p5}
  None = None
INVARIANTS
  MarkerMeansWhole
  AnswerIsCurrent
PROPERTIES
  Heals
CHECK_DEADLOCK FALSE
