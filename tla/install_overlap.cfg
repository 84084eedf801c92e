SPECIFICATION InstallSpec
CONSTANTS
  Attempts = {a}
  Installs = {i1, i2}
  Releases <- MCUpgrades
  MayFail = {"alive", "recipe", "kill"}
  MaxFaults = 3
  Pids = {p1, p2, p3, p4, p5}
  None = None
INVARIANTS
  HostMarkerMeansWhole
CHECK_DEADLOCK FALSE
