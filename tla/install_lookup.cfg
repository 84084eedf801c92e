SPECIFICATION InstallSpec
CONSTANTS
  Attempts = {a}
  Installs = {i}
  Releases <- MCUpgrades
  MayFail = {"alive", "recipe", "kill", "installed", "look"}
  MaxFaults = 3
  Pids = {p1, p2, p3, p4, p5}
  None = None
INVARIANTS
  AgentMarkerMeansWhole
  HostMarkerMeansWhole
CHECK_DEADLOCK FALSE
