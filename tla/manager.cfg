SPECIFICATION FairSpec
CONSTANTS
  Entries = {e1, e2}
  Attempts = {a1, a2}
  Recoveries = {r1, r2}
  Installs = {i1}
  RecoveryAttempts = 2
  Ssh = TRUE
  None = None
INVARIANTS
  ManagerInv
  NothingLeaks
  DisposedStaysQuiet
PROPERTIES
  OnlyOwnLossDrops
  CalmDisconnectStaysDown
  DropIsRetried
  NoEndlessRetry
CHECK_DEADLOCK FALSE
