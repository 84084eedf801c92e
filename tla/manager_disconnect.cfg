SPECIFICATION Spec
CONSTANTS
  Entries = {e1}
  Attempts = {a1, a2}
  Recoveries = {r1, r2}
  Installs = {i1}
  RecoveryAttempts = 2
  Ssh = TRUE
  None = None
PROPERTIES DisconnectNotUndone
CHECK_DEADLOCK FALSE
