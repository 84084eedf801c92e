SPECIFICATION FairPassSpec
CONSTANTS
  Entries = {e1, e2}
  Attempts = {a1, a2}
  Recoveries = {r1, r2}
  Installs = {i1}
  RecoveryAttempts = 1
  Ssh = FALSE
  None = None
  Passes = {p1, p2}
  PassAttempts = 2
PROPERTIES
  PassesKeepQuiet
  FailedComesBack
CHECK_DEADLOCK FALSE
