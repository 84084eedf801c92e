SPECIFICATION SettingsSpec
CONSTANTS
  h1 = h1  h2 = h2  m1 = m1  m2 = m2  r1 = r1  r2 = r2  p1 = p1  p2 = p2
  Hosts = {h1}
  Machines = {m1, m2}
  Repos = {r1}
  On <- OnFirst
  Stored <- OneStored
  Pages = {p1}
  Left = {o1}
  None = None
  HostOf <- OneHost
  Polls = {l1}
  Reread = reread
INVARIANTS
  FailureTold
  NoRepoSurvives
CHECK_DEADLOCK FALSE
