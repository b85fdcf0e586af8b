CONSTANTS
  h1 = h1
  h2 = h2
  c1 = c1
  c2 = c2
  e1 = e1
  e2 = e2
  Handlers = {h1, h2}
  Configs = {c1, c2}
  Errors = {e1, e2}
  AutoRestart = TRUE
  MaxRestarts = 1
  SameErrors = 2
  MaxGen = 2
SPECIFICATION FairSpec
CHECK_DEADLOCK FALSE
INVARIANTS AtMostOneWatcher BlockedMeansStopping RunsCurrentConfig CrashLimits
PROPERTIES StopsEventually RequestsEnd
