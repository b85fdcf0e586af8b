CONSTANTS
  r1 = r1
  r2 = r2
  r3 = r3
  ka = ka
  kb = kb
  NoRequest = NoRequest
  Requests = {r2, r3}
  Keys <- MCKeys
  KeyOf <- MCSameKey
  PriorityOf <- MCSamePriority
  Timed = {}
  MaxSize = 2
  Waits = {1}
  MaxTime = 3
SPECIFICATION FairSpec
CHECK_DEADLOCK FALSE
PROPERTIES CallsAnswered StopEndsWorker
