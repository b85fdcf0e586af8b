CONSTANTS
  r1 = r1
  r2 = r2
  r3 = r3
  ka = ka
  kb = kb
  NoRequest = NoRequest
  Requests <- MCRequests
  Keys <- MCKeys
  KeyOf <- MCKeyOf
  PriorityOf <- MCPriorityOf
  Timed = {r1}
  MaxSize = 2
  Waits = {1}
  MaxTime = 1
SPECIFICATION Spec
CHECK_DEADLOCK FALSE
INVARIANTS HeldOnce CooldownRespected NothingLeftBehind
PROPERTIES PriorityRespected AcceptedNeverRejected ImplementsService
