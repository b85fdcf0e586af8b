SPECIFICATION FairSpec
CONSTANTS
  Plugins = {1, 2}
  Priority <- MCPriority
  Hooks <- MCHooks
  Does <- MCDoes
  NTopics = 1
  Limit = 1
  Backend = "store"
  TimeoutOn = TRUE
  MaxFailures = 2
  NSlots = 2
INVARIANTS OnceKept LimitKept LateHooksBounded
PROPERTIES SkipsOfEndedHooks HookWaitEnds
