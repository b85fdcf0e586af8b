CONSTANTS
  h1 = h1
  h2 = h2
  Handlers = {h1, h2}
  NoToken = NoToken
  MaxRetries = 1
  MaxUnresolved = 2
  MaxLogins = 1
  MaxTokens = 1
SPECIFICATION FairSpec
CHECK_DEADLOCK FALSE
INVARIANTS StoredWasVerified LoginFollowsUpdate RetryHasFreshToken
PROPERTIES UpdateApplied
