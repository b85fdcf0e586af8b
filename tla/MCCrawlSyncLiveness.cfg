CONSTANTS
  a = a
  b = b
  NoTopic = NoTopic
  NoBudget = NoBudget
  Topics = {a}
  PageSize = 1
  BatchSize = 1
  Budget = 1
  MaxPosts = 3
SPECIFICATION FairSpec
CHECK_DEADLOCK FALSE
PROPERTIES PostsStoredEventually
