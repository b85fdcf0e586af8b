CONSTANTS
  a = a
  b = b
  NoTopic = NoTopic
  NoBudget = NoBudget
  Topics = {a, b}
  PageSize = 1
  BatchSize = 1
  Budget = 2
  MaxPosts = 3
SPECIFICATION Spec
SYMMETRY Symmetry
CHECK_DEADLOCK FALSE
INVARIANTS SyncedMeansStored BudgetBound
