SPECIFICATION Spec
CONSTANTS
  Proc = {p1, p2}
  EnvCookie = {p2}
  Nobody = Nobody
  MaxVersion = 3
  MaxLogs = 2
  Budgets <- MCBudgets
INVARIANTS StoreAlone SnapshotWithTopic ImportConverges NoSaveLost
CHECK_DEADLOCK FALSE
