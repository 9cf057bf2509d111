\* Build mode on a clean repository, with a gate, two nudges and both budgets.
SPECIFICATION FairSpec
CONSTANTS
  Trees = {"base", "broken", "good"}
  Baseline = "base"
  GreenTrees = {"base", "good"}
  Snapshot <- CleanSnapshot
  BaselineObserved = TRUE
  HasChecks = TRUE
  AnswerMode = FALSE
  MaxIterations = 5
  MaxNudges = 2
  StaticK = 2
  MaxRetries = 1
  CompactOn = FALSE
  WallBudget = TRUE
  TokenBudget = 4
  MaxCost = 2
  BeliefCheck = TRUE
  StreakCap = 4
  ErrorLists = {"e1"}
  MaxCalls = 2
INVARIANTS
  DoneEvidence
  NudgesAccounted
  GateLatchFresh
  WorkNeverForfeited
  GreenWorkRecorded
  BudgetOvershoot
PROPERTIES
  KeepsContract
