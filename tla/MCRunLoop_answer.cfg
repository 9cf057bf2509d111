\* Answer mode without a gate: the schema decides, the tree must not change.
SPECIFICATION FairSpec
CONSTANTS
  Trees = {"base", "changed"}
  Baseline = "base"
  GreenTrees = {"base", "changed"}
  Snapshot <- CleanSnapshot
  BaselineObserved = TRUE
  HasChecks = FALSE
  AnswerMode = TRUE
  MaxIterations = 3
  MaxNudges = 1
  StaticK = 2
  MaxRetries = 2
  CompactOn = TRUE
  WallBudget = FALSE
  TokenBudget = 0
  MaxCost = 0
  BeliefCheck = FALSE
  StreakCap = 4
  ErrorLists = {"e1", "e2"}
  MaxCalls = 2
INVARIANTS
  AnswerEvidence
  SchemaCapExact
PROPERTIES
  Termination
