\* Two entries to place, one map to edit, at most one step of another writer.
SPECIFICATION Spec
CHECK_DEADLOCK FALSE
CONSTANTS
  e0 = e0
  e1 = e1
  e2 = e2
  g = g
  own = own
  theirs = theirs
  Entries = {e0, e1, e2}
  Gaps = {g}
  None = None
  Unparsable = Unparsable
  OldMaps = {own, theirs}
  Owned = {own}
  MinMembers = 2
  OldBody <- MCOldBody
  Pockets <- MCPockets
  Ledgers <- MCLedgers
  ClusterAnswers <- MCClusterAnswers
  OpAnswers <- MCOpAnswers
  MaxClusters = 2
  CostBefore = 1
  Budget = 5
  TurnCosts = {1, 2}
  MaxOutside = 1
INVARIANTS
  AppliedIsStored
  StoredIsReported
  ReadyMeansAnswered
  NoWriteOnDoubt
PROPERTIES
  DeclinesEarned
  Ends
  KeepsContract
