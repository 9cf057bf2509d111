\* Four turns, two of them recent; a window that outlives the retention.
SPECIFICATION Spec
CONSTANTS
  NoFact = NoFact
  Retention = 2
  Threshold = 90
  Batches <- MCBatches
  Entries = {fact}
  Window = 4
  MaxTurns = 4
INVARIANTS
  NothingDestroyed
  WalkExact
  WindowHoldsFact
