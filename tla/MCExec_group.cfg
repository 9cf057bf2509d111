\* A timeout kills the whole group.
SPECIFICATION Spec
CONSTANTS
  Sh = sh
  Kids = {k1}
INVARIANTS
  TimeoutKillsGroup
