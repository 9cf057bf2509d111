\* A leader and three processes it or they may start.
SPECIFICATION Spec
CONSTANTS
  Sh = sh
  Kids = {k1, k2, k3}
INVARIANTS
  GroupGone
  SignalsAimed
PROPERTIES
  Bounded
