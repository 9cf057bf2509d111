\* Two projects in any order and number of rows; turns that cost one or two of five.
SPECIFICATION Spec
CONSTANTS
  Projects = {p, q}
  MaxProjects = 3
  Budget = 5
  TurnCosts = {1, 2}
  MaxTurns = 2
INVARIANTS
  NightOvershoot
  NothingSpentUnseen
  StopExplained
