\* A crash between the log and the checkpoint costs an interrupted step.
SPECIFICATION Spec
CONSTANTS
  MaxAttempts = 1
  MaxTurns = 2
  MaxCalls = 1
  MaxCrashes = 2
PROPERTIES
  NothingForgotten
