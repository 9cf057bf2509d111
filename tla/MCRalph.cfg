\* Three passes, two of any breaker, the two commit retries of the code.
SPECIFICATION Spec
CONSTANTS
  Codes <- CodesOfRun
  Notes <- NotesOfRun
  MaxOuter = 3
  MaxDoOvers = 2
  MaxBackendErrors = 2
  StuckK = 2
  MaxCommitRetries = 2
INVARIANTS
  ObjectiveOnHead
  TerminalExplained
PROPERTIES
  CommitsVouched
  Termination
