\* Two attempts, two turns of up to two calls, two crashes at any write.
SPECIFICATION Spec
CONSTANTS
  MaxAttempts = 2
  MaxTurns = 2
  MaxCalls = 2
  MaxCrashes = 2
INVARIANTS
  RequestsPaired
  ResultsTruthful
  LogPaired
  TokensAccounted
PROPERTIES
  ForgottenOnlyBehindResume
