\* Four things a run does, with digests of four items and a call or a long text each.
SPECIFICATION Spec
CONSTANTS
  bash1 = bash1 bash2 = bash2 list = list checks = checks e1 = e1 e2 = e2 e3 = e3
  NoEntry = NoEntry
  Calls = {bash1, bash2, list, checks}
  Entries = {e1, e2, e3}
  EntryOf <- MCEntryOf
  PostedCalls = {bash1, bash2, checks}
  EventCalls = {bash1, bash2, list}
  CheckCalls = {checks}
  FinishPosted = FALSE
  Modes = {"annotate", "deny_once"}
  MaxDenies = 2
  MaxEvents = 1
  RefusedClaims = {"claim_rejected"}
  CorrectionSize = 3
  TextGroups <- MCTextGroups
  ErrorSize = 7
  MaxItems = 4 MaxBytes = 9 MaxResolvedBy = 1 PromptSize = 1 FinalSize = 2
  MaxLog = 4
INVARIANTS
  DeniedOnce
  Settled
  CorrectionsTold
  NamesKept
  BodiesFit
