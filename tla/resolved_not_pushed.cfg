\* One scenario, nothing fails and nobody interrupts.
CONSTANTS
  b1 = b1
  b2 = b2
  main = main
  MaxRetries = 2
  ErrorCycleBudget = 1
  Errors = {e1}
  None = None
  Branches <- MCBranches
  Scenarios = {b1}
  TracksDb = {b1}
  Writes <- MCWrites
  CommandsFail = FALSE
  MaxSigint = 0
SPECIFICATION Spec
INVARIANTS
  ResolvedIsPushed
