\* Two scenarios in one clone, commands that fail, Ctrl+C pressed twice.
CONSTANTS
  b1 = b1
  b2 = b2
  main = main
  MaxRetries = 2
  ErrorCycleBudget = 1
  Errors = {e1}
  None = None
  Branches <- MCBranches
  Scenarios = {b1, b2}
  TracksDb = {b1}
  Writes <- MCWrites
  CommandsFail = TRUE
  MaxSigint = 2
SPECIFICATION Spec
INVARIANTS
  CheckoutStartsClean
  ForeignEditsStayOut
  RuntimeDbStaysOut
  ReportIsTheRun
  AgentContainersGone
