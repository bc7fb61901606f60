\* Two instances in one directory, predictions of an earlier run on disk.
CONSTANTS
  i1 = i1
  i2 = i2
  Old = Old
  MaxRetries = 1
  ErrorCycleBudget = 2
  Errors = {e1, e2}
  None = None
  Order <- MCOrder
  Writes <- MCWrites
  CommandsFail = TRUE
SPECIFICATION Spec
INVARIANTS
  PatchIsTheHealing
  PredictionsAreOfThisRun
  SummaryIsComplete
