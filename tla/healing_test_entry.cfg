\* Test entry: two files, one of them without tests behind it; every fault, a
\* recursion limit that may cut the session short among them.
CONSTANTS
  MaxRetries = 2
  ErrorCycleBudget = 2
  RecursionLimit = 12
  EntryKinds = {"test"}
  Errors = {e1, e2}
  Files = {f1, f2}
  HasTestFile = {f1, f2}
  HasTests = {f1}
  Hides = TRUE
  SandboxFaults = {"timeout"}
  GitMayFail = TRUE
  AgentsMayRaise = TRUE
  None = None
  Noise = Noise
SPECIFICATION Spec
SYMMETRY Symmetry
INVARIANTS
  TypeOK
  LedgerIsTheHistory
  GreenCommitsPassTheGate
  ResolvedIsGreenOrBudgetSpent
  CorrectorSeesItsCycle
  FeedbackIsOfTheCurrentError
  PostMortemAfterTheRetries

  
