\* The defaults of Settings under LangGraph's default limit.
CONSTANTS
  MaxRetries = 3
  ErrorCycleBudget = 5
  RecursionLimit = 25
  EntryKinds = {"test"}
  Errors = {e1, e2}
  Files = {f1}
  HasTestFile = {f1}
  HasTests = {}
  Hides = FALSE
  SandboxFaults = {}
  GitMayFail = FALSE
  AgentsMayRaise = FALSE
  None = None
  Noise = Noise
SPECIFICATION Spec
SYMMETRY Symmetry
INVARIANTS
  NeverOutOfSteps
