\* Both entries chaining two errors, while the sandbox answers.  A recursion limit one
\* above what the budgets allow, so that only a longer session would meet it.
CONSTANTS
  MaxRetries = 2
  ErrorCycleBudget = 2
  RecursionLimit = 16
  EntryKinds = {"crash", "test"}
  Errors = {e1, e2}
  Files = {f1}
  HasTestFile = {f1}
  HasTests = {}
  Hides = TRUE
  SandboxFaults = {}
  GitMayFail = TRUE
  AgentsMayRaise = TRUE
  None = None
  Noise = Noise
SPECIFICATION Spec
INVARIANTS
  StepsBounded
PROPERTIES
  KeepsTheContract
