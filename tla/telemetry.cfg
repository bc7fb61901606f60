\* Two runs of six nodes in all, two completions.
CONSTANTS
  MaxRuns = 2
  MaxNodes = 6
  MaxCalls = 2
  None = None
SPECIFICATION Spec
INVARIANTS
  SpansStayInTheirRun
  CallsAreCountedOnce
  NodePathIsTheWalk
  ReportCountsWhatArrived
