\* One artefact of each sort, git and GitHub that may fail.
CONSTANTS
  MaxRetries = 2
  ErrorCycleBudget = 2
  Errors = {e1, e2}
  None = None
  Tracked = {db}
  Excluded = {cache}
  Stray = {log}
  GitMayFail = TRUE
SPECIFICATION Spec
INVARIANTS
  ProbeArtefactsStayOut
  ExitZeroKeepsItsWord
  OnlyResolvedIsPushed
