\* Two cycles, drafts of one or two tests, two modules, one of them a package's
\* __init__.py, every fault.
CONSTANTS
  Modules = {"app", "pkg"}
  PackageInits = {"pkg"}
  Names = {a, b}
  Errors = {e1, e2}
  ErrorCycleBudget = 2
  IoFaults = {"snapshot", "append", "restore"}
  SandboxFails = TRUE
  MaxTests = 2
  Followers = {"sound", "wrong"}
  MaxFaults = 1
  None = None
SYMMETRY Symmetry
VIEW NodeView
SPECIFICATION Spec
INVARIANTS
  GreenCommitsKeepTheSuite
  RecordedTestPasses
  SuiteGrowsByTheRecorded
  OnlyABrokenSuiteIsNotImmunized
