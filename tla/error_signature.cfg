\* Stacks of up to three calls, two of everything but file names.
CONSTANTS
  Exceptions = {NameError, TypeError}
  Dirs = {Top, pkg}
  Names = {main_py}
  Funcs = {f, g}
  MaxDepth = 3
  Top = Top
  None = None
SPECIFICATION Spec
INVARIANTS
  CrashIsIdentified
  OnlyFailuresAreFingerprinted
PROPERTIES
  SameBugMatches
  ProgressIsSeen
