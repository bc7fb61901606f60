\* The host's clone against the sandbox's mount.
CONSTANTS
  Exceptions = {NameError, TypeError}
  Dirs = {Top, pkg}
  Names = {main_py}
  Funcs = {f, g}
  MaxDepth = 3
  Top = Top
  None = None
SPECIFICATION Spec
PROPERTIES
  MountPointIsNoise
