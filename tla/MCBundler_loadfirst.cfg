SPECIFICATION Spec
CONSTANTS
  BundleNames = {"main", "ray"}
  FileBases = {"signed-main", "unsigned-ray"}
  Dirs = {"bundles"}
  Configs <- LoadFirstConfigs
  MaxClock = 1
  MaxEdits = 0
  MaxStarts = 1
  None = None
CHECK_DEADLOCK FALSE
INVARIANT BuildFailureIsLogged
