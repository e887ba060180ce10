SPECIFICATION ServerSpec
CONSTANTS
  BundleNames = {"main"}
  FileBases = {"signed-main"}
  Dirs = {"bundles"}
  Configs <- GracefulConfigs
  MaxClock = 1
  MaxEdits = 0
  MaxStarts = 1
  None = None
  Unreadable = Unreadable
  Requests = {r1}
CHECK_DEADLOCK FALSE
INVARIANTS GracefulShutdown
