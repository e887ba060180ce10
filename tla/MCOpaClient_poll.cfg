SPECIFICATION ClientSpec
CONSTANTS
  BundleNames = {"main"}
  FileBases = {"signed-main"}
  Dirs = {"bundles"}
  Configs <- PolledConfigs
  MaxClock = 1
  MaxEdits = 1
  MaxStarts = 3
  None = None
  Requests = {opa}
  Opa = opa
  Resource <- MainFile
  OutDir = "bundles"
  MaxLosses = 1
CHECK_DEADLOCK FALSE
INVARIANTS ClientTypeOK
PROPERTIES ImplementsFeed CatchesUp
