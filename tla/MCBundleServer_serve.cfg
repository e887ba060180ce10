SPECIFICATION ServerSpec
CONSTANTS
  BundleNames = {"main", "jimmy"}
  FileBases = {"signed-main", "signed-jimmy"}
  Dirs = {"bundles"}
  Configs <- ServeConfigs
  MaxClock = 1
  MaxEdits = 1
  MaxStarts = 3
  None = None
  Unreadable = Unreadable
  Requests = {r1}
CHECK_DEADLOCK FALSE
INVARIANTS ReqTypeOK EtagDescribesBody RegisteredIsServed
