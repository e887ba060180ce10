SPECIFICATION FairSpec
CONSTANTS
  BundleNames = {"main", "ray"}
  FileBases = {"signed-main", "unsigned-ray"}
  Dirs = {"bundles"}
  Configs <- LifeConfigs
  MaxClock = 2
  MaxEdits = 2
  MaxStarts = 3
  None = None
CHECK_DEADLOCK FALSE
INVARIANTS TypeOK EtagNeverAhead RegistryWellKeyed CleanRunsKeepRegistryTrue PanicNeedsNilRegistry PurgeLeavesNothing FreshRefsTrue
PROPERTIES BuildEnds ShutdownEnds
