SPECIFICATION Spec
CONSTANTS
  Files = {"main.rego", "data.json", "lib/data.json", ".manifest"}
  Modules = {"main.rego"}
  DataFiles = {"data.json", "lib/data.json"}
  Ignored = {".manifest"}
  DataKeys = {"rules", "images"}
  KeysOf <- Clash
  Contents = {"a", "b", "bad"}
  Unparsable = {"bad"}
  MaxEdits = 2
  None = None
CHECK_DEADLOCK FALSE
INVARIANTS TypeOK SnapshotOfOneMoment DigestCoversArchive
