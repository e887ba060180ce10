SPECIFICATION Spec
CONSTANTS
  Secrets = {"k1", "k2"}
  NoSecret = NoSecret
  Audiences = {"opa", "ops"}
  Entitlements = {"main", "bundles"}
  Paths <- PathSet
  Within <- Contained
  AllowedLists <- Lists
  Tokens <- SomeTokens
  MaxClock = 3
CHECK_DEADLOCK FALSE
INVARIANTS TypeOK DecidedAtOneMoment PassIsEarned
PROPERTIES ImplementsPromise
