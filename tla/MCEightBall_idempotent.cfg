SPECIFICATION Spec
CONSTANTS
  Reviews = {r1, r2}
  Pods <- PodSet
  Answers <- Shipped
  Files <- ShippedFile
  KeysFrom = "spec.containers"
  None = None
CHECK_DEADLOCK FALSE
INVARIANTS Idempotent
