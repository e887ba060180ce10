SPECIFICATION Spec
CONSTANTS
  Reviews = {r1, r2}
  Pods <- PodSet
  Answers <- WithBlank
  Files <- SomeFiles
  KeysFrom = "spec.containers"
  None = None
CHECK_DEADLOCK FALSE
INVARIANTS TypeOK AdmittedOnYes OkIsOneDocument

