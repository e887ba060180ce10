SPECIFICATION Spec
CONSTANTS
  Reviews = {r1}
  Pods <- PodSet
  Answers <- Shipped
  Files <- ShippedFile
  KeysFrom = "spec.template.spec.containers"
  None = None
CHECK_DEADLOCK FALSE
INVARIANTS KeysContainImages
