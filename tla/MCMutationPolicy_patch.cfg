SPECIFICATION Spec
CONSTANTS
  Names <- SomeNames
  Pods <- SomePods
  Objections <- SomeObjections
  None = None
INVARIANTS TypeOK PatchesApply NothingLost LabelledForGood
