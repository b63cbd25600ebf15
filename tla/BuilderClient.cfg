CONSTANTS
  NumPayloads = 4
  PayloadKinds = {"single", "multiAgent", "other"}
  PayloadCap = 2
  BuildCap = 1
  StartNumber = 5
  Faults = {"account", "build"}
  NewNumbers = {0, 6}
  MaxOverrides = 2
SPECIFICATION Spec
INVARIANTS TypeOK AnsweredInOrder NumbersFollowOverride
PROPERTIES BuilderCloses
