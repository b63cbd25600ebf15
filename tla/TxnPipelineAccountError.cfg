CONSTANTS
  NumPayloads = 2
  PayloadKinds = {"single", "multiAgent", "other"}
  PayloadCap = 1
  BuildCap = 1
  StartNumber = 0
  Faults = {"account"}
  RequestCap = 1
  ResponseCap = 1
  Signable = {"single", "multiAgent"}
SPECIFICATION Spec
INVARIANTS ClosedOnCompletionOfPayloads
