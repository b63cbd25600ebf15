CONSTANTS
  NumPayloads = 6
  PayloadKinds = {"multiAgent"}
  PayloadCap = 1
  BuildCap = 1
  StartNumber = 0
  Faults = {"build"}
  RequestCap = 1
  ResponseCap = 1
  Signable = {"single"}
SPECIFICATION Spec
PROPERTIES EveryPayloadIsSent
