CONSTANTS
  NumPayloads = 3
  PayloadKinds = {"single", "multiAgent", "other"}
  PayloadCap = 1
  BuildCap = 1
  StartNumber = 0
  Faults = {"account", "build", "sign", "submit", "lost"}
  RequestCap = 1
  ResponseCap = 1
  Signable = {"single", "multiAgent"}
SPECIFICATION Spec
INVARIANTS TypeOK NoSendOnClosedChannel NothingLeftBehind NoNumberSubmittedTwice NoSilentGap
PROPERTIES AnswersEachPayloadOnce ResponsesEnd
