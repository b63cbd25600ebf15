CONSTANTS
  NumRequests = 3
  BatchSize = 2
  RequestCap = 1
  ResponseCap = 1
SPECIFICATION Spec
INVARIANTS EachRequestAnsweredOnce
