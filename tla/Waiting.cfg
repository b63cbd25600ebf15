CONSTANTS
  h1 = h1
  h2 = h2
  Hashes = {h1, h2}
  AskedLists <- MCAskedLists
  Timeouts = {0, 2}
  Period = 1
  HttpTimeout = 2
  NoAnswer = NoAnswer
  IndexerTimeout = 3
  SleepTime = 1
  Versions = {0, 1, 2}
SPECIFICATION Spec
INVARIANTS TypeOK OkMeansDone TimeoutIsJustified OvershootIsOneRound
PROPERTIES Returns
