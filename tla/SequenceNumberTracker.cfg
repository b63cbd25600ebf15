CONSTANTS
  Procs = {g1, g2, g3}
  MaxUint64 = 2
  NoNumber = NoNumber
  CallsPerProc = 2
  MaxUpdates = 1
SPECIFICATION Spec
INVARIANTS TypeOK UniqueWithinEpoch GaplessWithinEpoch
PROPERTIES AtomicCounter EveryCallReturns
