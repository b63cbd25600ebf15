CONSTANTS
  NodeMax = 2
  NodeDefault = 1
  None = None
  PageSize = 2
  Modulus = 16
  Starts <- MCStarts
  Limits <- MCLimits
  Blocks <- MCBlocks
  Ledgers <- MCLedgers
  MaxLength = 6
SPECIFICATION Spec
INVARIANTS TypeOK KnownStartIsExact PageFailureIsAllOrNothing NoStartFillsOnlyOnePage BlockIsWholeOrRepeats
PROPERTIES CallsEnd
