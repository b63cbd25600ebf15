SPECIFICATION Spec
CONSTANTS
  Base = 16
  Width <- Widths
  UlebMax = 1023
  AddressLength = 3
  MaxDepth = 6
  MaxLength = 4
  StructTokens <- Structs
  PrintedTags <- TheTags
  Functions <- TheFunctions
  Args <- TheArgs
INVARIANTS PrintedParsesBack NothingIsLost ConvertedReadsBack
