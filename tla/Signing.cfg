SPECIFICATION Spec
CONSTANTS
  Base = 16
  Width <- Widths
  UlebMax = 127
  AddressLength = 3
  PublicKeyLength <- PublicKeyLengths
  SignatureLength <- SignatureLengths
  Bits = 4
  BitmapBytes = 2
  MultiEd25519BitmapLen = 2
  Names <- TheNames
  Plans <- ThePlans
  MaxHeld = 3
  MaxDrafts = 2
  MaxCut = 1
INVARIANTS TypeOK IntactIsRead TruncatedIsRefused AcceptedWasSigned HonestIsAccepted
