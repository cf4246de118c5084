\* The calls of the interactive program, with others acting between any two.
SPECIFICATION FairSpec
CONSTANTS
  Keyboard      <- Keys
  Residue       <- AnyResidue
  MaxQueue      = 1
  ReadMayFail   = FALSE
  InitialValues <- Values
  FirmwareBits  <- PlatformBits
  OpenPolls     = 6
  MessagePolls  = 2
  Columns       = 80
  Lines         = 25
  Width         <- TextLength
INVARIANTS Handover ShownBitTrue ScreenAsDrawn BitsAligned OnScreen
PROPERTIES ImplementsZeroProcHot EscWithinReach
