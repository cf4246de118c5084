\* The countdown reads a key variable that nothing has written.
SPECIFICATION Spec
CONSTANTS
  Keyboard      <- EscOnly
  Residue       <- EscResidue
  MaxQueue      = 1
  ReadMayFail   = FALSE
  InitialValues <- OneValue
  FirmwareBits  <- NoBits
  OpenPolls     = 2
  MessagePolls  = 2
PROPERTIES InteractiveNeedsKey
