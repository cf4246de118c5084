\* A failed ReadKeyStroke in ConfirmAndWrite writes without an answer.
SPECIFICATION Spec
CONSTANTS
  Keyboard      <- LiveKeys
  Residue       <- NoResidue
  MaxQueue      = 1
  ReadMayFail   = TRUE
  InitialValues <- OneValue
  FirmwareBits  <- NoBits
  OpenPolls     = 2
  MessagePolls  = 2
PROPERTIES WriteNeedsAnswer
