\* What must happen when the program keeps running.
SPECIFICATION FairSpec
CONSTANTS
  Keyboard      <- LiveKeys
  Residue       <- NoResidue
  MaxQueue      = 2
  ReadMayFail   = FALSE
  InitialValues <- OneValue
  FirmwareBits  <- NoBits
  OpenPolls     = 2
  MessagePolls  = 2
PROPERTIES MessagesEnd BufferDrains EscWithinReach ViewKeyIsCommand
