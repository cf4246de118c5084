\* Screen, prompt and register of the interactive program, and its refinement
\* of ProcHotSwitch, with reads of the keyboard that may fail.
SPECIFICATION Spec
CONSTANTS
  Keyboard      <- AllKeys
  Residue       <- AnyResidue
  MaxQueue      = 1
  ReadMayFail   = TRUE
  InitialValues <- SomeValues
  FirmwareBits  <- PlatformBits
  OpenPolls     = 2
  MessagePolls  = 2
INVARIANTS IInv MenuScreenTrue MessageTrue PromptTrue
PROPERTIES ResultShownIsWritten ImplementsSwitch StableBitsKept
