\* The console-less program, with the platform changing two bits.
SPECIFICATION FairSpec
CONSTANTS
  InitialValues <- SixBits
  FirmwareBits  <- PlatformBits
INVARIANTS TypeOK EndsCleared
PROPERTIES ImplementsSwitch Returns
