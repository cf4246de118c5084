\* The menu of MSREdit with the HexBoard of MSREdit.c.
SPECIFICATION FairScreenSpec
CONSTANTS
  Keyboard    <- LiveKeys
  Residue     <- NoResidue
  MaxQueue    = 1
  ReadMayFail = FALSE
  Linked      = {"own"}
  ExitPolls   = 2
  Columns     = 80
  Lines       = 25
  Width       <- TextLength
  Shell       <- OneShell
PROPERTIES MenuCanEnd
