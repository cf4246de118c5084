\* The menu of MSREdit with each of the two HexBoards, over a used shell.
SPECIFICATION FairScreenSpec
CONSTANTS
  Keyboard    <- MenuKeys
  Residue     <- NoResidue
  MaxQueue    = 2
  ReadMayFail = FALSE
  Linked      = {"own", "lib"}
  ExitPolls   = 2
  Columns     = 80
  Lines       = 25
  Width       <- TextLength
  Shell       <- UsedShells
INVARIANTS TypeOK MenuShown RemainsBeside ArrowsShown
PROPERTIES ArrowIsTaken KeysAreRead LibMenuEnds
