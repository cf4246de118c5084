\* What the comment on Charset of test.c says.
SPECIFICATION CallsSpec
CONSTANTS
  Slots       = 128
  Strings     <- HexStrings
  Positions   = {0, 1, 3, 4, 5}
  Counts      = {0, 1, 2, 3, 4}
  Width       = 3
  WideStrings <- BorderStrings
  ByteStrings <- Appendices
  Texts       <- Literals
INVARIANTS PointersToElements
