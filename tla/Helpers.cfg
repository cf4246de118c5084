\* Each helper function on every short string, and both tables of characters.
SPECIFICATION CallsSpec
CONSTANTS
  Slots       = 128
  Strings     <- HexStrings
  Positions   = {0, 1, 3, 4, 5}
  Counts      = {0, 1, 2, 3, 4}
  Width       = 3
  WideStrings <- BorderStrings
  ByteStrings <- Appendices
  Texts       <- Literals
INVARIANTS OneCharStrings TableComplete ValueOfDigits Concatenated LowerGone PrintsText
PROPERTIES CallsReturn
