SPECIFICATION ParsingSpec
CONSTANTS
  Radix = 2
  HalfSize = 2
  Texts <- MCTexts
  Keys <- MCKeys
  MaxCalls = 2
INVARIANTS
  DigitsMakeBytes
  RoundTrip
  OnlyWholeHalvesChange
CHECK_DEADLOCK FALSE
