SPECIFICATION CallsSpec
CONSTANTS
  BlockSize = 2
  ByteMax = 3
  Key = {"k1"}
  Xor <- MCXor
  Enc <- MCEnc
  Dec <- MCDec
  Inc <- MCInc
  Mismatched <- MCMismatched
  Texts <- MCTexts
  InitVectors <- MCInitVectors
  MaxBlocks = 3
INVARIANTS
  SentFollowsMode
  OnlyLostBlocksDiffer
  StreamsStayInStep
CHECK_DEADLOCK FALSE
