SPECIFICATION FairSpec
CONSTANTS
  BlockSize = 2
  ByteMax = 3
  Key = {"k1"}
  Xor <- MCXor
  Enc <- MCEnc
  Dec <- MCDec
  Inc <- MCInc
  Buffers = {"a", "b"}
  Cells = 2
  Contents <- MCContents2
  InitVectors <- MCInitVectors1
  SizeMod = 16
  MaxCalls = 2
INVARIANTS
  TypeOK
  BlocksFollowMode
  IvIsChained
  PartialBlockFollowsMode
  OnlyOutputIsWritten
  HeapMatchesStep
  StatusTellsProgress
  SizeMatchesOutput
PROPERTIES
  EveryCallReturns
  ImplementsAtomicBox
CHECK_DEADLOCK FALSE
