SPECIFICATION Spec
CONSTANTS
  BlockSize = 2
  ByteMax = 3
  Key = {"k1"}
  Xor <- MCXor
  Enc <- MCEnc
  Dec <- MCDec
  Inc <- MCInc
  Buffers = {"plain", "cipher"}
  Cells = 3
  Contents <- MCContents
  InitVectors <- MCInitVectors
  SizeMod = 16
  MaxCalls = 4
  Messages <- MCMessages
  MaxMessages = 3
  NoMessage = NoMessage
INVARIANTS
  RoundTrip
  StaysInSync
  UndisturbedIsInSync
  ChainingModesRecover
CHECK_DEADLOCK FALSE
