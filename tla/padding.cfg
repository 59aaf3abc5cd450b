SPECIFICATION Spec
CONSTANTS
  BlockSize = 2
  ByteMax = 3
  Key = {"k1"}
  Xor <- MCXor
  Enc <- MCEnc
  Dec <- MCDec
  Inc <- MCInc
  Buffers = {"a", "b"}
  Cells = 2
  Contents <- MCContents2
  InitVectors <- MCInitVectors
  SizeMod = 16
  MaxCalls = 1
INVARIANTS
  AcceptedPaddingIsPkcs7
CHECK_DEADLOCK FALSE
