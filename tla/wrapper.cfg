SPECIFICATION Spec
CONSTANTS
  BlockSize = 2
  ByteMax = 3
  Key = {"k1"}
  Xor <- MCXor
  Enc <- MCEnc
  Dec <- MCDec
  Inc <- MCInc
  Buffers = {"src_buf", "dest_buf"}
  Cells = 3
  Contents <- MCContents
  InitVectors <- MCInitVectors
  SizeMod = 16
  MaxCalls = 3
  MaxVectorSize = 8
INVARIANTS
  WritesStayInVector
  VectorHoldsMessage
  ExceptionTellsProgress
CHECK_DEADLOCK FALSE
