SPECIFICATION FilesSpec
CONSTANTS
  BlockSize = 2
  ByteMax = 3
  Key = {"k1"}
  Xor <- MCXor
  Enc <- MCEnc
  Dec <- MCDec
  Inc <- MCInc
  SizeMod = 32
  SrcSize = 5
  WhatSize = 4
  Paths = {"p", "q"}
  Missing <- MCMissing
  Disks <- MCDisks
  Replacements <- MCReplacements
  KeyTexts = {"k1", "unreadable"}
  IvTexts <- MCIvTexts
  Sessions <- MCSessions
  FieldEnd = 2
  BfOffBits <- MCBfOffBits
  Stray = {3}
  MaxVectorSize = 8
  MaxFaults = 2
INVARIANTS
  OutputIsCut
  PixelsFollowMode
  DecryptsToCut
CHECK_DEADLOCK FALSE
