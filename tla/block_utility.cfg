SPECIFICATION BlocksSpec
CONSTANTS
  BlockSize = 2
  ByteMax = 3
  Key <- MCKey
  Xor <- MCXor
  Enc <- MCKeyEnc
  Dec <- MCKeyDec
  Inc <- MCInc
  KeySize <- MCKeySize
  Commands <- MCCommands
  Leftovers <- MCLeftovers
  SrcSize = 5
  WhatSize = 4
INVARIANTS
  OutputFollowsModes
  ExitTellsOutput
  ReadsBack
CHECK_DEADLOCK FALSE
