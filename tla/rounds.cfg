SPECIFICATION RoundsSpec
CONSTANTS
  Rounds = 3
  State <- MCState
  Xor <- MCXor
  SubBytes <- MCSubBytes
  ShiftRows <- MCShiftRows
  MixColumns <- MCMixColumns
  InvSubBytes <- MCInvSubBytes
  InvShiftRows <- MCInvShiftRows
  InvMixColumns <- MCInvMixColumns
  RoundKeys <- MCRoundKeys
INVARIANTS
  Retraces
  ComesBack
CHECK_DEADLOCK FALSE
