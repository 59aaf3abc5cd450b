SPECIFICATION Spec
CONSTANTS
  Word <- MCWord
  ZeroWord = 0
  XorWord <- MCXorWord
  SubWord <- MCSubWord
  RotWord <- MCRotWord
  RconWord <- MCRconWord
  Doubled <- MCDoubled
  FipsRcon <- MCFipsRcon
  BoxKeys <- MCBoxKeys
  Unset = Unset
INVARIANTS
  TypeOK
  FollowsFips197
  RegistersHoldLastWords
PROPERTIES
  ImplementsSchedule
CHECK_DEADLOCK FALSE
