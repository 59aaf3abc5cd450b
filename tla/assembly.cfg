SPECIFICATION Spec
CONSTANTS
  Word <- MCWord
  ZeroWord = 0
  XorWord <- MCXorWord
  SubWord <- MCSubWord
  RotWord <- MCRotWord
  RconWord <- MCRconWord
  Doubled <- MCDoubled
  FipsRcon <- MCFipsRcon
  BoxKeys <- MCBoxKeys
  Unset = Unset
  Imc <- MCImc
INVARIANTS
  KeepsItsPromises
  DerivesTheKeysOfC
PROPERTIES
  ImplementsSchedule
CHECK_DEADLOCK FALSE
