SPECIFICATION CounterSpec
CONSTANTS
  Base = 3
  Starts <- MCStarts
  MaxBlocks = 170
INVARIANTS
  CountsLastWord
  RepeatsAfterPeriod
CHECK_DEADLOCK FALSE
