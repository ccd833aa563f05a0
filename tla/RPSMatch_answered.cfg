SPECIFICATION FairSpec
CONSTANTS
  Player = {A, B}
  Attack = {0}
  TurnSeconds = 2
  Lives = 1
  MaxRounds = 2
  None = None
CHECK_DEADLOCK FALSE
PROPERTIES
  RoundsEnd
