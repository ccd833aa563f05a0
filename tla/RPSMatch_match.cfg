SPECIFICATION Spec
CONSTANTS
  Player = {A, B}
  Attack = {0, 1, 2}
  TurnSeconds = 2
  Lives = 1
  MaxRounds = 2
  None = None
SYMMETRY PlayerSymmetry
CHECK_DEADLOCK FALSE
INVARIANTS
  TypeOK
  ScoresAgree
  OneCountdown
  SelectionIsTimed
PROPERTIES
  ShownAsFought
  ImplementsDuel
