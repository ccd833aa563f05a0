SPECIFICATION Spec
CONSTANTS
  Player = {p1, p2, p3}
  Lives = 1
  Reach = 1
  MaxUp = 1
  MaxMeetings = 2
  MayHappen = {"twice", "overtaken", "renamed", "left", "hurried"}
  Late = {p1, p2, p3}
  None = None
VIEW Seen
SYMMETRY PlayerSymmetry
INVARIANTS
  TypeOK
  BattlesAreMutual
  AttackAccountedFor
  ReachReturns
  ScoresAgree
PROPERTIES
  ResultsAreOfTheMatch
