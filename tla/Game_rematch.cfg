SPECIFICATION FairSpec
CONSTANTS
  Player = {p1, p2}
  Lives = 2
  Reach = 1
  MaxUp = 1
  MaxMeetings = 2
  MayHappen = {"overtaken", "renamed", "left", "hurried"}
  Late = {}
  None = None
INVARIANTS
  ScoresAgree
PROPERTIES
  WaitingEnds
  ReturnedIsFree
