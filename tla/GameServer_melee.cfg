SPECIFICATION HistorySpec
CONSTANTS
  addrA = addrA
  addrB = addrB
  addrC = addrC
  A = A
  B = B
  C = C
  Address = {addrA, addrB, addrC}
  ID = {A, B, C}
  Ptr = {p1, p2, p3, p4}
  Position = {0}
  Radius = {0}
  Attack = {0, 1, 2}
  Packet <- MeleePackets
  None = None
  Freed = Freed
  Silence = Silence
SYMMETRY PtrSymmetry
INVARIANTS
  AttacksMeetOnce
PROPERTIES
  RoundsFollowTheRules
  ImplementsArena
