SPECIFICATION HistorySpec
CONSTANTS
  addrA = addrA
  addrB = addrB
  addrC = addrC
  C = C
  A = A
  B = B
  Address = {addrA, addrB}
  ID = {A, B}
  Ptr = {p1, p2, p3}
  Position = {0}
  Radius = {0}
  Attack = {0, 1, 2}
  Packet <- DuelPackets
  None = None
  Freed = Freed
  Silence = Silence
SYMMETRY PtrSymmetry
INVARIANTS
  ResolvedMeansUsed
