SPECIFICATION Spec
CONSTANTS
  addrA = addrA
  addrB = addrB
  A = A
  B = B
  Address = {addrA, addrB}
  ID = {A, B}
  Ptr = {p1, p2, p3}
  Position = {0, 1}
  Radius = {0}
  Attack = {0}
  Packet <- WorldPackets
  None = None
  Freed = Freed
  Silence = Silence
SYMMETRY PtrSymmetry
INVARIANTS
  TypeOK
  RecordsAccountedFor
  OneRecordPerPlayer
PROPERTIES
  UnresolvedIsKept
