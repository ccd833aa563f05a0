SPECIFICATION FairSpec
CONSTANTS
  Thread = {t1, t2}
  Peer = {r1, r2}
  Null = Null
  StartAtOnce = TRUE
INVARIANTS
  NeverFaults
  OneReceiver
  IInv
  PeersAccountedFor
PROPERTIES
  ShutdownReturns
