SPECIFICATION Spec
CONSTANTS
  Thread = {t1, t2}
  Peer = {r1, r2}
  Null = Null
  StartAtOnce = FALSE
INVARIANTS
  ThreadStopped
