SPECIFICATION FairSpec
CONSTANTS
    Event = {e1, e2}
    Listener = {l1, l2}
    EventType = {0, 1}
    Node = {n1, n2, n3}
    MaxPlace = 2
    Null = Null
    Freed = Freed
    Nothing = Nothing
INVARIANTS TypeOK NeverFaults
PROPERTIES ImplementsFifo EveryListenerIsTold
