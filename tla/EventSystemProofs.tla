-------------------------- MODULE EventSystemProofs --------------------------
(***************************************************************************)
(* Nothing freed or destroyed is used by the event system, for any events, *)
(* listeners and types and any number of items.                            *)
(***************************************************************************)
EXTENDS EventSystem, Sequences, TLAPS, FiniteSetTheorems, WellFoundedInduction

\* At the start the list is empty and no one is registered.
LEMMA InitIInv == Init => IInv
<1> SUFFICES ASSUME Init PROVE IInv
    OBVIOUS
<1>1. TypeOK
    BY DEF Init, TypeOK
<1>2. ListIsSound
    <2> DEFINE s == [k \in 1 .. 0 |-> CHOOSE n \in Node : TRUE]
    <2>1. s \in [1 .. mSize -> Node]
        BY DEF Init
    <2>2. Listed(s)
        BY DEF Init, Listed
    <2> QED
        BY <2>1, <2>2 DEF ListIsSound
<1> QED
    BY <1>1, <1>2 DEF IInv, NeverFaults, Init

\* push (EventQueue.cpp:32-51) makes a list that is longer by one, with the new
\* event at its end, and the newest item it follows is never a freed one.
LEMMA PushLists ==
    ASSUME IInv, NEW e \in Event, push(e),
           UNCHANGED <<listenerVars, event, iter>>,
           NEW s \in [1 .. mSize -> Node], Listed(s)
    PROVE  /\ TypeOK' /\ NeverFaults' /\ mSize' = mSize + 1
           /\ \E t \in [1 .. mSize' -> Node] :
                /\ Listed(t)'
                /\ \A k \in 1 .. mSize : items'[t[k]].event = items[s[k]].event
                /\ items'[t[mSize']].event = e
<1> USE NodeAssumption, FreedAssumption
<1>1. PICK n \in Node : items[n] = Freed /\ Link(n, e) /\ mSize' = mSize + 1
    BY DEF push
<1>2. Listed(s)
    OBVIOUS
<1> DEFINE item == [event |-> e, nextItem |-> Null]
<1>3. mSize \in Nat /\ items \in [Node -> EventQueueItem \union {Freed}]
    BY DEF IInv, TypeOK
<1>4. item \in EventQueueItem /\ item # Freed
    BY DEF EventQueueItem
<1>5. \A k \in 1 .. mSize : s[k] \in Node /\ s[k] # n /\ items[s[k]] # Freed
    BY <1>1, <1>2 DEF Listed
<1>6. mFirstItem = Null <=> mSize = 0
    BY <1>2, <1>3, <1>5 DEF Listed
<1>7. PICK t \in [1 .. mSize' -> Node] :
        \A k \in 1 .. mSize' : t[k] = IF k = mSize + 1 THEN n ELSE s[k]
    <2> DEFINE t == [k \in 1 .. mSize' |-> IF k = mSize + 1 THEN n ELSE s[k]]
    <2>1. t \in [1 .. mSize' -> Node]
        BY <1>1, <1>3, <1>5
    <2> QED
        BY <2>1
<1>8. CASE mSize = 0
    <2>1. /\ items' = [items EXCEPT ![n] = item]
          /\ mFirstItem' = n /\ mNewestItem' = n /\ fault' = fault
        BY <1>1, <1>6, <1>8 DEF Link, IInv, NeverFaults
    <2>2. TypeOK'
        BY <1>1, <1>3, <1>4, <2>1 DEF IInv, TypeOK, listenerVars
    <2>3. \A m \in Node : m # n => items'[m] = Freed
        BY <1>2, <1>3, <1>8, <2>1 DEF Listed
    <2>4. Listed(t)'
        BY <1>1, <1>3, <1>4, <1>7, <1>8, <2>1, <2>3 DEF Listed
    <2>5. t[mSize'] = n /\ items'[n].event = e
        BY <1>1, <1>3, <1>7, <1>8, <2>1
    <2> QED
        BY <1>1, <1>7, <1>8, <2>1, <2>2, <2>4, <2>5 DEF IInv, NeverFaults
<1>9. CASE mSize # 0
    <2> DEFINE m == mNewestItem
    <2>1. m = s[mSize] /\ m \in Node /\ m # n /\ items[m] \in EventQueueItem
        BY <1>2, <1>3, <1>5, <1>9 DEF Listed
    <2>2. /\ items' = [[items EXCEPT ![n] = item] EXCEPT ![m].nextItem = n]
          /\ mFirstItem' = mFirstItem /\ mNewestItem' = n /\ fault' = fault
        <3>1. mFirstItem # Null /\ ~(m = Null \/ items[m] = Freed)
            BY <1>6, <1>9, <2>1 DEF EventQueueItem
        <3>2. fault \in BOOLEAN
            BY DEF IInv, TypeOK
        <3> QED
            BY <1>1, <3>1, <3>2 DEF Link
    <2>3. /\ items'[n] = item
          /\ items'[m] = [items[m] EXCEPT !.nextItem = n]
          /\ \A p \in Node : p # n /\ p # m => items'[p] = items[p]
        BY <1>3, <2>1, <2>2
    <2>4. items'[m] \in EventQueueItem /\ items'[m].nextItem = n
        BY <2>1, <2>3 DEF EventQueueItem
    <2>5. items' \in [Node -> EventQueueItem \union {Freed}]
        BY <1>3, <1>4, <2>1, <2>2, <2>3, <2>4
    <2>6. TypeOK'
        BY <1>1, <1>3, <2>2, <2>5 DEF IInv, TypeOK, listenerVars
    <2>7. \A j, k \in 1 .. mSize' : t[j] = t[k] => j = k
        BY <1>1, <1>2, <1>3, <1>5, <1>7 DEF Listed
    <2>8. \A p \in Node : items'[p] # Freed <=> \E k \in 1 .. mSize' : t[k] = p
        <3> TAKE p \in Node
        <3>1. items'[p] # Freed <=> p = n \/ items[p] # Freed
            BY <1>4, <2>1, <2>3, <2>4 DEF EventQueueItem
        <3>2. (\E k \in 1 .. mSize' : t[k] = p) <=> p = n \/ \E k \in 1 .. mSize : s[k] = p
            BY <1>1, <1>3, <1>7
        <3> QED
            BY <1>2, <3>1, <3>2 DEF Listed
    <2>9. \A k \in 1 .. mSize' - 1 : items'[t[k]].nextItem = t[k + 1]
        <3> TAKE k \in 1 .. mSize' - 1
        <3>1. CASE k = mSize
            BY <1>1, <1>3, <1>7, <1>9, <2>1, <2>4, <3>1
        <3>2. CASE k # mSize
            <4>1. k \in 1 .. mSize - 1 /\ t[k] = s[k] /\ t[k + 1] = s[k + 1]
                BY <1>1, <1>3, <1>7, <3>2
            <4>2. s[k] # m /\ s[k] # n /\ s[k] \in Node
                BY <1>2, <1>3, <1>5, <2>1, <4>1 DEF Listed
            <4> QED
                BY <1>2, <2>3, <4>1, <4>2 DEF Listed
        <3> QED
            BY <3>1, <3>2
    <2>10. /\ mFirstItem' = t[1] /\ mNewestItem' = t[mSize']
           /\ items'[mNewestItem'].nextItem = Null /\ mSize' # 0
        <3>1. 1 \in 1 .. mSize' /\ mSize' \in 1 .. mSize' /\ 1 # mSize + 1
              /\ mSize' = mSize + 1 /\ mSize' # 0
            BY <1>1, <1>3, <1>9
        <3>2. t[1] = s[1] /\ t[mSize'] = n
            BY <1>7, <3>1
        <3> QED
            BY <1>2, <1>9, <2>2, <2>3, <3>1, <3>2 DEF Listed
    <2>11. Listed(t)'
        BY <2>7, <2>8, <2>9, <2>10 DEF Listed
    <2>12. items'[m].event = items[m].event
        BY <2>1, <2>3 DEF EventQueueItem
    <2>13. \A k \in 1 .. mSize : items'[t[k]].event = items[s[k]].event
        <3> TAKE k \in 1 .. mSize
        <3>1. t[k] = s[k] /\ s[k] \in Node /\ s[k] # n
            BY <1>1, <1>3, <1>5, <1>7
        <3> QED
            BY <2>3, <2>12, <3>1
    <2>14. items'[t[mSize']].event = e
        BY <1>1, <1>3, <1>7, <2>3
    <2> QED
        BY <1>1, <1>7, <2>2, <2>6, <2>11, <2>13, <2>14 DEF IInv, NeverFaults
<1> QED
    BY <1>8, <1>9

LEMMA PushKeeps ==
    ASSUME IInv, NEW e \in Event, push(e),
           UNCHANGED <<listenerVars, event, iter>>
    PROVE  IInv'
<1>1. PICK s \in [1 .. mSize -> Node] : Listed(s)
    BY DEF IInv, ListIsSound
<1> QED
    BY <1>1, PushLists DEF IInv, ListIsSound

\* pop (EventQueue.cpp:53-73) hands out the event of the first item of the list,
\* frees it and keeps the others; as the size is checked first, there is one.
LEMMA TakeLists ==
    ASSUME IInv, TakeEvent, NEW s \in [1 .. mSize -> Node], Listed(s)
    PROVE  /\ TypeOK' /\ NeverFaults' /\ mSize > 0 /\ mSize' = mSize - 1
           /\ event' = items[s[1]].event
           /\ \E t \in [1 .. mSize' -> Node] :
                /\ Listed(t)'
                /\ \A k \in 1 .. mSize' : items'[t[k]].event = items[s[k + 1]].event
<1> USE NodeAssumption, FreedAssumption
<1>1. Listed(s)
    OBVIOUS
<1>2. mSize \in Nat /\ mSize > 0 /\ items \in [Node -> EventQueueItem \union {Freed}]
    BY DEF IInv, TypeOK, TakeEvent, MoreEvents
<1> DEFINE f == mFirstItem
<1>3. f = s[1] /\ f \in Node /\ items[f] # Freed /\ items[f] \in EventQueueItem
    BY <1>1, <1>2 DEF Listed
<1>4. /\ event' = items[f].event /\ mFirstItem' = items[f].nextItem
      /\ items' = [items EXCEPT ![f] = Freed]
      /\ mSize' = mSize - 1 /\ mNewestItem' = mNewestItem /\ fault' = fault
      /\ iter' = Nothing /\ mListenerMap' = mListenerMap /\ alive' = alive
    BY <1>3 DEF TakeEvent, pop, listenerVars
<1>5. TypeOK'
    <2>1. items' \in [Node -> EventQueueItem \union {Freed}]
        BY <1>2, <1>4
    <2>2. event' \in Event /\ mFirstItem' \in Node \union {Null}
        BY <1>3, <1>4 DEF EventQueueItem
    <2> QED
        BY <1>2, <1>4, <2>1, <2>2 DEF IInv, TypeOK
<1>6. PICK t \in [1 .. mSize' -> Node] : \A k \in 1 .. mSize' : t[k] = s[k + 1]
    <2> DEFINE t == [k \in 1 .. mSize' |-> s[k + 1]]
    <2>1. t \in [1 .. mSize' -> Node]
        BY <1>2, <1>4
    <2> QED
        BY <2>1
<1>7. \A j, k \in 1 .. mSize' : t[j] = t[k] => j = k
    BY <1>1, <1>2, <1>4, <1>6 DEF Listed
<1>8. \A n \in Node : items'[n] # Freed <=> \E k \in 1 .. mSize' : t[k] = n
    <2> TAKE n \in Node
    <2>1. items'[n] # Freed <=> n # f /\ items[n] # Freed
        BY <1>2, <1>3, <1>4
    <2>2. ASSUME NEW k \in 1 .. mSize, s[k] = n, n # f
          PROVE  \E j \in 1 .. mSize' : t[j] = n
        <3>1. k - 1 \in 1 .. mSize' /\ t[k - 1] = n
            BY <1>2, <1>3, <1>4, <1>6, <2>2
        <3> QED
            BY <3>1
    <2>3. ASSUME NEW k \in 1 .. mSize', t[k] = n
          PROVE  n # f /\ \E j \in 1 .. mSize : s[j] = n
        <3>1. k + 1 \in 1 .. mSize /\ s[k + 1] = n /\ k + 1 # 1 /\ 1 \in 1 .. mSize
            BY <1>2, <1>4, <1>6, <2>3
        <3> QED
            BY <1>1, <1>3, <3>1 DEF Listed
    <2> QED
        BY <1>1, <2>1, <2>2, <2>3 DEF Listed
<1>9. \A k \in 1 .. mSize' - 1 : items'[t[k]].nextItem = t[k + 1]
    <2> TAKE k \in 1 .. mSize' - 1
    <2>1. /\ k + 1 \in 1 .. mSize - 1 /\ k + 1 \in 1 .. mSize /\ 1 \in 1 .. mSize
          /\ t[k] = s[k + 1] /\ t[k + 1] = s[(k + 1) + 1]
        BY <1>2, <1>4, <1>6
    <2>2. s[k + 1] # f /\ s[k + 1] \in Node
        BY <1>1, <1>2, <1>3, <2>1 DEF Listed
    <2> QED
        BY <1>1, <1>2, <1>4, <2>1, <2>2 DEF Listed
<1>12. \A k \in 1 .. mSize' : items'[t[k]].event = items[s[k + 1]].event
    <2> TAKE k \in 1 .. mSize'
    <2>1. k + 1 \in 1 .. mSize /\ k + 1 # 1 /\ 1 \in 1 .. mSize /\ t[k] = s[k + 1]
        BY <1>2, <1>4, <1>6
    <2>2. s[k + 1] # f /\ s[k + 1] \in Node
        BY <1>1, <1>3, <2>1 DEF Listed
    <2> QED
        BY <1>2, <1>4, <2>1, <2>2
<1>10. CASE mSize = 1
    <2>1. mFirstItem' = Null /\ mSize' = 0
        BY <1>1, <1>2, <1>3, <1>4, <1>10 DEF Listed
    <2>2. Listed(t)'
        BY <1>7, <1>8, <1>9, <2>1 DEF Listed
    <2> QED
        BY <1>2, <1>3, <1>4, <1>5, <1>6, <1>12, <2>2 DEF IInv, NeverFaults
<1>11. CASE mSize # 1
    <2>1. /\ mSize' # 0 /\ 1 \in 1 .. mSize - 1 /\ mSize \in 1 .. mSize
          /\ t[1] = s[2] /\ t[mSize'] = s[mSize]
        BY <1>2, <1>4, <1>6, <1>11
    <2>2. mFirstItem' = t[1] /\ mNewestItem' = t[mSize']
        BY <1>1, <1>2, <1>3, <1>4, <2>1 DEF Listed
    <2>3. mNewestItem # f /\ mNewestItem \in Node
        BY <1>1, <1>2, <1>3, <1>11, <2>1 DEF Listed
    <2>4. items'[mNewestItem'].nextItem = Null
        BY <1>1, <1>2, <1>4, <2>3 DEF Listed
    <2>5. Listed(t)'
        BY <1>7, <1>8, <1>9, <2>1, <2>2, <2>4 DEF Listed
    <2> QED
        BY <1>2, <1>3, <1>4, <1>5, <1>6, <1>12, <2>5 DEF IInv, NeverFaults
<1> QED
    BY <1>10, <1>11

LEMMA TakeKeeps == IInv /\ TakeEvent => IInv'
<1> SUFFICES ASSUME IInv, TakeEvent PROVE IInv'
    OBVIOUS
<1>1. PICK s \in [1 .. mSize -> Node] : Listed(s)
    BY DEF IInv, ListIsSound
<1> QED
    BY <1>1, TakeLists DEF IInv, ListIsSound

\* What leaves the queue alone leaves the list as it is.
LEMMA ListKept ==
    ASSUME IInv, UNCHANGED queueVars
    PROVE  ListIsSound'
<1>1. PICK s \in [1 .. mSize -> Node] : Listed(s)
    BY DEF IInv, ListIsSound
<1>2. s \in [1 .. mSize' -> Node] /\ Listed(s)'
    BY <1>1 DEF queueVars, Listed
<1> QED
    BY <1>2 DEF ListIsSound

\* Registering and unregistering, in a handleEvent or outside.
LEMMA RegisterKeeps == IInv /\ Register => IInv'
<1> SUFFICES ASSUME IInv, Register PROVE IInv'
    OBVIOUS
<1>1. PICK l \in Listener, t \in EventType :
        addListener(l, t) \/ removeListenerFromEvent(l, t)
    BY DEF Register
<1>2. CASE addListener(l, t)
    <2>1. PICK p \in 1 .. MaxPlace :
            mListenerMap' = mListenerMap \union {[type |-> t, place |-> p, listener |-> l]}
        BY <1>2 DEF addListener
    <2>2. TypeOK'
        BY <1>2, <2>1 DEF IInv, TypeOK, addListener, Register, queueVars
    <2> QED
        BY <2>2, ListKept DEF IInv, NeverFaults, Register
<1>3. CASE removeListenerFromEvent(l, t)
    <2>1. TypeOK'
        BY <1>3 DEF IInv, TypeOK, removeListenerFromEvent, Unvisited, Register, queueVars
    <2> QED
        BY <2>1, ListKept DEF IInv, NeverFaults, Register
<1> QED
    BY <1>1, <1>2, <1>3

\* A destroyed listener leaves no entry behind (EventListener.cpp:22-25).
LEMMA DestroyKeeps == IInv /\ DestroyListener => IInv'
<1> SUFFICES ASSUME IInv, DestroyListener PROVE IInv'
    OBVIOUS
<1>1. PICK l \in alive : removeListenerFromAllEvents(l) /\ alive' = alive \ {l}
    BY DEF DestroyListener
<1>2. \A x \in mListenerMap' : x \in mListenerMap /\ x.listener # l
    BY <1>1 DEF removeListenerFromAllEvents, OfListener
<1>3. mListenerMap' \subseteq [type : EventType, place : 1 .. MaxPlace, listener : alive']
    BY <1>1, <1>2 DEF IInv, TypeOK
<1>4. iter \in mListenerMap' \union {Nothing}
    BY <1>1 DEF IInv, TypeOK, removeListenerFromAllEvents, Unvisited, OfListener
<1>5. TypeOK'
    BY <1>1, <1>3, <1>4 DEF IInv, TypeOK, DestroyListener, queueVars
<1> QED
    BY <1>5, ListKept DEF IInv, NeverFaults, DestroyListener

LEMMA NextKeeps == IInv /\ [Next]_vars => IInv'
<1> SUFFICES ASSUME IInv, [Next]_vars PROVE IInv'
    OBVIOUS
<1>1. CASE addToEventQueue
    BY <1>1, PushKeeps DEF addToEventQueue
<1>2. CASE Register
    BY <1>2, RegisterKeeps
<1>3. CASE Unregister
    <2>1. TypeOK'
        BY <1>3 DEF Unregister, removeListenerFromAllEvents, Unvisited, OfListener,
                    IInv, TypeOK, queueVars
    <2> QED
        BY <1>3, <2>1, ListKept DEF IInv, NeverFaults, Unregister
<1>4. CASE CreateListener
    <2>1. TypeOK'
        BY <1>4 DEF CreateListener, IInv, TypeOK, queueVars
    <2> QED
        BY <1>4, <2>1, ListKept DEF IInv, NeverFaults, CreateListener
<1>5. CASE DestroyListener
    BY <1>5, DestroyKeeps
<1>6. CASE TakeEvent
    BY <1>6, TakeKeeps
<1>7. CASE Visit
    <2>1. PICK x \in Rest : iter' = x /\ fault' = (fault \/ x.listener \notin alive)
        BY <1>7 DEF Visit
    <2>2. x \in mListenerMap /\ x.listener \in alive
        BY <2>1 DEF Rest, IInv, TypeOK
    <2>3. TypeOK'
        BY <1>7, <2>1, <2>2 DEF Visit, IInv, TypeOK, queueVars, listenerVars
    <2> QED
        BY <1>7, <2>1, <2>2, <2>3, ListKept DEF IInv, NeverFaults, Visit
<1>8. CASE Finish
    <2>1. TypeOK'
        BY <1>8 DEF Finish, IInv, TypeOK, queueVars, listenerVars
    <2> QED
        BY <1>8, <2>1, ListKept DEF IInv, NeverFaults, Finish
<1>9. CASE UNCHANGED vars
    <2>1. TypeOK' /\ ~fault'
        BY <1>9 DEF vars, queueVars, listenerVars, IInv, TypeOK, NeverFaults
    <2> QED
        BY <1>9, <2>1, ListKept DEF vars, IInv, NeverFaults
<1> QED
    BY <1>1, <1>2, <1>3, <1>4, <1>5, <1>6, <1>7, <1>8, <1>9 DEF Next, Users

\* The list is sound, every registered listener exists and nothing has been
\* used that is gone.
THEOREM Invariance == Spec => []IInv
    BY InitIInv, NextKeeps, PTL DEF Spec

\* The event system's state keeps its types: every listener in the multimap
\* exists (EventListener.cpp:24).
THEOREM TypeCorrectness == Spec => []TypeOK
<1>1. IInv => TypeOK
    BY DEF IInv
<1> QED
    BY <1>1, Invariance, PTL

\* push, pop and dispatchEvent use no item that pop has freed and no listener
\* that has been destroyed, whatever a handleEvent does.
THEOREM NothingGoneIsUsed == Spec => []NeverFaults
<1>1. IInv => NeverFaults
    BY DEF IInv
<1> QED
    BY <1>1, Invariance, PTL

-----------------------------------------------------------------------------
(* First in, first out.                                                    *)

\* A set of numbers that is not empty has a least one.
LEMMA LeastNumber ==
    ASSUME NEW T, T \subseteq Nat, T # {}
    PROVE  \E x \in T : \A y \in T : x <= y
<1>1. PICK x \in T : \A y \in T : ~(<<y, x>> \in OpToRel(<, Nat))
    BY WFMin, NatLessThanWellFounded, Zenon
<1>2. \A y \in T : ~(y < x)
    BY <1>1 DEF OpToRel
<1> QED
    BY <1>2

\* The nodes of the list that starts at first on the heap its: the function that
\* NodeAt is, and what it is that f is this function.
NextOf(its, f, k, first) ==
    IF k = 1 THEN first
    ELSE LET n == f[k - 1] IN
         IF n = Null \/ its[n] = Freed THEN Null ELSE its[n].nextItem

Follows(its, first, f) ==
    f = [k \in 1 .. Cardinality(Node) |-> NextOf(its, f, k, first)]

\* That s lists a chain of size items from first on.
Chained(its, first, size, s) ==
    /\ \A j, k \in 1 .. size : s[j] = s[k] => j = k
    /\ \A k \in 1 .. size : its[s[k]] # Freed
    /\ \A k \in 1 .. size - 1 : its[s[k]].nextItem = s[k + 1]
    /\ IF size = 0 THEN first = Null
       ELSE first = s[1] /\ its[s[size]].nextItem = Null

\* There are no more items in a list than nodes.
LEMMA ChainIsShort ==
    ASSUME NEW size \in Nat, NEW s \in [1 .. size -> Node],
           \A j, k \in 1 .. size : s[j] = s[k] => j = k
    PROVE  size <= Cardinality(Node) /\ Cardinality(Node) \in Nat
<1>1. IsFiniteSet(1 .. size) /\ Cardinality(1 .. size) = size
    BY FS_Interval
<1>2. Cardinality(Node) \in Nat
    BY FS_CardinalityType, NodeAssumption
<1>3. ~(Cardinality(Node) < Cardinality(1 .. size))
    <2> SUFFICES ASSUME Cardinality(Node) < Cardinality(1 .. size) PROVE FALSE
        OBVIOUS
    <2>1. \E j, k \in 1 .. size : j # k /\ s[j] = s[k]
        BY <1>1, FS_PigeonHole, NodeAssumption, Zenon
    <2> QED
        BY <2>1
<1> QED
    BY <1>1, <1>2, <1>3

\* The chain itself, with Null behind its end, follows the links.
LEMMA ChainFollows ==
    ASSUME NEW its, NEW first, NEW size \in Nat, NEW s \in [1 .. size -> Node],
           Chained(its, first, size, s)
    PROVE  \E f : Follows(its, first, f)
<1> DEFINE f == [k \in 1 .. Cardinality(Node) |-> IF k <= size THEN s[k] ELSE Null]
<1>1. size <= Cardinality(Node) /\ Cardinality(Node) \in Nat
    BY ChainIsShort DEF Chained
<1>2. ASSUME NEW k \in 1 .. Cardinality(Node)
      PROVE  f[k] = NextOf(its, f, k, first)
    <2>1. CASE k = 1
        BY <2>1 DEF Chained, NextOf
    <2>2. CASE k # 1
        <3>1. k - 1 \in 1 .. Cardinality(Node) /\ k - 1 \in Nat
            BY <1>1, <2>2
        <3>2. CASE k <= size
            <4>1. k - 1 \in 1 .. size - 1 /\ k - 1 \in 1 .. size /\ (k - 1) + 1 = k
                BY <2>2, <3>2
            <4>2. f[k - 1] = s[k - 1] /\ f[k] = s[k] /\ s[k - 1] # Null
                BY <3>1, <3>2, <4>1, NodeAssumption
            <4> QED
                BY <2>2, <4>1, <4>2 DEF Chained, NextOf
        <3>3. CASE k = size + 1
            <4>1. size # 0 /\ k - 1 = size /\ size \in 1 .. size
                BY <2>2, <3>3
            <4>2. f[k - 1] = s[size] /\ f[k] = Null /\ s[size] # Null
                BY <3>1, <3>3, <4>1, NodeAssumption
            <4> QED
                BY <2>2, <4>1, <4>2 DEF Chained, NextOf
        <3>4. CASE k > size + 1
            <4>1. f[k - 1] = Null /\ f[k] = Null
                BY <3>1, <3>4
            <4> QED
                BY <2>2, <4>1 DEF NextOf
        <3> QED
            BY <3>2, <3>3, <3>4
    <2> QED
        BY <2>1, <2>2
<1>3. f = [k \in 1 .. Cardinality(Node) |-> NextOf(its, f, k, first)]
    <2> DEFINE g == [k \in 1 .. Cardinality(Node) |-> NextOf(its, f, k, first)]
    <2>1. \A k \in 1 .. Cardinality(Node) : f[k] = g[k]
        BY <1>2
    <2> QED
        BY <2>1
<1> QED
    BY <1>3 DEF Follows

\* Only one function follows the links: two would differ at a first place, and
\* agree at the place before it.
LEMMA FollowedIsChain ==
    ASSUME NEW its, NEW first, NEW size \in Nat, NEW s \in [1 .. size -> Node],
           Chained(its, first, size, s), NEW f, Follows(its, first, f)
    PROVE  \A k \in 1 .. size : f[k] = s[k]
<1> DEFINE T == {k \in 1 .. size : f[k] # s[k]}
<1> SUFFICES ASSUME T # {} PROVE FALSE
    OBVIOUS
<1>1. T \subseteq Nat
    OBVIOUS
<1>2. PICK x \in T : \A y \in T : x <= y
    BY <1>1, LeastNumber
<1>3. size <= Cardinality(Node) /\ Cardinality(Node) \in Nat
    BY ChainIsShort DEF Chained
<1>4. x \in 1 .. size /\ x \in 1 .. Cardinality(Node) /\ f[x] # s[x]
    BY <1>2, <1>3
<1>5. f[x] = NextOf(its, f, x, first)
    BY <1>4 DEF Follows
<1>6. CASE x = 1
    BY <1>4, <1>5, <1>6 DEF NextOf, Chained
<1>7. CASE x # 1
    <2>1. x - 1 \in 1 .. size /\ x - 1 \in 1 .. size - 1 /\ (x - 1) + 1 = x
        BY <1>4, <1>7
    <2>2. x - 1 \notin T
        BY <1>2, <1>4, <2>1
    <2>3. f[x - 1] = s[x - 1] /\ s[x - 1] # Null
        BY <2>1, <2>2, NodeAssumption
    <2> HIDE DEF T
    <2> QED
        BY <1>4, <1>5, <1>7, <2>1, <2>3 DEF NextOf, Chained
<1> QED
    BY <1>6, <1>7

\* NodeAt is a function that follows the links, now and in the next state.
LEMMA NodesFollow ==
    /\ (\E f : Follows(items, mFirstItem, f)) => Follows(items, mFirstItem, NodeAt)
    /\ (\E f : Follows(items', mFirstItem', f)) => Follows(items', mFirstItem', NodeAt')
BY DEF NodeAt, Follows, NextOf

\* What the abstract queue holds, then, is the events of the items listed.
EventsOf(its, size, s) == [k \in 1 .. size |-> its[s[k]].event]

LEMMA QueuedNow ==
    ASSUME IInv, NEW s \in [1 .. mSize -> Node], Listed(s)
    PROVE  Queued = EventsOf(items, mSize, s)
<1>1. mSize \in Nat
    BY DEF IInv, TypeOK
<1>2. Chained(items, mFirstItem, mSize, s)
    BY <1>1 DEF Listed, Chained
<1>3. \A k \in 1 .. mSize : NodeAt[k] = s[k]
    <2>1. \E f : Follows(items, mFirstItem, f)
        BY <1>1, <1>2, ChainFollows
    <2>2. Follows(items, mFirstItem, NodeAt)
        BY <2>1, NodesFollow
    <2> QED
        BY <1>1, <1>2, <2>2, FollowedIsChain
<1>4. \A k \in 1 .. mSize : NodeAt[k] # Null /\ items[NodeAt[k]] # Freed
    BY <1>2, <1>3, NodeAssumption DEF Chained
<1> QED
    BY <1>3, <1>4 DEF Queued, EventsOf

LEMMA QueuedNext ==
    ASSUME IInv', NEW s \in [1 .. mSize' -> Node], Listed(s)'
    PROVE  Queued' = EventsOf(items', mSize', s)
<1>1. mSize' \in Nat
    BY DEF IInv, TypeOK
<1>2. Chained(items', mFirstItem', mSize', s)
    BY <1>1 DEF Listed, Chained
<1>3. \A k \in 1 .. mSize' : NodeAt'[k] = s[k]
    <2>1. \E f : Follows(items', mFirstItem', f)
        BY <1>1, <1>2, ChainFollows
    <2>2. PICK f : f = NodeAt' /\ Follows(items', mFirstItem', f)
        BY <2>1, NodesFollow
    <2>3. \A k \in 1 .. mSize' : f[k] = s[k]
        BY <1>1, <1>2, <2>2, FollowedIsChain
    <2> QED
        BY <2>2, <2>3
<1>4. \A k \in 1 .. mSize' : NodeAt'[k] # Null /\ items'[NodeAt'[k]] # Freed
    BY <1>2, <1>3, NodeAssumption DEF Chained
<1> QED
    BY <1>3, <1>4 DEF Queued, EventsOf

\* The events of a list are a sequence of its length.
LEMMA EventsAreASequence ==
    ASSUME NEW its \in [Node -> EventQueueItem \union {Freed}], NEW size \in Nat,
           NEW s \in [1 .. size -> Node], \A k \in 1 .. size : its[s[k]] # Freed
    PROVE  EventsOf(its, size, s) \in Seq(Event) /\ Len(EventsOf(its, size, s)) = size
<1>1. \A k \in 1 .. size : its[s[k]].event \in Event
    BY DEF EventQueueItem
<1> QED
    BY <1>1 DEF EventsOf

\* A sequence with one more element at its end, or without its first one.
LEMMA AppendedIs ==
    ASSUME NEW q \in Seq(Event), NEW e \in Event, NEW r \in Seq(Event),
           Len(r) = Len(q) + 1, r[Len(r)] = e, \A k \in 1 .. Len(q) : r[k] = q[k]
    PROVE  r = Append(q, e)
OBVIOUS

LEMMA TailIs ==
    ASSUME NEW q \in Seq(Event), NEW r \in Seq(Event), Len(q) > 0,
           Len(r) = Len(q) - 1, \A k \in 1 .. Len(r) : r[k] = q[k + 1]
    PROVE  r = Tail(q)
OBVIOUS

\* What is not push or pop leaves the abstract queue as it is.
LEMMA QueueKept ==
    ASSUME UNCHANGED queueVars
    PROVE  Queued' = Queued
BY DEF Queued, NodeAt, queueVars

LEMMA InitRefines == Init => Fifo!Init
BY DEF Init, Fifo!Init, Queued

LEMMA AddRefines ==
    ASSUME IInv, IInv', addToEventQueue
    PROVE  \E e \in Event : Fifo!Add(e)
<1>1. PICK e \in Event : push(e)
    BY DEF addToEventQueue
<1>2. PICK s \in [1 .. mSize -> Node] : Listed(s)
    BY DEF IInv, ListIsSound
<1>3. UNCHANGED <<listenerVars, event, iter>>
    BY DEF addToEventQueue
<1>4. PICK t \in [1 .. mSize' -> Node] :
        /\ Listed(t)'
        /\ \A k \in 1 .. mSize : items'[t[k]].event = items[s[k]].event
        /\ items'[t[mSize']].event = e
    BY <1>1, <1>2, <1>3, PushLists
<1>5. mSize' = mSize + 1
    BY <1>1, <1>2, <1>3, PushLists
<1> DEFINE q == EventsOf(items, mSize, s)
           r == EventsOf(items', mSize', t)
<1>6. Queued = q /\ Queued' = r
    BY <1>2, <1>4, QueuedNow, QueuedNext
<1>7. /\ q \in Seq(Event) /\ Len(q) = mSize /\ mSize \in Nat
      /\ r \in Seq(Event) /\ Len(r) = mSize'
    <2>1. /\ mSize \in Nat /\ items \in [Node -> EventQueueItem \union {Freed}]
          /\ mSize' \in Nat /\ items' \in [Node -> EventQueueItem \union {Freed}]
        BY DEF IInv, TypeOK
    <2>2. /\ \A k \in 1 .. mSize : items[s[k]] # Freed
          /\ \A k \in 1 .. mSize' : items'[t[k]] # Freed
        BY <1>2, <1>4 DEF Listed
    <2>3. q \in Seq(Event) /\ Len(q) = mSize
        BY <2>1, <2>2, EventsAreASequence
    <2>4. r \in Seq(Event) /\ Len(r) = mSize'
        BY <2>1, <2>2, EventsAreASequence
    <2> QED
        BY <2>1, <2>3, <2>4
<1>8. r[mSize'] = e /\ \A k \in 1 .. mSize : r[k] = q[k]
    BY <1>4, <1>5, <1>7 DEF EventsOf
<1> HIDE DEF q, r
<1>9. r = Append(q, e)
    BY <1>5, <1>7, <1>8, AppendedIs
<1> QED
    BY <1>3, <1>6, <1>9 DEF Fifo!Add

LEMMA TakeRefines ==
    ASSUME IInv, IInv', TakeEvent
    PROVE  Fifo!Take
<1>1. PICK s \in [1 .. mSize -> Node] : Listed(s)
    BY DEF IInv, ListIsSound
<1>2. PICK t \in [1 .. mSize' -> Node] :
        /\ Listed(t)'
        /\ \A k \in 1 .. mSize' : items'[t[k]].event = items[s[k + 1]].event
    BY <1>1, TakeLists
<1>3. mSize > 0 /\ mSize' = mSize - 1 /\ event' = items[s[1]].event
    BY <1>1, TakeLists
<1> DEFINE q == EventsOf(items, mSize, s)
           r == EventsOf(items', mSize', t)
<1>4. Queued = q /\ Queued' = r
    BY <1>1, <1>2, QueuedNow, QueuedNext
<1>5. /\ q \in Seq(Event) /\ Len(q) = mSize /\ mSize \in Nat
      /\ r \in Seq(Event) /\ Len(r) = mSize'
    <2>1. /\ mSize \in Nat /\ items \in [Node -> EventQueueItem \union {Freed}]
          /\ mSize' \in Nat /\ items' \in [Node -> EventQueueItem \union {Freed}]
        BY DEF IInv, TypeOK
    <2>2. /\ \A k \in 1 .. mSize : items[s[k]] # Freed
          /\ \A k \in 1 .. mSize' : items'[t[k]] # Freed
        BY <1>1, <1>2 DEF Listed
    <2>3. q \in Seq(Event) /\ Len(q) = mSize
        BY <2>1, <2>2, EventsAreASequence
    <2>4. r \in Seq(Event) /\ Len(r) = mSize'
        BY <2>1, <2>2, EventsAreASequence
    <2> QED
        BY <2>1, <2>3, <2>4
<1>6. q[1] = items[s[1]].event /\ \A k \in 1 .. mSize' : r[k] = q[k + 1]
    BY <1>2, <1>3, <1>5 DEF EventsOf
<1> HIDE DEF q, r
<1>7. r = Tail(q)
    BY <1>3, <1>5, <1>6, TailIs
<1>8. q # <<>> /\ Head(q) = q[1]
    BY <1>3, <1>5
<1> QED
    BY <1>3, <1>4, <1>6, <1>7, <1>8 DEF Fifo!Take

LEMMA FinishRefines ==
    ASSUME IInv, Finish
    PROVE  Fifo!Finish
<1>1. mSize = 0 /\ event' = Nothing /\ UNCHANGED queueVars
    BY DEF Finish, MoreEvents, IInv, TypeOK
<1>2. Queued = <<>>
    BY <1>1 DEF Queued
<1> QED
    BY <1>1, <1>2, QueueKept DEF Fifo!Finish

LEMMA StepRefines ==
    IInv /\ IInv' /\ [Next]_vars => [Fifo!Next]_<<Queued, event>>
<1> SUFFICES ASSUME IInv, IInv', [Next]_vars PROVE [Fifo!Next]_<<Queued, event>>
    OBVIOUS
<1>1. CASE addToEventQueue
    BY <1>1, AddRefines DEF Fifo!Next
<1>2. CASE TakeEvent
    BY <1>2, TakeRefines DEF Fifo!Next
<1>3. CASE Finish
    BY <1>3, FinishRefines DEF Fifo!Next
<1>4. CASE Register \/ Unregister \/ CreateListener \/ DestroyListener \/ Visit \/ UNCHANGED vars
    <2>1. UNCHANGED queueVars /\ event' = event
        BY <1>4 DEF Register, Unregister, CreateListener, DestroyListener, Visit, vars
    <2> QED
        BY <2>1, QueueKept
<1> QED
    BY <1>1, <1>2, <1>3, <1>4 DEF Next, Users

\* However handlers add events while others are dispatched, the linked list hands
\* them out in the order in which they were added, each as often as it was, and
\* dispatchEvents ends only with an empty queue (EventSystem.cpp:108).
THEOREM FirstInFirstOut == Spec => ImplementsFifo
<1>1. Spec => [][Fifo!Next]_<<Queued, event>>
    BY Invariance, StepRefines, PTL DEF Spec
<1>2. Spec => Fifo!Init
    BY InitRefines, PTL DEF Spec
<1> QED
    BY <1>1, <1>2, PTL DEF ImplementsFifo, Fifo!Spec

=============================================================================
