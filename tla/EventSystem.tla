---------------------------- MODULE EventSystem ----------------------------
(***************************************************************************)
(* The console's event system: EventQueue, a linked list on the heap, and  *)
(* EventSystem, which hands each event to every listener of its multimap.  *)
(*                                                                         *)
(* Nothing in the repository uses it, so its users are free: outside       *)
(* dispatchEvents they call anything, and a listener's handleEvent may add *)
(* events, register and unregister listeners, create and destroy them.     *)
(* Two things they are assumed not to do.  They do not remove the entry    *)
(* that is being visited (see Unvisited): dispatchEvent would go on from   *)
(* an erased iterator.  And handleEvent does not call dispatchEvents.      *)
(*                                                                         *)
(* An entry of the multimap has a place among those of its type, so that   *)
(* an iterator is the entry it is at, which is not moved by what is        *)
(* inserted or erased elsewhere.                                           *)
(***************************************************************************)
EXTENDS Integers, FiniteSets

CONSTANTS
    Event,
    Listener,
    EventType,
    Node,           \* addresses for EventQueueItems
    MaxPlace,       \* bound: entries of one type
    Null, Freed, Nothing

ASSUME TypeAssumption == EventType \subseteq Int /\ MaxPlace \in Nat
ASSUME NodeAssumption == IsFiniteSet(Node) /\ Null \notin Node
ASSUME FreedAssumption ==
    Freed \notin [event : Event, nextItem : Node \union {Null}]
ASSUME NothingAssumption ==
    /\ Nothing \notin Event
    /\ Nothing \notin [type : EventType, place : 1 .. MaxPlace, listener : Listener]

VARIABLES
    items,          \* the heap: an EventQueueItem at each Node, or Freed
    mFirstItem, mNewestItem, mSize,
    mListenerMap,   \* the multimap, as the set of its entries
    alive,          \* the listeners that exist
    event,          \* currEvent of dispatchEvents, or Nothing outside
    iter,           \* the entry whose handleEvent runs, or Nothing
    fault           \* something null, freed or destroyed has been used

queueVars == <<items, mFirstItem, mNewestItem, mSize>>
listenerVars == <<mListenerMap, alive>>
vars == <<queueVars, listenerVars, event, iter, fault>>

EventQueueItem == [event : Event, nextItem : Node \union {Null}]
Entry == [type : EventType, place : 1 .. MaxPlace, listener : Listener]

Dispatching == event # Nothing

\* Outside dispatchEvents, or in a handleEvent, which it calls.
UsersTurn == Dispatching => iter # Nothing

-----------------------------------------------------------------------------
(* EventQueue.                                                             *)

\* Mutant of Link: the newest item is left at the one it was.
LinkFirst(n, e) ==
    LET new == [items EXCEPT ![n] = [event |-> e, nextItem |-> Null]] IN
    IF mFirstItem = Null
    THEN items' = new /\ mFirstItem' = n /\ mNewestItem' = n /\ UNCHANGED fault
    ELSE /\ items' = IF mNewestItem = Null THEN new
                     ELSE [new EXCEPT ![mNewestItem].nextItem = n]
         /\ fault' = (fault \/ mNewestItem = Null)
         /\ UNCHANGED <<mFirstItem, mNewestItem>>

\* Mutant of Link: only the newest item is looked at to see if there is one,
\* and the last pop leaves it as it was.
LinkStale(n, e) ==
    LET new == [items EXCEPT ![n] = [event |-> e, nextItem |-> Null]]
        stale == mNewestItem # Null /\ items[mNewestItem] = Freed
    IN  /\ items' = IF mNewestItem = Null \/ stale THEN new
                    ELSE [new EXCEPT ![mNewestItem].nextItem = n]
        /\ fault' = (fault \/ stale)
        /\ mFirstItem' = IF mNewestItem = Null THEN n ELSE mFirstItem
        /\ mNewestItem' = n

\* The new item is filled in and connected to the rest of the queue.
Link(n, e) ==
    LET new == [items EXCEPT ![n] = [event |-> e, nextItem |-> Null]]
        bad == mNewestItem = Null \/ items[mNewestItem] = Freed
    IN  /\ IF mFirstItem # Null
           THEN /\ fault' = (fault \/ bad)
                /\ items' = IF bad THEN new
                            ELSE [new EXCEPT ![mNewestItem].nextItem = n]
                /\ UNCHANGED mFirstItem
           ELSE items' = new /\ mFirstItem' = n /\ UNCHANGED fault
        /\ mNewestItem' = n

push(e) ==
    \E n \in Node : items[n] = Freed /\ Link(n, e) /\ mSize' = mSize + 1

\* pop, and dispatchEvents' use of what it returned.
pop ==
    IF mFirstItem = Null \/ items[mFirstItem] = Freed
    THEN fault' = TRUE /\ UNCHANGED <<queueVars, event>>
    ELSE /\ event' = items[mFirstItem].event
         /\ mFirstItem' = items[mFirstItem].nextItem
         /\ items' = [items EXCEPT ![mFirstItem] = Freed]
         /\ mSize' = mSize - 1
         /\ UNCHANGED <<mNewestItem, fault>>

-----------------------------------------------------------------------------
(* The multimap: by type, and in the order of insertion within a type.     *)

Before(x, y) ==
    x.type < y.type \/ (x.type = y.type /\ x.place < y.place)

FirstOf(x, entries) == x \in entries /\ \A y \in entries \ {x} : Before(x, y)

\* What dispatchEvent has still to visit.
Rest == {x \in mListenerMap : iter = Nothing \/ Before(iter, x)}

\* The assumption on users: the entry being visited stays.
Unvisited(entries) == iter \notin entries

addListener(l, t) ==
    LET peers == {x \in mListenerMap : x.type = t} IN
    /\ l \in alive
    /\ \E p \in 1 .. MaxPlace :
        /\ \A x \in peers : x.place < p
        /\ p > 1 => \E x \in peers : x.place = p - 1
        /\ mListenerMap' = mListenerMap \union {[type |-> t, place |-> p, listener |-> l]}
    /\ UNCHANGED alive

removeListenerFromEvent(l, t) ==
    \E x \in mListenerMap :
        /\ FirstOf(x, {y \in mListenerMap : y.type = t /\ y.listener = l})
        /\ Unvisited({x})
        /\ mListenerMap' = mListenerMap \ {x}
        /\ UNCHANGED alive

\* Mutant of OfListener: one pass of the loop, which stops at the first.
FirstOfListener(l) ==
    {x \in mListenerMap : FirstOf(x, {y \in mListenerMap : y.listener = l})}

OfListener(l) == {x \in mListenerMap : x.listener = l}

removeListenerFromAllEvents(l) ==
    Unvisited(OfListener(l)) /\ mListenerMap' = mListenerMap \ OfListener(l)

-----------------------------------------------------------------------------
(* What users do.                                                          *)

addToEventQueue ==
    UsersTurn /\ (\E e \in Event : push(e)) /\ UNCHANGED <<listenerVars, event, iter>>

Register ==
    /\ UsersTurn
    /\ \E l \in Listener, t \in EventType :
        addListener(l, t) \/ removeListenerFromEvent(l, t)
    /\ UNCHANGED <<queueVars, event, iter, fault>>

Unregister ==
    /\ UsersTurn
    /\ \E l \in alive : removeListenerFromAllEvents(l)
    /\ UNCHANGED <<queueVars, alive, event, iter, fault>>

CreateListener ==
    /\ UsersTurn
    /\ \E l \in Listener \ alive : alive' = alive \union {l}
    /\ UNCHANGED <<queueVars, mListenerMap, event, iter, fault>>

\* ~EventListener unregisters the listener from everything.
DestroyListener ==
    /\ UsersTurn
    /\ \E l \in alive : removeListenerFromAllEvents(l) /\ alive' = alive \ {l}
    /\ UNCHANGED <<queueVars, event, iter, fault>>

-----------------------------------------------------------------------------
(* dispatchEvents.                                                         *)

\* Mutant of MoreEvents: one event for each call.
OneEvent == mSize > 0 /\ ~Dispatching

MoreEvents == mSize > 0

\* The loop of dispatchEvents: the next event is taken from the queue.
TakeEvent ==
    /\ MoreEvents
    /\ Dispatching => Rest = {}
    /\ pop
    /\ iter' = Nothing
    /\ UNCHANGED listenerVars

\* The loop of dispatchEvent: the next entry's listener, of whatever type.
Visit ==
    /\ Dispatching
    /\ \E x \in Rest :
        /\ FirstOf(x, Rest)
        /\ iter' = x
        /\ fault' = (fault \/ x.listener \notin alive)
    /\ UNCHANGED <<queueVars, listenerVars, event>>

Finish ==
    /\ Dispatching
    /\ ~MoreEvents
    /\ Rest = {}
    /\ event' = Nothing /\ iter' = Nothing
    /\ UNCHANGED <<queueVars, listenerVars, fault>>

-----------------------------------------------------------------------------

Init ==
    /\ items = [n \in Node |-> Freed]
    /\ mFirstItem = Null /\ mNewestItem = Null /\ mSize = 0
    /\ mListenerMap = {}
    /\ alive = {}
    /\ event = Nothing /\ iter = Nothing
    /\ fault = FALSE

Users == addToEventQueue \/ Register \/ Unregister \/ CreateListener \/ DestroyListener

Next == Users \/ TakeEvent \/ Visit \/ Finish

Spec == Init /\ [][Next]_vars

(***************************************************************************)
(* A handleEvent returns, and dispatchEvents goes on.  A handler that adds *)
(* an event each time is not excluded; one that registers a listener each  *)
(* time would keep dispatchEvent busy with one event, and is only excluded *)
(* by the bound MaxPlace.                                                  *)
(***************************************************************************)
FairSpec == Spec /\ WF_vars(Visit \/ (Dispatching /\ (TakeEvent \/ Finish)))

-----------------------------------------------------------------------------

\* The linked list: nodes of the queue from the first item on.
NodeAt[k \in 1 .. Cardinality(Node)] ==
    IF k = 1 THEN mFirstItem
    ELSE LET n == NodeAt[k - 1] IN
         IF n = Null \/ items[n] = Freed THEN Null ELSE items[n].nextItem

Queued ==
    [k \in 1 .. mSize |->
        IF NodeAt[k] = Null \/ items[NodeAt[k]] = Freed THEN Nothing
        ELSE items[NodeAt[k]].event]

Fifo == INSTANCE EventFifo WITH queue <- Queued, current <- event

\* Among the rest, that every listener in the multimap exists, and that the
\* entry being visited is still in it.
TypeOK ==
    /\ items \in [Node -> EventQueueItem \union {Freed}]
    /\ mFirstItem \in Node \union {Null} /\ mNewestItem \in Node \union {Null}
    /\ mSize \in Nat
    /\ mListenerMap \subseteq [type : EventType, place : 1 .. MaxPlace, listener : alive]
    /\ alive \subseteq Listener
    /\ event \in Event \union {Nothing}
    /\ iter \in mListenerMap \union {Nothing}
    /\ fault \in BOOLEAN

(***************************************************************************)
(* Neither a freed item nor a destroyed listener nor a null event is ever  *)
(* used: mNewestItem points to a freed item after the last pop             *)
(* (EventQueue.cpp:63), and handleEvent may destroy listeners that         *)
(* dispatchEvent has still to visit.                                       *)
(***************************************************************************)
NeverFaults == ~fault

(***************************************************************************)
(* Why nothing freed is used: the items that are not freed form the list   *)
(* from mFirstItem to mNewestItem, of length mSize.                        *)
(***************************************************************************)
Listed(s) ==
    /\ \A j, k \in 1 .. mSize : s[j] = s[k] => j = k
    /\ \A n \in Node : items[n] # Freed <=> \E k \in 1 .. mSize : s[k] = n
    /\ \A k \in 1 .. mSize - 1 : items[s[k]].nextItem = s[k + 1]
    /\ IF mSize = 0 THEN mFirstItem = Null
       ELSE /\ mFirstItem = s[1] /\ mNewestItem = s[mSize]
            /\ items[mNewestItem].nextItem = Null

ListIsSound == \E s \in [1 .. mSize -> Node] : Listed(s)

IInv == TypeOK /\ ListIsSound /\ NeverFaults

(***************************************************************************)
(* Events are handed out in the order in which they were added, none lost  *)
(* and none twice, those that handleEvent adds included, and dispatchEvents*)
(* returns only when there is nothing left (EventSystem.cpp:108).          *)
(***************************************************************************)
ImplementsFifo == Fifo!Spec

(***************************************************************************)
(* While events are dispatched, every entry of the multimap that is not    *)
(* removed is told of every event in the queue, whatever its type.         *)
(***************************************************************************)
EveryListenerIsTold ==
    \A e \in Event, x \in Entry :
        Dispatching /\ (\E k \in 1 .. mSize : Queued[k] = e) /\ x \in mListenerMap
            ~> (event = e /\ iter = x) \/ x \notin mListenerMap
=============================================================================
