----------------------------- MODULE GameServer -----------------------------
(***************************************************************************)
(* The game server: the two threads of egp-net-game-server and the records *)
(* they share.                                                             *)
(*                                                                         *)
(* The network thread (egpNetPeerManager::NetworkingThread) takes one      *)
(* packet at a time from RakNet and runs DemoPeerManager::ProcessPacket,   *)
(* which allocates a record, and files it in one of the two vectors under  *)
(* dataLock.  The main thread runs ServerState::updateState: it scans both *)
(* vectors WITHOUT the lock, broadcasts what it finds, and then, under the *)
(* lock, deletes the records it has resolved.                              *)
(*                                                                         *)
(* A step is one access of a thread to the shared records.  A record lives *)
(* at an address of the heap; a deleted address may be allocated again,    *)
(* and reading it before that yields any record at all.  Reading and       *)
(* writing one element of a vector is one step; a read of the vector's     *)
(* buffer while push_back moves it is not distinguished from that.         *)
(***************************************************************************)
EXTENDS Integers, Sequences, RpsRules

CONSTANTS
    Address,        \* RakNet system addresses of the connected clients
    ID,             \* player identifiers (ClientID)
    Ptr,            \* addresses the allocator hands out
    Position,       \* where a player may stand, on a line
    Radius,         \* collision radii; DelayCombat.cs sends -1 for a while
    Attack,         \* what clients send as currentAttack: an RPSType
    Packet,         \* the packets clients may send
    None,           \* no identifier, no address of either kind
    Freed,          \* what the heap holds at an address that is not allocated
    Silence         \* no packet is broadcast in this step

PlayerData ==
    [id : ID, position : Position, collisionRadius : Radius, inCombat : BOOLEAN,
     currentAttack : Attack, opponentID : ID \cup {None}, unresolved : BOOLEAN]

\* The two vectors of DemoPeerManager: pendingPlayerUpdates, pendingAttackers.
List == {"players", "attackers"}

PacketOf(kind) ==
    IF kind \in {"update", "combat"}
    THEN [kind : {kind}, address : Address, id : ID, position : Position,
          collisionRadius : Radius, inCombat : BOOLEAN, currentAttack : Attack,
          opponentID : ID \cup {None}]
    ELSE [kind : {kind}, address : Address]

ASSUME PacketAssumption ==
    Packet \subseteq UNION {PacketOf(k) :
                       k \in {"update", "combat", "disconnection", "other"}}

ASSUME DistinctAssumption == /\ None \notin ID \cup Ptr \cup Address
                             /\ Freed \notin PlayerData

ASSUME NumberAssumption == /\ Position \subseteq Int
                           /\ Radius \subseteq Int
                           /\ Attack \subseteq 0 .. 2

-----------------------------------------------------------------------------
VARIABLES
    heap,           \* the record at each address, or Freed
    pending,        \* the two vectors, as sequences of addresses
    idAddressPairs, \* the identifier bound to each address, or None
    dataLock,       \* the thread that holds the mutex, or "free"
    netPc,          \* where the network thread is
    hand,           \* the record it has created and not yet filed
    filing,         \* the vector that record goes to
    sender,         \* the address its packet came from
    slot,           \* the index it has found the old record at
    mainPc,         \* where the main thread is
    i, j,           \* its two loop indices
    currentPlayer,  \* its copy of the pointer at i
    thisPlayer,     \* its copy of the pointer at j
    sweeping,       \* the vector it is clearing
    kept,           \* the queue of unresolved records it puts back
    out             \* the packet broadcast by the last step, or Silence

netVars  == <<netPc, hand, filing, sender, slot>>
mainVars == <<mainPc, i, j, currentPlayer, thisPlayer, sweeping, kept>>
vars     == <<heap, pending, idAddressPairs, dataLock, netVars, mainVars, out>>

Allocated(p) == heap[p] # Freed
Free == {p \in Ptr : ~Allocated(p)}

\* What a read through pointer p can yield: any record once p is deleted.
Peek(p) == IF Allocated(p) THEN {heap[p]} ELSE PlayerData

\* The writes "record->inCombat = true" and "record->unresolved = false".
\* Through a deleted pointer they change no record of the program.
MarkedInCombat(h, p) ==
    IF h[p] # Freed THEN [h EXCEPT ![p].inCombat = TRUE] ELSE h
MarkedResolved(h, p) ==
    IF h[p] # Freed THEN [h EXCEPT ![p].unresolved = FALSE] ELSE h

Distance(a, b) == IF a < b THEN b - a ELSE a - b

-----------------------------------------------------------------------------
(* The network thread.                                                     *)

\* Mutant of RecordOf: currentAttack keeps its initial value (PlayerData.h:88).
RecordOfNoAttack(pkt) ==
    [id |-> pkt.id, position |-> pkt.position,
     collisionRadius |-> pkt.collisionRadius, inCombat |-> pkt.inCombat,
     currentAttack |-> -1, opponentID |-> pkt.opponentID, unresolved |-> TRUE]

\* createPlayerFromPacket: a new record is unresolved (PlayerData.cpp:4).
RecordOf(pkt) ==
    [id |-> pkt.id, position |-> pkt.position,
     collisionRadius |-> pkt.collisionRadius, inCombat |-> pkt.inCombat,
     currentAttack |-> pkt.currentAttack, opponentID |-> pkt.opponentID,
     unresolved |-> TRUE]

CreateRecord(pkt, list) ==
    \E p \in Free :
        /\ heap' = [heap EXCEPT ![p] = RecordOf(pkt)]
        /\ hand' = p
        /\ filing' = list
        /\ sender' = pkt.address
        /\ netPc' = "lock"

\* UPDATE_NETWORK_PLAYER, up to the lock: the address is bound to the first
\* identifier it sends; a record with another identifier is deleted at once.
ReceiveUpdate(pkt) ==
    /\ netPc = "idle" /\ pkt.kind = "update"
    /\ \/ /\ idAddressPairs[pkt.address] \in {None, pkt.id}
          /\ CreateRecord(pkt, "players")
          /\ idAddressPairs' = [idAddressPairs EXCEPT ![pkt.address] = pkt.id]
       \/ /\ idAddressPairs[pkt.address] \notin {None, pkt.id}
          /\ UNCHANGED <<heap, hand, filing, sender, netPc, idAddressPairs>>
    /\ out' = Silence
    /\ UNCHANGED <<pending, dataLock, slot, mainVars>>

\* UPDATE_COMBAT_PLAYER, up to the lock.  The CombatPlayerData and the
\* PlayerData it points to are one record here.
ReceiveCombat(pkt) ==
    /\ netPc = "idle" /\ pkt.kind = "combat"
    /\ CreateRecord(pkt, "attackers")
    /\ out' = Silence
    /\ UNCHANGED <<pending, idAddressPairs, dataLock, slot, mainVars>>

\* ID_DISCONNECTION_NOTIFICATION: onPlayerDisconnect forgets the binding and
\* leaves the player's records where they are.
onPlayerDisconnect(pkt) ==
    /\ netPc = "idle" /\ pkt.kind = "disconnection"
    /\ idAddressPairs' = [idAddressPairs EXCEPT ![pkt.address] = None]
    /\ out' = Silence
    /\ UNCHANGED <<heap, pending, dataLock, netVars, mainVars>>

\* ID_CONNECTION_LOST and the notices that are only printed.
IgnorePacket(pkt) ==
    /\ netPc = "idle" /\ pkt.kind = "other"
    /\ out' = Silence
    /\ UNCHANGED <<heap, pending, idAddressPairs, dataLock, netVars, mainVars>>

\* lock_guard lock(dataLock) of the network thread.
NetLock ==
    /\ netPc = "lock" /\ dataLock = "free"
    /\ dataLock' = "net"
    /\ netPc' = "add"
    /\ out' = Silence
    /\ UNCHANGED <<heap, pending, idAddressPairs, hand, filing, sender, slot,
                   mainVars>>

\* Mutant of SamePlayer: the records' addresses are compared, not their ids.
SamePlayerByAddress(n) == pending[filing][n] = hand

\* The record at index n of the vector is of the same player as the new one.
SamePlayer(n) == LET p == pending[filing][n]
                 IN  Allocated(p) /\ heap[p].id = heap[hand].id

\* addPlayerData, addCombatData: the old record of this player is deleted, ...
DeleteOld ==
    /\ netPc = "add"
    /\ \E n \in 1 .. Len(pending[filing]) :
          /\ SamePlayer(n)
          /\ \A m \in 1 .. (n - 1) : ~SamePlayer(m)
          /\ slot' = n
          /\ heap' = [heap EXCEPT ![pending[filing][n]] = Freed]
    /\ netPc' = "store"
    /\ out' = Silence
    /\ UNCHANGED <<pending, idAddressPairs, dataLock, hand, filing, sender, mainVars>>

\* ... and the new one stored at its index;
StoreNew ==
    /\ netPc = "store"
    /\ pending' = [pending EXCEPT ![filing] = [@ EXCEPT ![slot] = hand]]
    /\ netPc' = "filed"
    /\ out' = Silence
    /\ UNCHANGED <<heap, idAddressPairs, dataLock, hand, filing, sender, slot,
                   mainVars>>

\* if there is none, the new record is pushed back.
PushBack ==
    /\ netPc = "add"
    /\ \A n \in 1 .. Len(pending[filing]) : ~SamePlayer(n)
    /\ pending' = [pending EXCEPT ![filing] = Append(@, hand)]
    /\ netPc' = "filed"
    /\ out' = Silence
    /\ UNCHANGED <<heap, idAddressPairs, dataLock, hand, filing, sender, slot,
                   mainVars>>

\* The end of both cases, still under the lock: a player update is relayed to
\* every other client; an attack binds its address to its identifier.
FinishFiling ==
    /\ netPc = "filed"
    /\ LET record == heap[hand] IN
       \/ /\ filing = "players"
          /\ out' = [kind |-> "entity", id |-> record.id, except |-> sender]
          /\ UNCHANGED idAddressPairs
       \/ /\ filing = "attackers"
          /\ out' = Silence
          /\ idAddressPairs' = [idAddressPairs EXCEPT ![sender] = record.id]
    /\ dataLock' = "free"
    /\ netPc' = "idle"
    /\ hand' = None
    /\ filing' = "players"
    /\ sender' = None
    /\ slot' = 0
    /\ UNCHANGED <<heap, pending, mainVars>>

Receive == \E pkt \in Packet : \/ ReceiveUpdate(pkt)
                               \/ ReceiveCombat(pkt)
                               \/ onPlayerDisconnect(pkt)
                               \/ IgnorePacket(pkt)

File == NetLock \/ DeleteOld \/ StoreNew \/ PushBack \/ FinishFiling

-----------------------------------------------------------------------------
(* The main thread: updateState, once the network tick has elapsed.        *)

sharedByNet == <<pending, idAddressPairs, dataLock>>
Players   == pending["players"]
Attackers == pending["attackers"]

\* Between two ticks updateState only reads the clock.
BeginTick ==
    /\ mainPc = "idle"
    /\ mainPc' = "fetchCurrent"
    /\ i' = 1
    /\ out' = Silence
    /\ UNCHANGED <<heap, sharedByNet, netVars, j, currentPlayer, thisPlayer,
                   sweeping, kept>>

\* checkWorldCollisions: the outer loop copies the pointer at i, ...
FetchCurrent ==
    /\ mainPc = "fetchCurrent"
    /\ \/ /\ i <= Len(Players)
          /\ currentPlayer' = Players[i]
          /\ mainPc' = "testCurrent"
          /\ UNCHANGED i
       \/ /\ i > Len(Players)
          /\ i' = 1
          /\ mainPc' = "fetchAttacker"
          /\ UNCHANGED currentPlayer
    /\ out' = Silence
    /\ UNCHANGED <<heap, sharedByNet, netVars, j, thisPlayer, sweeping, kept>>

\* ... skips a player in combat, ...
TestCurrent ==
    /\ mainPc = "testCurrent"
    /\ \E c \in Peek(currentPlayer) :
          \/ /\ c.inCombat
             /\ i' = i + 1
             /\ currentPlayer' = None
             /\ mainPc' = "fetchCurrent"
             /\ UNCHANGED j
          \/ /\ ~c.inCombat
             /\ j' = i + 1
             /\ mainPc' = "fetchOther"
             /\ UNCHANGED <<i, currentPlayer>>
    /\ out' = Silence
    /\ UNCHANGED <<heap, sharedByNet, netVars, thisPlayer, sweeping, kept>>

\* ... and compares with each later one.
FetchOther ==
    /\ mainPc = "fetchOther"
    /\ \/ /\ j <= Len(Players)
          /\ thisPlayer' = Players[j]
          /\ mainPc' = "compare"
          /\ UNCHANGED <<i, j, currentPlayer>>
       \/ /\ j > Len(Players)
          /\ i' = i + 1
          /\ j' = 0
          /\ currentPlayer' = None
          /\ mainPc' = "fetchCurrent"
          /\ UNCHANGED thisPlayer
    /\ out' = Silence
    /\ UNCHANGED <<heap, sharedByNet, netVars, sweeping, kept>>

NotComparable(c, t) == t.inCombat \/ c.id = t.id
Touches(c, t) == Distance(c.position, t.position) <= c.collisionRadius

Compare ==
    /\ mainPc = "compare"
    /\ \E c \in Peek(currentPlayer), t \in Peek(thisPlayer) :
          \/ /\ NotComparable(c, t)
             /\ j' = j + 1
             /\ thisPlayer' = None
             /\ mainPc' = "fetchOther"
          \/ /\ ~NotComparable(c, t) /\ Touches(c, t)
             /\ mainPc' = "collide"
             /\ UNCHANGED <<j, thisPlayer>>
          \/ /\ ~NotComparable(c, t) /\ ~Touches(c, t)
             /\ mainPc' = "resolve"
             /\ UNCHANGED <<j, thisPlayer>>
    /\ out' = Silence
    /\ UNCHANGED <<heap, sharedByNet, netVars, i, currentPlayer, sweeping, kept>>

\* thisPlayer->unresolved = false, at the end of the inner loop's body.
ResolveOther ==
    /\ mainPc = "resolve"
    /\ heap' = MarkedResolved(heap, thisPlayer)
    /\ j' = j + 1
    /\ thisPlayer' = None
    /\ mainPc' = "fetchOther"
    /\ out' = Silence
    /\ UNCHANGED <<sharedByNet, netVars, i, currentPlayer, sweeping, kept>>

\* sendCollisionPacket reads both identifiers again.
SendCollision ==
    /\ mainPc = "collide"
    /\ \E c \in Peek(currentPlayer), t \in Peek(thisPlayer) :
          out' = [kind |-> "collision", first |-> c.id, second |-> t.id]
    /\ mainPc' = "engage"
    /\ UNCHANGED <<heap, sharedByNet, netVars, i, j, currentPlayer, thisPlayer,
                   sweeping, kept>>

\* Both players are in combat; break.
Engage ==
    /\ mainPc = "engage"
    /\ heap' = MarkedInCombat(MarkedInCombat(heap, currentPlayer), thisPlayer)
    /\ i' = i + 1
    /\ j' = 0
    /\ currentPlayer' = None
    /\ thisPlayer' = None
    /\ mainPc' = "fetchCurrent"
    /\ out' = Silence
    /\ UNCHANGED <<sharedByNet, netVars, sweeping, kept>>

\* Mutant of FetchAttacker: the opponent's search starts one place too far.
FetchAttackerSkippingOne ==
    /\ mainPc = "fetchAttacker"
    /\ \/ /\ i > Len(Attackers)
          /\ mainPc' = "lock"
          /\ i' = 0
          /\ UNCHANGED j
       \/ /\ i <= Len(Attackers)
          /\ \E a \in Peek(Attackers[i]) :
                \/ /\ ~a.unresolved
                   /\ i' = i + 1
                   /\ UNCHANGED <<j, mainPc>>
                \/ /\ a.unresolved
                   /\ j' = i + 2
                   /\ mainPc' = "findOpponent"
                   /\ UNCHANGED i
    /\ out' = Silence
    /\ UNCHANGED <<heap, sharedByNet, netVars, currentPlayer, thisPlayer,
                   sweeping, kept>>

\* Mutant of FetchAttacker: a resolved attack is not skipped.
FetchAttackerAny ==
    /\ mainPc = "fetchAttacker"
    /\ \/ /\ i > Len(Attackers)
          /\ mainPc' = "lock"
          /\ i' = 0
          /\ UNCHANGED j
       \/ /\ i <= Len(Attackers)
          /\ j' = i + 1
          /\ mainPc' = "findOpponent"
          /\ UNCHANGED i
    /\ out' = Silence
    /\ UNCHANGED <<heap, sharedByNet, netVars, currentPlayer, thisPlayer,
                   sweeping, kept>>

\* checkForPlayerBattles: the outer loop skips a resolved attack, ...
FetchAttacker ==
    /\ mainPc = "fetchAttacker"
    /\ \/ /\ i > Len(Attackers)
          /\ mainPc' = "lock"
          /\ i' = 0
          /\ UNCHANGED j
       \/ /\ i <= Len(Attackers)
          /\ \E a \in Peek(Attackers[i]) :
                \/ /\ ~a.unresolved
                   /\ i' = i + 1
                   /\ UNCHANGED <<j, mainPc>>
                \/ /\ a.unresolved
                   /\ j' = i + 1
                   /\ mainPc' = "findOpponent"
                   /\ UNCHANGED i
    /\ out' = Silence
    /\ UNCHANGED <<heap, sharedByNet, netVars, currentPlayer, thisPlayer,
                   sweeping, kept>>

\* ... the inner one looks for its opponent at a later index.
FindOpponent ==
    /\ mainPc = "findOpponent"
    /\ \/ /\ j > Len(Attackers)
          /\ i' = i + 1
          /\ j' = 0
          /\ mainPc' = "fetchAttacker"
       \/ /\ j <= Len(Attackers)
          /\ \E a \in Peek(Attackers[i]), b \in Peek(Attackers[j]) :
                \/ /\ a.opponentID = b.id
                   /\ mainPc' = "fight"
                   /\ UNCHANGED j
                \/ /\ a.opponentID # b.id
                   /\ j' = j + 1
                   /\ UNCHANGED mainPc
          /\ UNCHANGED i
    /\ out' = Silence
    /\ UNCHANGED <<heap, sharedByNet, netVars, currentPlayer, thisPlayer,
                   sweeping, kept>>

handlePlayerBattle ==
    /\ mainPc = "fight"
    /\ \E a \in Peek(Attackers[i]), b \in Peek(Attackers[j]) :
          out' = RoundWinner(a, b)
    /\ mainPc' = "resolveFirst"
    /\ UNCHANGED <<heap, sharedByNet, netVars, i, j, currentPlayer, thisPlayer,
                   sweeping, kept>>

\* Both attacks are marked resolved, through pointers read again; break.
ResolveFirst ==
    /\ mainPc = "resolveFirst"
    /\ heap' = MarkedResolved(heap, Attackers[i])
    /\ mainPc' = "resolveSecond"
    /\ out' = Silence
    /\ UNCHANGED <<sharedByNet, netVars, i, j, currentPlayer, thisPlayer,
                   sweeping, kept>>

\* Mutant of ResolveSecond: the first attack is marked a second time.
ResolveFirstAgain ==
    /\ mainPc = "resolveSecond"
    /\ heap' = MarkedResolved(heap, Attackers[i])
    /\ i' = i + 1
    /\ j' = 0
    /\ mainPc' = "fetchAttacker"
    /\ out' = Silence
    /\ UNCHANGED <<sharedByNet, netVars, currentPlayer, thisPlayer, sweeping, kept>>

ResolveSecond ==
    /\ mainPc = "resolveSecond"
    /\ heap' = MarkedResolved(heap, Attackers[j])
    /\ i' = i + 1
    /\ j' = 0
    /\ mainPc' = "fetchAttacker"
    /\ out' = Silence
    /\ UNCHANGED <<sharedByNet, netVars, currentPlayer, thisPlayer, sweeping, kept>>

\* Mutant of MainLock: the clearing loops do not wait for the mutex.
MainLockNoWait ==
    /\ mainPc = "lock"
    /\ dataLock' = "main"
    /\ mainPc' = "sweep"
    /\ sweeping' = "players"
    /\ i' = 1
    /\ out' = Silence
    /\ UNCHANGED <<heap, pending, idAddressPairs, netVars, j, currentPlayer,
                   thisPlayer, kept>>

\* lock_guard lock(dataLock) of the main thread.
MainLock ==
    /\ mainPc = "lock" /\ dataLock = "free"
    /\ dataLock' = "main"
    /\ mainPc' = "sweep"
    /\ sweeping' = "players"
    /\ i' = 1
    /\ out' = Silence
    /\ UNCHANGED <<heap, pending, idAddressPairs, netVars, j, currentPlayer,
                   thisPlayer, kept>>

\* Mutant of Sweep: the test of unresolved is inverted.
SweepInverted ==
    /\ mainPc = "sweep" /\ i <= Len(pending[sweeping])
    /\ LET p == pending[sweeping][i] IN
       \E r \in Peek(p) :
          \/ /\ ~r.unresolved
             /\ kept' = Append(kept, p)
             /\ UNCHANGED heap
          \/ /\ r.unresolved
             /\ heap' = [heap EXCEPT ![p] = Freed]
             /\ UNCHANGED kept
    /\ i' = i + 1
    /\ out' = Silence
    /\ UNCHANGED <<sharedByNet, netVars, mainPc, j, currentPlayer, thisPlayer,
                   sweeping>>

\* One iteration of a clearing loop: a resolved record is deleted, an
\* unresolved one queued.
Sweep ==
    /\ mainPc = "sweep" /\ i <= Len(pending[sweeping])
    /\ LET p == pending[sweeping][i] IN
       \E r \in Peek(p) :
          \/ /\ r.unresolved
             /\ kept' = Append(kept, p)
             /\ UNCHANGED heap
          \/ /\ ~r.unresolved
             /\ heap' = [heap EXCEPT ![p] = Freed]
             /\ UNCHANGED kept
    /\ i' = i + 1
    /\ out' = Silence
    /\ UNCHANGED <<sharedByNet, netVars, mainPc, j, currentPlayer, thisPlayer,
                   sweeping>>

\* The vector is cleared and the queue put back; after the second one the
\* lock is released and the tick is over.
Refill ==
    /\ mainPc = "sweep" /\ i > Len(pending[sweeping])
    /\ pending' = [pending EXCEPT ![sweeping] = kept]
    /\ kept' = <<>>
    /\ \/ /\ sweeping = "players"
          /\ sweeping' = "attackers"
          /\ i' = 1
          /\ UNCHANGED <<mainPc, dataLock>>
       \/ /\ sweeping = "attackers"
          /\ sweeping' = "players"
          /\ i' = 0
          /\ mainPc' = "idle"
          /\ dataLock' = "free"
    /\ out' = Silence
    /\ UNCHANGED <<heap, idAddressPairs, netVars, j, currentPlayer, thisPlayer>>

checkWorldCollisions == \/ FetchCurrent \/ TestCurrent \/ FetchOther \/ Compare
                        \/ ResolveOther \/ SendCollision \/ Engage

checkForPlayerBattles == \/ FetchAttacker \/ FindOpponent \/ handlePlayerBattle
                         \/ ResolveFirst \/ ResolveSecond

updateState == \/ BeginTick \/ checkWorldCollisions \/ checkForPlayerBattles
               \/ MainLock \/ Sweep \/ Refill

-----------------------------------------------------------------------------
Init ==
    /\ heap = [p \in Ptr |-> Freed]
    /\ pending = [l \in List |-> <<>>]
    /\ idAddressPairs = [a \in Address |-> None]
    /\ dataLock = "free"
    /\ netPc = "idle" /\ hand = None /\ slot = 0
    /\ filing = "players" /\ sender = None
    /\ mainPc = "idle" /\ i = 0 /\ j = 0
    /\ currentPlayer = None /\ thisPlayer = None
    /\ sweeping = "players" /\ kept = <<>>
    /\ out = Silence

Next == Receive \/ File \/ updateState

Spec == Init /\ [][Next]_vars

\* Both threads keep running; the main thread gets the mutex if it is free
\* time and again while it waits.
FairSpec == /\ Spec
            /\ WF_vars(File)
            /\ WF_vars(updateState)
            /\ SF_vars(MainLock)

-----------------------------------------------------------------------------
(* Properties.                                                             *)

Index(l) == 1 .. Len(pending[l])

NetPc  == {"idle", "lock", "add", "store", "filed"}
MainPc == {"idle", "fetchCurrent", "testCurrent", "fetchOther", "compare",
           "collide", "engage", "resolve", "fetchAttacker", "findOpponent",
           "fight", "resolveFirst", "resolveSecond", "lock", "sweep"}

Broadcast == [kind : {"entity"}, id : ID, except : Address]
             \cup [kind : {"collision"}, first : ID, second : ID]
             \cup [kind : {"roundWinner"}, winner : ID, loser : ID,
                   isDraw : BOOLEAN]

\* The state of both threads and of the records they share is well typed.
TypeOK ==
    /\ heap \in [Ptr -> PlayerData \cup {Freed}]
    /\ pending \in [List -> Seq(Ptr)]
    /\ idAddressPairs \in [Address -> ID \cup {None}]
    /\ dataLock \in {"free", "net", "main"}
    /\ netPc \in NetPc
    /\ hand \in Ptr \cup {None}
    /\ filing \in List
    /\ sender \in Address \cup {None}
    /\ slot \in Nat
    /\ mainPc \in MainPc
    /\ i \in Nat /\ j \in Nat
    /\ currentPlayer \in Ptr \cup {None}
    /\ thisPlayer \in Ptr \cup {None}
    /\ sweeping \in List
    /\ kept \in Seq(Ptr)
    /\ out \in Broadcast \cup {Silence}

\* The slots of a vector that are owed a record: not the one whose old record
\* is deleted and not yet replaced, nor those whose record a clearing loop has
\* deleted.  (Such an address may already have been allocated again.)
BeingReplaced(l, n) == netPc = "store" /\ l = filing /\ n = slot
Dropped(l, n) == /\ mainPc = "sweep" /\ l = sweeping /\ n < i
                 /\ \A k \in 1 .. Len(kept) : kept[k] # pending[l][n]
Live(l, n) == ~BeingReplaced(l, n) /\ ~Dropped(l, n)

\* No address is listed twice, in one vector or in both, so that no record is
\* ever deleted twice.
NoAliasing ==
    \A l1, l2 \in List : \A m \in Index(l1), n \in Index(l2) :
        pending[l1][m] = pending[l2][n] => l1 = l2 /\ m = n

\* Every slot that is owed a record points at an allocated one.
ListedAreAllocated ==
    \A l \in List : \A n \in Index(l) : Live(l, n) => Allocated(pending[l][n])

\* Every record is in such a slot or in the hand of the network thread.
NothingLeaks ==
    \A p \in Ptr : Allocated(p) =>
        \/ p = hand
        \/ \E l \in List : \E n \in Index(l) : Live(l, n) /\ pending[l][n] = p

\* The two threads' unlocked scans and locked updates together neither lose a
\* record, nor list one that is gone, nor list one twice
\* (DemoPeerManager.cpp:113-147 against ServerState.cpp:36-86).
RecordsAccountedFor == NoAliasing /\ ListedAreAllocated /\ NothingLeaks

\* A player has at most one record in each vector: what addPlayerData and
\* addCombatData search for, kept by the clearing loops.
OneRecordPerPlayer ==
    \A l \in List : \A m, n \in Index(l) :
        m # n /\ Live(l, m) /\ Live(l, n)
        => heap[pending[l][m]].id # heap[pending[l][n]].id

\* What the threads' places in their code say of the mutex, ...
Locking == /\ netPc \in {"add", "store", "filed"} <=> dataLock = "net"
           /\ mainPc = "sweep" <=> dataLock = "main"

\* ... of the record being filed, ...
Filing ==
    /\ netPc = "idle" => hand = None
    /\ netPc # "idle" => /\ hand \in Ptr
                         /\ Allocated(hand)
                         /\ sender \in Address
    /\ netPc \in {"lock", "add", "store"} =>
          \A l \in List : \A n \in Index(l) : Live(l, n) => pending[l][n] # hand
    /\ netPc = "store" =>
          /\ slot \in Index(filing)
          /\ ~Allocated(pending[filing][slot])
          /\ \A n \in Index(filing) : n # slot
                => heap[pending[filing][n]].id # heap[hand].id
    /\ netPc = "filed" => \E n \in Index(filing) : pending[filing][n] = hand

\* ... of the indices and pointers of the scans, used without the lock and
\* without another bounds check, ...
Scanning ==
    /\ mainPc \in {"fetchCurrent", "fetchAttacker"} => i >= 1
    /\ mainPc \in {"testCurrent", "fetchOther", "compare", "collide", "engage",
                   "resolve"} => i >= 1 /\ currentPlayer \in Ptr
    /\ mainPc = "fetchOther" => j >= 1
    /\ mainPc \in {"compare", "collide", "engage", "resolve"} => thisPlayer \in Ptr
    /\ mainPc \in {"findOpponent", "fight", "resolveFirst", "resolveSecond"}
          => i \in Index("attackers") /\ i < j
    /\ mainPc \in {"fight", "resolveFirst", "resolveSecond"}
          => j \in Index("attackers")

\* ... and of the queue of a clearing loop.
Clearing ==
    /\ mainPc # "sweep" => kept = <<>>
    /\ mainPc = "sweep" =>
          /\ i >= 1
          /\ \A k \in 1 .. Len(kept) :
                \E n \in Index(sweeping) : n < i /\ kept[k] = pending[sweeping][n]
          /\ \A k, m \in 1 .. Len(kept) : kept[k] = kept[m] => k = m

\* The inductive invariant: that the threads are where their locals say, and
\* that the records are accounted for.
IInv == /\ TypeOK
        /\ Locking /\ Filing /\ Scanning /\ Clearing
        /\ RecordsAccountedFor
        /\ OneRecordPerPlayer

\* An unresolved record is only ever deleted because the same player has sent a
\* newer one: the clearing loops of updateState delete no record that has not
\* been resolved, whatever happened to it since the scan.
UnresolvedIsKept ==
    [][\A p \in Ptr : Allocated(p) /\ heap[p].unresolved /\ heap'[p] = Freed
          => netPc = "add" /\ heap[hand].id = heap[p].id]_vars

\* The step that reports a round, on two attacks that no race has deleted under
\* the scan.
ReportsRound == /\ mainPc = "fight" /\ mainPc' = "resolveFirst"
                /\ Allocated(Attackers[i]) /\ Allocated(Attackers[j])

\* The report on attacks a and b is right if attack x beats y when beats(x, y).
RightReport(a, b, beats(_, _)) ==
    /\ {out'.winner, out'.loser} = {a.id, b.id}
    /\ out'.isDraw <=> a.currentAttack = b.currentAttack
    /\ ~out'.isDraw => IF out'.winner = a.id
                       THEN beats(a.currentAttack, b.currentAttack)
                       ELSE beats(b.currentAttack, a.currentAttack)

\* A round names the two players whose attacks were read; the winner's attack
\* beats the loser's, and the round is a draw if and only if they are the same.
RoundsFollowTheRules ==
    [][ReportsRound => RightReport(heap[Attackers[i]], heap[Attackers[j]], Beats)]_vars

\* Two listed attacks that name each other do not wait for ever: the scan
\* reaches them in the next tick, in whichever order they are listed.
WaitingFor(p, q) == /\ Allocated(p) /\ Allocated(q)
                    /\ heap[p].unresolved /\ heap[q].unresolved
                    /\ heap[p].opponentID = heap[q].id
                    /\ heap[q].opponentID = heap[p].id
                    /\ \E m, n \in Index("attackers") :
                          Attackers[m] = p /\ Attackers[n] = q

MutualAttacksAreFought ==
    \A p, q \in Ptr : p # q => (WaitingFor(p, q) ~> ~WaitingFor(p, q))
=============================================================================
