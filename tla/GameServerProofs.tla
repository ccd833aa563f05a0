-------------------------- MODULE GameServerProofs --------------------------
(***************************************************************************)
(* Proofs about GameServer, for any players, clients, packets and size of  *)
(* the heap.                                                               *)
(***************************************************************************)
EXTENDS GameServer, TLAPS

Records == [Ptr -> PlayerData \cup {Freed}]

\* Heap g has a record where heap h has one, of the same player: what the main
\* thread's unlocked writes leave alone.
SameShape(h, g) ==
    \A q \in Ptr : /\ g[q] = Freed <=> h[q] = Freed
                   /\ h[q] # Freed => g[q].id = h[q].id

\* The part of the invariant that the lists and the heap make up.
Structure == Filing /\ RecordsAccountedFor /\ OneRecordPerPlayer

-----------------------------------------------------------------------------
(* Lemmas on records.                                                      *)

\* createPlayerFromPacket makes a record of a player or attack packet.
LEMMA RecordOfPacket ==
    ASSUME NEW pkt \in Packet, pkt.kind \in {"update", "combat"}
    PROVE  RecordOf(pkt) \in PlayerData /\ pkt.address \in Address /\ pkt.id \in ID
<1>1. PICK k \in {"update", "combat", "disconnection", "other"} :
            pkt \in PacketOf(k)
  BY PacketAssumption
<1>2. CASE k \in {"update", "combat"}
  BY <1>1, <1>2 DEF PacketOf, RecordOf, PlayerData
<1>3. CASE k \in {"disconnection", "other"}
  BY <1>1, <1>3 DEF PacketOf
<1> QED  BY <1>1, <1>2, <1>3

LEMMA PacketAddress ==
    ASSUME NEW pkt \in Packet
    PROVE  pkt.address \in Address
<1>1. PICK k \in {"update", "combat", "disconnection", "other"} :
            pkt \in PacketOf(k)
  BY PacketAssumption
<1> QED  BY <1>1 DEF PacketOf

\* What a scan reads through any pointer is a record.
LEMMA PeekIsRecord ==
    ASSUME heap \in Records, NEW p \in Ptr, NEW r \in Peek(p)
    PROVE  r \in PlayerData
BY DEF Peek, Allocated, Records

\* A read through a pointer to a record yields that record.
LEMMA PeekAllocated ==
    ASSUME NEW p \in Ptr, Allocated(p), NEW r \in Peek(p)
    PROVE  r = heap[p]
BY DEF Peek

\* The two unlocked writes change no record's player and delete none.
LEMMA MarksKeepShape ==
    ASSUME NEW h \in Records, NEW p \in Ptr
    PROVE  /\ MarkedResolved(h, p) \in Records
           /\ SameShape(h, MarkedResolved(h, p))
           /\ MarkedInCombat(h, p) \in Records
           /\ SameShape(h, MarkedInCombat(h, p))
<1>1. CASE h[p] = Freed
  BY <1>1 DEF MarkedResolved, MarkedInCombat, SameShape
<1>2. CASE h[p] # Freed
  <2>1. h[p] \in PlayerData
    BY <1>2 DEF Records
  <2>2. /\ [h[p] EXCEPT !.unresolved = FALSE] \in PlayerData
        /\ [h[p] EXCEPT !.unresolved = FALSE].id = h[p].id
    BY <2>1 DEF PlayerData
  <2>3. /\ [h[p] EXCEPT !.inCombat = TRUE] \in PlayerData
        /\ [h[p] EXCEPT !.inCombat = TRUE].id = h[p].id
    BY <2>1 DEF PlayerData
  <2>4. /\ MarkedResolved(h, p) = [h EXCEPT ![p] = [h[p] EXCEPT !.unresolved = FALSE]]
        /\ MarkedInCombat(h, p) = [h EXCEPT ![p] = [h[p] EXCEPT !.inCombat = TRUE]]
    BY <1>2 DEF MarkedResolved, MarkedInCombat
  <2> HIDE DEF PlayerData
  <2>5. [h EXCEPT ![p] = [h[p] EXCEPT !.unresolved = FALSE]] \in Records
    BY <2>2 DEF Records
  <2>6. [h EXCEPT ![p] = [h[p] EXCEPT !.inCombat = TRUE]] \in Records
    BY <2>3 DEF Records
  <2>7. SameShape(h, [h EXCEPT ![p] = [h[p] EXCEPT !.unresolved = FALSE]])
    BY <1>2, <2>2, DistinctAssumption DEF SameShape, Records
  <2>8. SameShape(h, [h EXCEPT ![p] = [h[p] EXCEPT !.inCombat = TRUE]])
    BY <1>2, <2>3, DistinctAssumption DEF SameShape, Records
  <2> QED  BY <2>4, <2>5, <2>6, <2>7, <2>8
<1> QED  BY <1>1, <1>2

-----------------------------------------------------------------------------
(* A step of the scans keeps the structure of the lists: it moves no slot, *)
(* deletes nothing, and holds no lock.                                     *)
LEMMA ScansKeepStructure ==
    ASSUME TypeOK, Structure, SameShape(heap, heap'),
           UNCHANGED <<pending, netVars>>,
           mainPc # "sweep", mainPc' # "sweep"
    PROVE  Structure'
<1> USE DEF netVars
<1>1. \A l \in List : \A n \in Index(l) :
          /\ pending[l][n] \in Ptr
          /\ Live(l, n)' <=> Live(l, n)
  BY DEF TypeOK, Index, Live, BeingReplaced, Dropped
<1>2. \A l : Index(l)' = Index(l)
  BY DEF Index
<1>3. Filing'
  <2>1. netPc # "idle" => hand \in Ptr /\ Allocated(hand) /\ Allocated(hand)'
    BY DEF Structure, Filing, SameShape, Allocated
  <2>2. ASSUME netPc = "store", NEW n \in Index(filing), n # slot
        PROVE  heap'[pending[filing][n]].id # heap'[hand].id
    <3>1. Live(filing, n) /\ Allocated(pending[filing][n])
      BY <2>2 DEF TypeOK, Structure, RecordsAccountedFor, ListedAreAllocated, Live,
                  BeingReplaced, Dropped
    <3>2. pending[filing][n] \in Ptr
      BY <1>1 DEF TypeOK
    <3> QED  BY <2>1, <2>2, <3>1, <3>2 DEF Structure, Filing, SameShape, Allocated
  <2>3. netPc = "store" => /\ slot \in Index(filing)
                           /\ heap'[pending[filing][slot]] = Freed
    BY <1>1 DEF TypeOK, Structure, Filing, SameShape, Allocated
  <2> QED  BY <1>1, <1>2, <2>1, <2>2, <2>3 DEF Structure, Filing, Allocated
<1>4. RecordsAccountedFor'
  <2>1. NoAliasing'
    BY <1>2 DEF Structure, RecordsAccountedFor, NoAliasing
  <2>2. ListedAreAllocated'
    BY <1>1, <1>2
    DEF Structure, RecordsAccountedFor, ListedAreAllocated, SameShape, Allocated
  <2>3. NothingLeaks'
    BY <1>1, <1>2
    DEF Structure, RecordsAccountedFor, NothingLeaks, SameShape, Allocated
  <2> QED  BY <2>1, <2>2, <2>3 DEF RecordsAccountedFor
<1>5. OneRecordPerPlayer'
  BY <1>1, <1>2
  DEF Structure, RecordsAccountedFor, ListedAreAllocated, OneRecordPerPlayer,
      SameShape, Allocated
<1> QED  BY <1>3, <1>4, <1>5 DEF Structure

-----------------------------------------------------------------------------
(* The scans: one step per action.                                         *)

\* The part of the invariant about the threads' own state.
Control == TypeOK /\ Locking /\ Scanning /\ Clearing

LEMMA IInvParts == IInv <=> Control /\ Structure
BY DEF IInv, Control, Structure

LEMMA ListElements ==
    ASSUME TypeOK, NEW l \in List, NEW n \in Index(l)
    PROVE  pending[l][n] \in Ptr
BY DEF TypeOK, Index

\* A step that leaves the heap, the lists, the lock and the network thread
\* alone and moves the main thread from one place of the scans to another.
LEMMA ControlOfScan ==
    ASSUME Control, heap' \in Records, SameShape(heap, heap'),
           UNCHANGED <<sharedByNet, netVars, sweeping, kept>>,
           mainPc # "sweep", mainPc' \in MainPc \ {"sweep"},
           i' \in Nat, j' \in Nat,
           currentPlayer' \in Ptr \cup {None}, thisPlayer' \in Ptr \cup {None},
           out' \in Broadcast \cup {Silence}, Scanning',
           Structure
    PROVE  IInv'
<1>1. TypeOK'
  BY DEF Control, TypeOK, Records, sharedByNet, netVars
<1>2. Locking' /\ Clearing'
  BY DEF Control, Locking, Clearing, sharedByNet, netVars
<1>3. Structure'
  BY ScansKeepStructure DEF Control, sharedByNet
<1> QED  BY <1>1, <1>2, <1>3 DEF IInv, Structure

LEMMA SameShapeReflexive == SameShape(heap, heap)
BY DEF SameShape

LEMMA CollisionScanSteps ==
    ASSUME IInv, BeginTick \/ checkWorldCollisions
    PROVE  IInv'
<1> USE DEF Players
<1>0. /\ Control /\ Structure /\ TypeOK /\ Scanning /\ heap \in Records
      /\ SameShape(heap, heap) /\ "players" \in List
  BY IInvParts, SameShapeReflexive DEF Control, TypeOK, Records, List
<1>1. CASE BeginTick
  <2>1. Scanning'
    BY <1>1 DEF BeginTick, Scanning
  <2> QED  BY <1>0, <1>1, <2>1, ControlOfScan DEF BeginTick, TypeOK, MainPc
<1>2. CASE FetchCurrent
  <2>1. i <= Len(Players) => Players[i] \in Ptr
    BY <1>0, <1>2, ListElements DEF FetchCurrent, Scanning, TypeOK, Index
  <2>2. Scanning'
    BY <1>0, <1>2, <2>1 DEF FetchCurrent, Scanning
  <2> QED  BY <1>0, <1>2, <2>1, <2>2, ControlOfScan DEF FetchCurrent, TypeOK, MainPc
<1>3. CASE TestCurrent
  <2>1. Scanning'
    BY <1>0, <1>3 DEF TestCurrent, Scanning, TypeOK
  <2> QED  BY <1>0, <1>3, <2>1, ControlOfScan DEF TestCurrent, TypeOK, MainPc
<1>4. CASE FetchOther
  <2>1. j <= Len(Players) => Players[j] \in Ptr
    BY <1>0, <1>4, ListElements DEF FetchOther, Scanning, TypeOK, Index
  <2>2. Scanning'
    BY <1>0, <1>4, <2>1 DEF FetchOther, Scanning, TypeOK
  <2> QED  BY <1>0, <1>4, <2>1, <2>2, ControlOfScan DEF FetchOther, TypeOK, MainPc
<1>5. CASE Compare
  <2>1. Scanning'
    BY <1>0, <1>5 DEF Compare, Scanning, TypeOK
  <2> QED  BY <1>0, <1>5, <2>1, ControlOfScan DEF Compare, TypeOK, MainPc
<1>6. CASE ResolveOther
  <2>1. Scanning'
    BY <1>0, <1>6 DEF ResolveOther, Scanning, TypeOK
  <2>2. heap' \in Records /\ SameShape(heap, heap')
    BY <1>0, <1>6, MarksKeepShape DEF ResolveOther, Scanning
  <2> QED  BY <1>0, <1>6, <2>1, <2>2, ControlOfScan DEF ResolveOther, TypeOK, MainPc
<1>7. CASE SendCollision
  <2>1. Scanning'
    BY <1>0, <1>7 DEF SendCollision, Scanning
  <2>2. PICK c \in Peek(currentPlayer), t \in Peek(thisPlayer) :
            out' = [kind |-> "collision", first |-> c.id, second |-> t.id]
    BY <1>7 DEF SendCollision
  <2>3. c.id \in ID /\ t.id \in ID
    BY <1>0, <1>7, <2>2, PeekIsRecord DEF SendCollision, Scanning, PlayerData
  <2>4. out' \in Broadcast
    BY <2>2, <2>3 DEF Broadcast
  <2> QED  BY <1>0, <1>7, <2>1, <2>4, ControlOfScan DEF SendCollision, TypeOK, MainPc
<1>8. CASE Engage
  <2>1. Scanning'
    BY <1>0, <1>8 DEF Engage, Scanning, TypeOK
  <2> DEFINE g == MarkedInCombat(heap, currentPlayer)
  <2>2. g \in Records /\ SameShape(heap, g)
    BY <1>0, <1>8, MarksKeepShape DEF Engage, Scanning
  <2> HIDE DEF g
  <2>3. heap' \in Records /\ SameShape(g, heap')
    BY <1>0, <1>8, <2>2, MarksKeepShape DEF Engage, Scanning, g
  <2>4. SameShape(heap, heap')
    BY <2>2, <2>3 DEF SameShape
  <2> QED  BY <1>0, <1>8, <2>1, <2>3, <2>4, ControlOfScan DEF Engage, TypeOK, MainPc
<1> QED  BY <1>1, <1>2, <1>3, <1>4, <1>5, <1>6, <1>7, <1>8 DEF checkWorldCollisions

LEMMA BattleScanSteps ==
    ASSUME IInv, checkForPlayerBattles
    PROVE  IInv'
<1> USE DEF Attackers
<1>0. /\ Control /\ Structure /\ TypeOK /\ Scanning /\ heap \in Records
      /\ SameShape(heap, heap) /\ "attackers" \in List
  BY IInvParts, SameShapeReflexive DEF Control, TypeOK, Records, List
<1>1. CASE FetchAttacker
  <2>1. Scanning'
    BY <1>0, <1>1 DEF FetchAttacker, Scanning, TypeOK, Index, sharedByNet
  <2> QED  BY <1>0, <1>1, <2>1, ControlOfScan DEF FetchAttacker, TypeOK, MainPc
<1>2. CASE FindOpponent
  <2>1. Scanning'
    BY <1>0, <1>2 DEF FindOpponent, Scanning, TypeOK, Index, sharedByNet
  <2> QED  BY <1>0, <1>2, <2>1, ControlOfScan DEF FindOpponent, TypeOK, MainPc
<1>3. CASE handlePlayerBattle
  <2>1. Scanning'
    BY <1>0, <1>3 DEF handlePlayerBattle, Scanning, Index, sharedByNet
  <2>2. Attackers[i] \in Ptr /\ Attackers[j] \in Ptr
    BY <1>0, <1>3, ListElements DEF handlePlayerBattle, Scanning
  <2>3. PICK a \in Peek(Attackers[i]), b \in Peek(Attackers[j]) :
            out' = RoundWinner(a, b)
    BY <1>3 DEF handlePlayerBattle
  <2>4. a.id \in ID /\ b.id \in ID
    BY <1>0, <2>2, <2>3, PeekIsRecord DEF PlayerData
  <2>5. out' \in Broadcast
    BY <2>3, <2>4 DEF Broadcast, RoundWinner
  <2> QED  BY <1>0, <1>3, <2>1, <2>5, ControlOfScan DEF handlePlayerBattle, TypeOK, MainPc
<1>4. CASE ResolveFirst
  <2>1. Scanning'
    BY <1>0, <1>4 DEF ResolveFirst, Scanning, Index, sharedByNet
  <2>2. heap' \in Records /\ SameShape(heap, heap')
    BY <1>0, <1>4, ListElements, MarksKeepShape DEF ResolveFirst, Scanning
  <2> QED  BY <1>0, <1>4, <2>1, <2>2, ControlOfScan DEF ResolveFirst, TypeOK, MainPc
<1>5. CASE ResolveSecond
  <2>1. Scanning'
    BY <1>0, <1>5 DEF ResolveSecond, Scanning, TypeOK
  <2>2. heap' \in Records /\ SameShape(heap, heap')
    BY <1>0, <1>5, ListElements, MarksKeepShape DEF ResolveSecond, Scanning
  <2> QED  BY <1>0, <1>5, <2>1, <2>2, ControlOfScan DEF ResolveSecond, TypeOK, MainPc
<1> QED  BY <1>1, <1>2, <1>3, <1>4, <1>5 DEF checkForPlayerBattles

-----------------------------------------------------------------------------
(* The network thread.                                                     *)

LEMMA ReceiveSteps ==
    ASSUME IInv, Receive
    PROVE  IInv'
<1>0. /\ Control /\ Structure /\ TypeOK
  BY IInvParts DEF Control
<1> PICK pkt \in Packet : \/ ReceiveUpdate(pkt) \/ ReceiveCombat(pkt)
                          \/ onPlayerDisconnect(pkt) \/ IgnorePacket(pkt)
  BY DEF Receive
<1>a. pkt.address \in Address
  BY PacketAddress
<1>1. ASSUME NEW l \in List, netPc = "idle", pkt.kind \in {"update", "combat"},
             CreateRecord(pkt, l), out' = Silence,
             idAddressPairs' \in [Address -> ID \cup {None}],
             UNCHANGED <<pending, dataLock, slot, mainVars>>
      PROVE  IInv'
  <2>1. PICK p \in Free : /\ heap' = [heap EXCEPT ![p] = RecordOf(pkt)]
                          /\ hand' = p
    BY <1>1 DEF CreateRecord
  <2>2. p \in Ptr /\ heap[p] = Freed
    BY <2>1 DEF Free, Allocated
  <2>3. RecordOf(pkt) \in PlayerData /\ RecordOf(pkt) # Freed
    BY <1>1, RecordOfPacket, DistinctAssumption
  <2>4. /\ heap' \in Records /\ heap'[p] # Freed
        /\ \A q \in Ptr \ {p} : heap'[q] = heap[q]
    BY <1>0, <2>1, <2>2, <2>3 DEF TypeOK, Records
  <2>5. filing' = l /\ sender' \in Address /\ netPc' = "lock"
    BY <1>1, <1>a DEF CreateRecord
  <2>6. TypeOK'
    BY <1>0, <1>1, <2>1, <2>2, <2>4, <2>5 DEF TypeOK, Records, mainVars, NetPc
  <2>7. Locking' /\ Scanning' /\ Clearing'
    BY <1>0, <1>1, <2>5
    DEF Control, Locking, Scanning, Clearing, Index, mainVars
  <2>8. \A k : Index(k)' = Index(k)
    BY <1>1 DEF Index
  <2>9. \A k \in List : \A n \in Index(k) : Live(k, n)' <=> Live(k, n)
    BY <1>1, <2>5 DEF Live, BeingReplaced, Dropped, mainVars
  <2>10. \A k \in List : \A n \in Index(k) :
            Live(k, n) => /\ pending[k][n] \in Ptr \ {p}
                          /\ heap[pending[k][n]] # Freed
    BY <1>0, <2>2, ListElements
    DEF Structure, RecordsAccountedFor, ListedAreAllocated, Allocated
  <2>11. Filing'
    BY <1>1, <2>1, <2>2, <2>4, <2>5, <2>8, <2>9, <2>10 DEF Filing, Allocated
  <2>12. NoAliasing'
    BY <1>0, <1>1, <2>8 DEF Structure, RecordsAccountedFor, NoAliasing
  <2>13. ListedAreAllocated'
    BY <1>1, <2>4, <2>8, <2>9, <2>10 DEF ListedAreAllocated, Allocated
  <2>14. hand = None
    BY <1>0, <1>1 DEF Structure, Filing
  <2>15. NothingLeaks'
    <3> SUFFICES ASSUME NEW q \in Ptr, Allocated(q)', q # p
                 PROVE  \E k \in List : \E n \in Index(k) :
                            Live(k, n) /\ pending[k][n] = q
      BY <1>1, <2>1, <2>8, <2>9 DEF NothingLeaks
    <3>1. Allocated(q) /\ q # hand
      BY <2>4, <2>14, DistinctAssumption DEF Allocated
    <3> QED  BY <1>0, <3>1 DEF Structure, RecordsAccountedFor, NothingLeaks
  <2>16. OneRecordPerPlayer'
    BY <1>0, <1>1, <2>4, <2>8, <2>9, <2>10 DEF Structure, OneRecordPerPlayer
  <2> QED  BY <2>6, <2>7, <2>11, <2>12, <2>13, <2>15, <2>16
      DEF IInv, RecordsAccountedFor
<1>2. ASSUME netPc = "idle", out' = Silence,
             idAddressPairs' \in [Address -> ID \cup {None}],
             UNCHANGED <<heap, pending, dataLock, netVars, mainVars>>
      PROVE  IInv'
  BY <1>0, <1>2
  DEF IInv, Control, Structure, TypeOK, Locking, Filing, Scanning, Clearing,
      RecordsAccountedFor, NoAliasing, ListedAreAllocated, NothingLeaks,
      OneRecordPerPlayer, Live, BeingReplaced, Dropped, Allocated, Index,
      netVars, mainVars
<1>3. CASE ReceiveUpdate(pkt)
  <2>1. pkt.kind \in {"update", "combat"} /\ pkt.id \in ID
    BY <1>3, RecordOfPacket DEF ReceiveUpdate
  <2> QED  BY <1>0, <1>1, <1>2, <1>3, <1>a, <2>1 DEF ReceiveUpdate, TypeOK, List, netVars
<1>4. CASE ReceiveCombat(pkt)
  BY <1>0, <1>1, <1>4 DEF ReceiveCombat, TypeOK, List
<1>5. CASE onPlayerDisconnect(pkt)
  BY <1>0, <1>2, <1>5 DEF onPlayerDisconnect, TypeOK
<1>6. CASE IgnorePacket(pkt)
  BY <1>0, <1>2, <1>6 DEF IgnorePacket, TypeOK
<1> QED  BY <1>3, <1>4, <1>5, <1>6

\* While the network thread holds the lock no clearing loop is running, so the
\* only slot without a record is the one being replaced.
LEMMA NetHoldsLock ==
    ASSUME IInv, netPc \in {"add", "store", "filed"}
    PROVE  /\ dataLock = "net" /\ mainPc # "sweep"
           /\ \A l \in List : \A n \in Index(l) :
                 Live(l, n) <=> ~BeingReplaced(l, n)
BY DEF IInv, Locking, Live, Dropped

LEMMA NetLockStep ==
    ASSUME IInv, NetLock
    PROVE  IInv'
<1>1. TypeOK' /\ Locking' /\ Scanning' /\ Clearing'
  BY DEF IInv, NetLock, TypeOK, NetPc, Locking, Scanning, Clearing, Index, mainVars
<1>2. \A l : Index(l)' = Index(l)
  BY DEF NetLock, Index
<1>3. \A l \in List : \A n \in Index(l) : Live(l, n)' <=> Live(l, n)
  BY DEF NetLock, Live, BeingReplaced, Dropped, mainVars
<1>4. Filing'
  BY <1>2, <1>3 DEF IInv, NetLock, Filing, Allocated
<1>5. RecordsAccountedFor' /\ OneRecordPerPlayer'
  BY <1>2, <1>3
  DEF IInv, NetLock, RecordsAccountedFor, NoAliasing, ListedAreAllocated,
      NothingLeaks, OneRecordPerPlayer, Allocated
<1> QED  BY <1>1, <1>4, <1>5 DEF IInv

LEMMA DeleteOldStep ==
    ASSUME IInv, DeleteOld
    PROVE  IInv'
<1>0. TypeOK /\ filing \in List /\ hand \in Ptr /\ Allocated(hand)
  BY DEF IInv, TypeOK, DeleteOld, Filing
<1>1. PICK n \in Index(filing) :
          /\ SamePlayer(n)
          /\ slot' = n
          /\ heap' = [heap EXCEPT ![pending[filing][n]] = Freed]
  BY DEF DeleteOld, Index
<1> DEFINE old == pending[filing][n]
<1>2. old \in Ptr /\ Allocated(old) /\ heap[old].id = heap[hand].id
  BY <1>0, <1>1, ListElements DEF SamePlayer
<1>3. /\ heap' \in Records /\ heap'[old] = Freed
      /\ \A q \in Ptr \ {old} : heap'[q] = heap[q]
  BY <1>0, <1>1, <1>2 DEF TypeOK, Records
<1>4. dataLock = "net" /\ mainPc # "sweep"
      /\ \A l \in List : \A m \in Index(l) : Live(l, m)
  BY NetHoldsLock DEF DeleteOld, BeingReplaced
<1>5. \A l \in List : \A m \in Index(l) :
          Live(l, m)' <=> ~(l = filing /\ m = n)
  BY <1>1, <1>4 DEF DeleteOld, Live, BeingReplaced, Dropped, mainVars
<1>6. \A l \in List : \A m \in Index(l) :
          /\ pending[l][m] \in Ptr
          /\ Allocated(pending[l][m])
          /\ pending[l][m] # hand
          /\ ~(l = filing /\ m = n) => pending[l][m] # old
          /\ old # hand
  BY <1>0, <1>1, <1>4, ListElements
  DEF IInv, DeleteOld, Filing, RecordsAccountedFor, NoAliasing, ListedAreAllocated
<1>7. \A l : Index(l)' = Index(l)
  BY DEF DeleteOld, Index
<1>8. TypeOK'
  BY <1>0, <1>1, <1>3 DEF DeleteOld, TypeOK, Records, NetPc, mainVars, Index
<1>9. Locking' /\ Scanning' /\ Clearing'
  BY <1>4 DEF IInv, DeleteOld, Locking, Scanning, Clearing, Index, mainVars
<1>10. \A m \in Index(filing) : m # n => heap[pending[filing][m]].id # heap[hand].id
  BY <1>0, <1>1, <1>2, <1>4 DEF IInv, OneRecordPerPlayer
<1> HIDE DEF old
<1>11. Filing'
  <2>1. old # hand
    BY <1>0, <1>1, <1>6
  <2>2. heap'[hand] = heap[hand] /\ Allocated(hand)' /\ hand' = hand
    BY <1>0, <1>3, <2>1 DEF DeleteOld, Allocated
  <2>3. \A m \in Index(filing) : m # n
            => heap'[pending[filing][m]].id # heap'[hand].id
    <3> SUFFICES ASSUME NEW m \in Index(filing), m # n
                 PROVE  heap'[pending[filing][m]] = heap[pending[filing][m]]
      BY <1>10, <2>2
    <3> QED  BY <1>0, <1>3, <1>6
  <2>4. /\ netPc' = "store" /\ slot' = n
        /\ sender' \in Address
        /\ UNCHANGED <<pending, filing>>
    BY <1>1 DEF IInv, DeleteOld, Filing
  <2>5. ~Allocated(pending[filing][slot])'
    BY <1>3, <2>4 DEF old, Allocated
  <2> QED  BY <1>0, <1>1, <1>6, <1>7, <2>2, <2>3, <2>4, <2>5 DEF Filing
<1>12. NoAliasing'
  BY <1>7 DEF IInv, DeleteOld, RecordsAccountedFor, NoAliasing
<1>13. ListedAreAllocated'
  BY <1>3, <1>5, <1>6, <1>7 DEF DeleteOld, ListedAreAllocated, Allocated
<1>14. NothingLeaks'
  <2> SUFFICES ASSUME NEW q \in Ptr, Allocated(q)', q # hand
               PROVE  \E l \in List : \E m \in Index(l) :
                          Live(l, m)' /\ pending[l][m] = q
    BY <1>7 DEF DeleteOld, NothingLeaks
  <2>1. q # old /\ Allocated(q)
    BY <1>3 DEF Allocated
  <2>2. PICK l \in List : \E m \in Index(l) : pending[l][m] = q
    BY <2>1 DEF IInv, RecordsAccountedFor, NothingLeaks
  <2> QED  BY <1>5, <2>1, <2>2 DEF old
<1>15. OneRecordPerPlayer'
  BY <1>3, <1>4, <1>5, <1>6, <1>7 DEF IInv, DeleteOld, OneRecordPerPlayer
<1> QED  BY <1>8, <1>9, <1>11, <1>12, <1>13, <1>14, <1>15
    DEF IInv, RecordsAccountedFor

LEMMA StoreNewStep ==
    ASSUME IInv, StoreNew
    PROVE  IInv'
<1>0. /\ TypeOK /\ filing \in List /\ hand \in Ptr /\ Allocated(hand)
      /\ slot \in Index(filing)
  BY DEF IInv, TypeOK, StoreNew, Filing
<1>1. dataLock = "net" /\ mainPc # "sweep"
      /\ \A l \in List : \A m \in Index(l) :
            Live(l, m) <=> ~(l = filing /\ m = slot)
  BY NetHoldsLock DEF StoreNew, BeingReplaced
<1>2. /\ \A l \in List : Index(l)' = Index(l)
      /\ \A l \in List : \A m \in Index(l) :
            pending'[l][m] = IF l = filing /\ m = slot THEN hand ELSE pending[l][m]
      /\ pending' \in [List -> Seq(Ptr)]
  BY <1>0 DEF StoreNew, TypeOK, Index
<1>3. \A l \in List : \A m \in Index(l) : Live(l, m)'
  BY <1>1 DEF StoreNew, Live, BeingReplaced, Dropped, mainVars
<1>4. TypeOK'
  BY <1>0, <1>2 DEF StoreNew, TypeOK, NetPc, mainVars
<1>5. Locking' /\ Scanning' /\ Clearing'
  BY <1>1, <1>2 DEF IInv, StoreNew, Locking, Scanning, Clearing, mainVars, List
<1>6. Filing'
  BY <1>0, <1>2 DEF IInv, StoreNew, Filing, Allocated
<1>7. \A l \in List : \A m \in Index(l) :
          ~(l = filing /\ m = slot) => pending[l][m] # hand /\ Allocated(pending[l][m])
  BY <1>1 DEF IInv, StoreNew, Filing, RecordsAccountedFor, ListedAreAllocated
<1>8. NoAliasing'
  BY <1>2, <1>7 DEF IInv, RecordsAccountedFor, NoAliasing
<1>9. ListedAreAllocated'
  BY <1>0, <1>2, <1>7 DEF StoreNew, ListedAreAllocated, Allocated
<1>10. NothingLeaks'
  <2> SUFFICES ASSUME NEW q \in Ptr, Allocated(q), q # hand
               PROVE  \E l \in List : \E m \in Index(l) : pending'[l][m] = q
    BY <1>2, <1>3 DEF StoreNew, NothingLeaks, Allocated
  <2>1. PICK l \in List : \E m \in Index(l) : Live(l, m) /\ pending[l][m] = q
    BY DEF IInv, RecordsAccountedFor, NothingLeaks
  <2> QED  BY <1>1, <1>2, <2>1
<1>11. OneRecordPerPlayer'
  <2> SUFFICES ASSUME NEW l \in List, NEW m \in Index(l), NEW n \in Index(l), m # n
               PROVE  heap[pending'[l][m]].id # heap[pending'[l][n]].id
    BY <1>2 DEF StoreNew, OneRecordPerPlayer
  <2>1. CASE l = filing /\ m = slot
    BY <1>2, <2>1 DEF IInv, StoreNew, Filing
  <2>2. CASE l = filing /\ n = slot
    BY <1>2, <2>2 DEF IInv, StoreNew, Filing
  <2>3. CASE ~(l = filing /\ m = slot) /\ ~(l = filing /\ n = slot)
    BY <1>1, <1>2, <2>3 DEF IInv, OneRecordPerPlayer
  <2> QED  BY <2>1, <2>2, <2>3
<1> QED  BY <1>4, <1>5, <1>6, <1>8, <1>9, <1>10, <1>11 DEF IInv, RecordsAccountedFor

LEMMA PushBackStep ==
    ASSUME IInv, PushBack
    PROVE  IInv'
<1>0. /\ TypeOK /\ filing \in List /\ hand \in Ptr /\ Allocated(hand)
  BY DEF IInv, TypeOK, PushBack, Filing
<1> DEFINE last == Len(pending[filing]) + 1
<1>1. dataLock = "net" /\ mainPc # "sweep"
      /\ \A l \in List : \A m \in Index(l) : Live(l, m)
  BY NetHoldsLock DEF PushBack, BeingReplaced
<1>2. /\ \A l \in List : Index(l)' = IF l = filing THEN Index(l) \cup {last} ELSE Index(l)
      /\ \A l \in List : \A m \in Index(l) : pending'[l][m] = pending[l][m]
      /\ pending'[filing][last] = hand
      /\ last \notin Index(filing)
      /\ pending' \in [List -> Seq(Ptr)]
  <2> DEFINE longer == Append(pending[filing], hand)
  <2>1. pending[filing] \in Seq(Ptr) /\ pending \in [List -> Seq(Ptr)]
    BY <1>0 DEF TypeOK
  <2>2. /\ longer \in Seq(Ptr) /\ Len(longer) = last /\ longer[last] = hand
        /\ \A m \in Index(filing) : longer[m] = pending[filing][m]
    BY <1>0, <2>1 DEF Index
  <2>3. last \notin Index(filing) /\ 1 .. last = Index(filing) \cup {last}
    BY <2>1 DEF Index
  <2> HIDE DEF longer
  <2>4. /\ pending' \in [List -> Seq(Ptr)]
        /\ \A l \in List : pending'[l] = IF l = filing THEN longer ELSE pending[l]
    BY <1>0, <2>1, <2>2 DEF PushBack, longer
  <2> HIDE DEF last
  <2>5. \A l \in List : Index(l)' = IF l = filing THEN Index(l) \cup {last} ELSE Index(l)
    BY <2>2, <2>3, <2>4 DEF Index
  <2> QED  BY <1>0, <2>2, <2>3, <2>4, <2>5
<1> HIDE DEF last
<1>3. \A l, m : Live(l, m)'
  BY <1>1 DEF PushBack, Live, BeingReplaced, Dropped, mainVars
<1>4. TypeOK'
  BY <1>0, <1>2 DEF PushBack, TypeOK, NetPc, mainVars
<1>5. Locking' /\ Clearing'
  BY <1>1 DEF IInv, PushBack, Locking, Clearing, mainVars
<1>6. Scanning'
  <2>1. \A l \in List : Index(l) \subseteq Index(l)'
    BY <1>2
  <2> QED  BY <2>1 DEF IInv, PushBack, Scanning, mainVars, List
<1>7. Filing'
  BY <1>0, <1>2 DEF IInv, PushBack, Filing, Allocated
<1>8. \A l \in List : \A m \in Index(l) :
          /\ pending[l][m] # hand /\ Allocated(pending[l][m])
          /\ l = filing => heap[pending[l][m]].id # heap[hand].id
  BY <1>1 DEF IInv, PushBack, Filing, RecordsAccountedFor, ListedAreAllocated,
              SamePlayer, Index
<1>9. NoAliasing'
  <2> SUFFICES ASSUME NEW l1 \in List, NEW l2 \in List,
                      NEW m \in Index(l1)', NEW n \in Index(l2)',
                      pending'[l1][m] = pending'[l2][n]
               PROVE  l1 = l2 /\ m = n
    BY DEF NoAliasing
  <2>1. CASE m \in Index(l1) /\ n \in Index(l2)
    BY <1>2, <2>1 DEF IInv, RecordsAccountedFor, NoAliasing
  <2>2. CASE m \notin Index(l1) \/ n \notin Index(l2)
    BY <1>2, <1>8, <2>2
  <2> QED  BY <2>1, <2>2
<1>10. ListedAreAllocated'
  <2> SUFFICES ASSUME NEW l \in List, NEW m \in Index(l)'
               PROVE  Allocated(pending'[l][m])
    BY DEF PushBack, ListedAreAllocated, Allocated
  <2> QED  BY <1>0, <1>2, <1>8
<1>11. NothingLeaks'
  <2> SUFFICES ASSUME NEW q \in Ptr, Allocated(q), q # hand
               PROVE  \E l \in List : \E m \in Index(l)' : pending'[l][m] = q
    BY <1>3 DEF PushBack, NothingLeaks, Allocated
  <2>1. PICK l \in List : \E m \in Index(l) : pending[l][m] = q
    BY DEF IInv, RecordsAccountedFor, NothingLeaks
  <2> PICK m \in Index(l) : pending[l][m] = q
    BY <2>1
  <2>2. m \in Index(l)' /\ pending'[l][m] = q
    BY <1>2, <2>1
  <2> QED  BY <2>2
<1>12. OneRecordPerPlayer'
  <2> SUFFICES ASSUME NEW l \in List, NEW m \in Index(l)', NEW n \in Index(l)', m # n
               PROVE  heap[pending'[l][m]].id # heap[pending'[l][n]].id
    BY DEF PushBack, OneRecordPerPlayer
  <2>1. CASE m \in Index(l) /\ n \in Index(l)
    BY <1>1, <1>2, <2>1 DEF IInv, OneRecordPerPlayer
  <2>2. CASE m \notin Index(l) \/ n \notin Index(l)
    BY <1>2, <1>8, <2>2
  <2> QED  BY <2>1, <2>2
<1> QED  BY <1>4, <1>5, <1>6, <1>7, <1>9, <1>10, <1>11, <1>12
    DEF IInv, RecordsAccountedFor

LEMMA FinishFilingStep ==
    ASSUME IInv, FinishFiling
    PROVE  IInv'
<1>0. /\ TypeOK /\ filing \in List /\ hand \in Ptr /\ Allocated(hand)
      /\ sender \in Address
  BY DEF IInv, TypeOK, FinishFiling, Filing
<1>1. dataLock = "net" /\ mainPc # "sweep"
      /\ \A l \in List : \A m \in Index(l) : Live(l, m)
  BY NetHoldsLock DEF FinishFiling, BeingReplaced
<1>2. \A l : Index(l)' = Index(l)
  BY DEF FinishFiling, Index
<1>3. \A l \in List : \A m \in Index(l) : Live(l, m)'
  BY <1>1 DEF FinishFiling, Live, BeingReplaced, Dropped, mainVars
<1>4. TypeOK'
  <2>1. heap[hand].id \in ID
    BY <1>0 DEF TypeOK, Allocated, PlayerData
  <2>2. out' \in Broadcast \cup {Silence}
    BY <1>0, <2>1 DEF FinishFiling, Broadcast
  <2>3. idAddressPairs' \in [Address -> ID \cup {None}]
    BY <1>0, <2>1 DEF FinishFiling, TypeOK
  <2> QED  BY <1>0, <2>2, <2>3 DEF FinishFiling, TypeOK, NetPc, List, mainVars
<1>5. Locking' /\ Scanning' /\ Clearing' /\ Filing'
  BY <1>1 DEF IInv, FinishFiling, Locking, Scanning, Clearing, Filing, Index, mainVars
<1>6. NoAliasing' /\ ListedAreAllocated' /\ OneRecordPerPlayer'
  BY <1>1, <1>2 DEF IInv, FinishFiling, RecordsAccountedFor, NoAliasing,
                    ListedAreAllocated, OneRecordPerPlayer, Allocated
<1>7. NothingLeaks'
  <2>1. \E n \in Index(filing) : pending[filing][n] = hand
    BY DEF IInv, FinishFiling, Filing
  <2> QED  BY <1>0, <1>2, <1>3, <2>1
      DEF IInv, FinishFiling, RecordsAccountedFor, NothingLeaks, Allocated
<1> QED  BY <1>4, <1>5, <1>6, <1>7 DEF IInv, RecordsAccountedFor

-----------------------------------------------------------------------------
(* The main thread under the lock.                                         *)

\* While the main thread holds the lock, or is about to take it, the network
\* thread has no slot in hand.
LEMMA NetOutsideLock ==
    ASSUME IInv, dataLock # "net"
    PROVE  netPc \in {"idle", "lock"} /\ \A l, n : ~BeingReplaced(l, n)
BY DEF IInv, TypeOK, NetPc, Locking, BeingReplaced

LEMMA MainLockStep ==
    ASSUME IInv, MainLock
    PROVE  IInv'
<1>1. netPc \in {"idle", "lock"} /\ \A l, n : ~BeingReplaced(l, n)
  BY NetOutsideLock DEF MainLock
<1>2. \A l \in List : \A n \in Index(l) : Live(l, n) /\ Live(l, n)'
  BY <1>1 DEF IInv, MainLock, TypeOK, Live, Dropped, BeingReplaced, Index, netVars
<1>3. \A l : Index(l)' = Index(l)
  BY DEF MainLock, Index
<1>4. TypeOK' /\ Locking' /\ Scanning' /\ Clearing'
  BY <1>1 DEF IInv, MainLock, TypeOK, MainPc, List, Locking, Scanning, Clearing,
              Index, netVars
<1>5. Filing'
  BY <1>1, <1>2, <1>3 DEF IInv, MainLock, Filing, Allocated, netVars
<1>6. RecordsAccountedFor' /\ OneRecordPerPlayer'
  BY <1>2, <1>3
  DEF IInv, MainLock, RecordsAccountedFor, NoAliasing, ListedAreAllocated,
      NothingLeaks, OneRecordPerPlayer, Allocated, netVars
<1> QED  BY <1>4, <1>5, <1>6 DEF IInv

\* Where a clearing loop stands: the record at its index is there, it is the
\* one read, and it has not been queued.
LEMMA SweepReads ==
    ASSUME IInv, Sweep, NEW r \in Peek(pending[sweeping][i])
    PROVE  /\ sweeping \in List /\ i \in Index(sweeping)
           /\ dataLock = "main" /\ netPc \in {"idle", "lock"}
           /\ pending[sweeping][i] \in Ptr
           /\ Allocated(pending[sweeping][i])
           /\ r = heap[pending[sweeping][i]]
           /\ pending[sweeping][i] # hand
           /\ \A k \in 1 .. Len(kept) : kept[k] # pending[sweeping][i]
<1>1. TypeOK /\ sweeping \in List /\ i \in Index(sweeping)
  BY DEF IInv, TypeOK, Sweep, Clearing, Index
<1>2. dataLock = "main"
  BY DEF IInv, Sweep, Locking
<1>3. netPc \in {"idle", "lock"} /\ \A l, n : ~BeingReplaced(l, n)
  BY <1>2, NetOutsideLock
<1>4. Live(sweeping, i)
  BY <1>1, <1>3 DEF Live, Dropped, TypeOK
<1>5. pending[sweeping][i] \in Ptr /\ Allocated(pending[sweeping][i])
  BY <1>1, <1>4, ListElements DEF IInv, RecordsAccountedFor, ListedAreAllocated
<1>6. r = heap[pending[sweeping][i]]
  BY <1>5, PeekAllocated
<1>7. pending[sweeping][i] # hand
  BY <1>1, <1>3, <1>4, <1>5, DistinctAssumption DEF IInv, Filing
<1>8. \A k \in 1 .. Len(kept) : kept[k] # pending[sweeping][i]
  BY <1>1 DEF IInv, Sweep, Clearing, RecordsAccountedFor, NoAliasing, TypeOK, Index
<1> QED  BY <1>1, <1>2, <1>3, <1>5, <1>6, <1>7, <1>8

LEMMA SweepStep ==
    ASSUME IInv, Sweep
    PROVE  IInv'
<1> DEFINE p == pending[sweeping][i]
<1>1. PICK r \in Peek(p) :
          \/ r.unresolved /\ kept' = Append(kept, p) /\ heap' = heap
          \/ ~r.unresolved /\ heap' = [heap EXCEPT ![p] = Freed] /\ kept' = kept
  BY DEF Sweep
<1>2. /\ sweeping \in List /\ i \in Index(sweeping) /\ TypeOK
      /\ dataLock = "main" /\ netPc \in {"idle", "lock"}
      /\ p \in Ptr /\ Allocated(p) /\ r = heap[p] /\ p # hand
      /\ \A k \in 1 .. Len(kept) : kept[k] # p
  BY SweepReads DEF IInv
<1>3. \A l : Index(l)' = Index(l)
  BY DEF Sweep, sharedByNet, Index
<1>4. /\ mainPc = "sweep" /\ mainPc' = "sweep" /\ i' = i + 1 /\ i \in Nat
      /\ out' = Silence
      /\ UNCHANGED <<sharedByNet, netVars, j, currentPlayer, thisPlayer, sweeping>>
  BY <1>2 DEF Sweep, TypeOK
<1>5. \A l \in List : \A n \in Index(l) :
          pending[l][n] \in Ptr /\ (pending[l][n] = p <=> l = sweeping /\ n = i)
  BY <1>2, ListElements DEF IInv, RecordsAccountedFor, NoAliasing
<1>a. \A l, n : ~BeingReplaced(l, n) /\ ~BeingReplaced(l, n)'
  BY <1>2, <1>4 DEF BeingReplaced, netVars
<1>6. CASE r.unresolved /\ kept' = Append(kept, p) /\ heap' = heap
  <2>1. kept \in Seq(Ptr)
    BY <1>2 DEF TypeOK
  <2>2. /\ kept' \in Seq(Ptr) /\ Len(kept') = Len(kept) + 1
        /\ kept'[Len(kept) + 1] = p
        /\ \A k \in 1 .. Len(kept) : kept'[k] = kept[k]
    BY <1>2, <1>6, <2>1
  <2>3. \A l \in List : \A n \in Index(l) : Live(l, n)' <=> Live(l, n)
    <3> SUFFICES ASSUME NEW l \in List, NEW n \in Index(l)
                 PROVE  Dropped(l, n)' <=> Dropped(l, n)
      BY <1>a DEF Live
    <3>1. n \in Int
      BY DEF Index
    <3>2. (\A k \in 1 .. Len(kept') : kept'[k] # pending[l][n])
            <=> /\ pending[l][n] # p
                /\ \A k \in 1 .. Len(kept) : kept[k] # pending[l][n]
      BY <2>1, <2>2
    <3> QED  BY <1>2, <1>4, <1>5, <3>1, <3>2 DEF Dropped, sharedByNet
  <2>4. TypeOK'
    BY <1>2, <1>4, <1>6, <2>2 DEF TypeOK, sharedByNet, netVars
  <2>5. Locking' /\ Scanning'
    BY <1>2, <1>3, <1>4 DEF IInv, Locking, Scanning, sharedByNet, netVars
  <2>6. Clearing'
    <3>1. \A k \in 1 .. Len(kept') :
             \E n \in Index(sweeping) : n < i + 1 /\ kept'[k] = pending[sweeping][n]
      <4> SUFFICES ASSUME NEW k \in 1 .. Len(kept')
                   PROVE  \E n \in Index(sweeping) :
                             n < i + 1 /\ kept'[k] = pending[sweeping][n]
        OBVIOUS
      <4>1. CASE k = Len(kept) + 1
        BY <1>2, <1>4, <2>2, <4>1
      <4>2. CASE k \in 1 .. Len(kept)
        <5>1. PICK n \in Index(sweeping) : n < i /\ kept[k] = pending[sweeping][n]
          BY <1>4, <4>2 DEF IInv, Clearing
        <5>2. n < i + 1
          BY <1>4, <5>1 DEF Index
        <5> QED  BY <2>2, <4>2, <5>1, <5>2
      <4> QED  BY <2>1, <2>2, <4>1, <4>2
    <3>2. \A k, m \in 1 .. Len(kept') : kept'[k] = kept'[m] => k = m
      <4>1. \A k, m \in 1 .. Len(kept) : kept[k] = kept[m] => k = m
        BY <1>4 DEF IInv, Clearing
      <4> QED  BY <1>2, <2>1, <2>2, <4>1
    <3> QED  BY <1>3, <1>4, <3>1, <3>2 DEF Clearing, sharedByNet
  <2>7. Filing'
    BY <1>2, <1>3, <1>4, <1>6, <2>3 DEF IInv, Filing, Allocated, sharedByNet, netVars
  <2>8. RecordsAccountedFor'
    BY <1>3, <1>4, <1>6, <2>3
    DEF IInv, RecordsAccountedFor, NoAliasing, ListedAreAllocated, NothingLeaks,
        Allocated, sharedByNet, netVars
  <2>9. OneRecordPerPlayer'
    BY <1>3, <1>4, <1>6, <2>3 DEF IInv, OneRecordPerPlayer, sharedByNet
  <2> QED  BY <2>4, <2>5, <2>6, <2>7, <2>8, <2>9 DEF IInv
<1>7. CASE ~r.unresolved /\ heap' = [heap EXCEPT ![p] = Freed] /\ kept' = kept
  <2>1. /\ heap' \in Records /\ heap'[p] = Freed
        /\ \A q \in Ptr \ {p} : heap'[q] = heap[q]
    BY <1>2, <1>7 DEF TypeOK, Records
  <2>2. \A l \in List : \A n \in Index(l) :
            Live(l, n)' <=> Live(l, n) /\ ~(l = sweeping /\ n = i)
    <3> SUFFICES ASSUME NEW l \in List, NEW n \in Index(l)
                 PROVE  Dropped(l, n)' <=> Dropped(l, n) \/ (l = sweeping /\ n = i)
      BY <1>a DEF Live
    <3>1. n \in Int
      BY DEF Index
    <3> QED  BY <1>2, <1>4, <1>7, <3>1 DEF Dropped, sharedByNet
  <2>3. TypeOK'
    BY <1>2, <1>4, <1>7, <2>1 DEF TypeOK, Records, sharedByNet, netVars
  <2>4. Locking' /\ Scanning'
    BY <1>2, <1>3, <1>4 DEF IInv, Locking, Scanning, sharedByNet, netVars
  <2>5. Clearing'
    <3>1. \A n \in Index(sweeping) : n < i => n < i + 1
      BY <1>4 DEF Index
    <3> QED  BY <1>3, <1>4, <1>7, <3>1 DEF IInv, Clearing, sharedByNet
  <2> HIDE DEF p
  <2>6. Filing'
    BY <1>2, <1>3, <1>4, <2>1, <2>2 DEF IInv, Filing, Allocated, sharedByNet, netVars
  <2>7. NoAliasing'
    BY <1>3, <1>4 DEF IInv, RecordsAccountedFor, NoAliasing, sharedByNet
  <2>8. ListedAreAllocated'
    BY <1>3, <1>4, <1>5, <2>1, <2>2
    DEF IInv, RecordsAccountedFor, ListedAreAllocated, Allocated, sharedByNet
  <2>9. NothingLeaks'
    <3> SUFFICES ASSUME NEW q \in Ptr, Allocated(q)', q # hand
                 PROVE  \E l \in List : \E n \in Index(l) :
                            Live(l, n)' /\ pending[l][n] = q
      BY <1>3, <1>4 DEF NothingLeaks, sharedByNet, netVars
    <3>1. q # p /\ Allocated(q)
      BY <2>1 DEF Allocated
    <3>2. PICK l \in List : \E n \in Index(l) : Live(l, n) /\ pending[l][n] = q
      BY <3>1 DEF IInv, RecordsAccountedFor, NothingLeaks
    <3> QED  BY <1>5, <2>2, <3>1, <3>2
  <2>10. OneRecordPerPlayer'
    BY <1>3, <1>4, <1>5, <2>1, <2>2 DEF IInv, OneRecordPerPlayer, sharedByNet
  <2> QED  BY <2>3, <2>4, <2>5, <2>6, <2>7, <2>8, <2>9, <2>10
      DEF IInv, RecordsAccountedFor
<1> QED  BY <1>1, <1>6, <1>7

LEMMA RefillStep ==
    ASSUME IInv, Refill
    PROVE  IInv'
<1>1. /\ TypeOK /\ sweeping \in List /\ mainPc = "sweep" /\ dataLock = "main"
      /\ kept \in Seq(Ptr)
  BY DEF IInv, TypeOK, Refill, Locking
<1>2. netPc \in {"idle", "lock"} /\ \A l, n : ~BeingReplaced(l, n)
  BY <1>1, NetOutsideLock
<1>3. /\ pending' \in [List -> Seq(Ptr)]
      /\ \A l \in List : pending'[l] = IF l = sweeping THEN kept ELSE pending[l]
      /\ UNCHANGED <<heap, netVars>>
      /\ kept' = <<>>
  BY <1>1 DEF Refill, TypeOK
<1>4. \A l \in List : \A n \in Index(l)' : Live(l, n)'
  BY <1>2, <1>3 DEF Refill, Live, Dropped, BeingReplaced, Index, netVars
<1>5. \A l \in List \ {sweeping} : \A n \in Index(l) : Live(l, n)
  BY <1>2 DEF Live, Dropped
<1>6. \A k \in 1 .. Len(kept) :
          \E n \in Index(sweeping) : Live(sweeping, n) /\ kept[k] = pending[sweeping][n]
  BY <1>1, <1>2 DEF IInv, Clearing, Live, Dropped
<1>7. \A n \in Index(sweeping) :
          Live(sweeping, n) => \E k \in 1 .. Len(kept) : kept[k] = pending[sweeping][n]
  BY <1>1 DEF Refill, TypeOK, Live, Dropped, Index
<1>8. /\ \A l \in List \ {sweeping} : Index(l)' = Index(l)
      /\ \A l \in List : l = sweeping => Index(l)' = 1 .. Len(kept)
  BY <1>1, <1>3 DEF Index
\* Each slot of the new lists holds what a slot of the old ones held.
<1>9. \A l \in List : \A n \in Index(l)' :
          \E m \in Index(l) : Live(l, m) /\ pending'[l][n] = pending[l][m]
  BY <1>1, <1>3, <1>5, <1>6, <1>8
<1>10. TypeOK'
  BY <1>1, <1>3 DEF Refill, TypeOK, MainPc, List, netVars
<1>11. Locking' /\ Scanning' /\ Clearing'
  BY <1>1, <1>2, <1>3 DEF Refill, Locking, Scanning, Clearing, netVars
<1>12. Filing'
  BY <1>2, <1>3, <1>9 DEF IInv, Filing, Allocated, netVars
<1>13. ListedAreAllocated'
  BY <1>3, <1>9 DEF IInv, RecordsAccountedFor, ListedAreAllocated, Allocated
<1>14. NothingLeaks'
  <2> SUFFICES ASSUME NEW q \in Ptr, Allocated(q), q # hand
               PROVE  \E l \in List : \E n \in Index(l)' : pending'[l][n] = q
    BY <1>3, <1>4 DEF NothingLeaks, Allocated, netVars
  <2>1. PICK l \in List : \E n \in Index(l) : Live(l, n) /\ pending[l][n] = q
    BY DEF IInv, RecordsAccountedFor, NothingLeaks
  <2> PICK n \in Index(l) : Live(l, n) /\ pending[l][n] = q
    BY <2>1
  <2>2. CASE l = sweeping
    BY <1>1, <1>3, <1>7, <1>8, <2>2
  <2>3. CASE l # sweeping
    BY <1>3, <1>8, <2>3
  <2> QED  BY <2>2, <2>3
<1>15. \A l \in List : \A m, n \in Index(l)' :
           pending'[l][m] = pending'[l][n] => m = n
  <2>1. \A k, m \in 1 .. Len(kept) : kept[k] = kept[m] => k = m
    BY <1>1 DEF IInv, Clearing
  <2> QED  BY <1>3, <1>8, <2>1 DEF IInv, RecordsAccountedFor, NoAliasing
<1>16. NoAliasing'
  <2> SUFFICES ASSUME NEW l1 \in List, NEW l2 \in List,
                      NEW m \in Index(l1)', NEW n \in Index(l2)',
                      pending'[l1][m] = pending'[l2][n]
               PROVE  l1 = l2 /\ m = n
    BY DEF NoAliasing
  <2>1. l1 = l2
    BY <1>9 DEF IInv, RecordsAccountedFor, NoAliasing
  <2> QED  BY <1>15, <2>1
<1>17. OneRecordPerPlayer'
  <2> SUFFICES ASSUME NEW l \in List, NEW m \in Index(l)', NEW n \in Index(l)', m # n
               PROVE  heap[pending'[l][m]].id # heap[pending'[l][n]].id
    BY <1>3 DEF OneRecordPerPlayer
  <2>1. PICK m0 \in Index(l) : Live(l, m0) /\ pending'[l][m] = pending[l][m0]
    BY <1>9
  <2>2. PICK n0 \in Index(l) : Live(l, n0) /\ pending'[l][n] = pending[l][n0]
    BY <1>9
  <2>3. m0 # n0
    BY <1>15, <2>1, <2>2
  <2> QED  BY <2>1, <2>2, <2>3 DEF IInv, OneRecordPerPlayer
<1> QED  BY <1>10, <1>11, <1>12, <1>13, <1>14, <1>16, <1>17
    DEF IInv, RecordsAccountedFor

-----------------------------------------------------------------------------
(* The theorems.                                                           *)

LEMMA InitEstablishes == Init => IInv
<1> SUFFICES ASSUME Init PROVE IInv
  OBVIOUS
<1>1. \A l \in List : pending[l] = <<>>
  BY DEF Init
<1>2. \A l \in List : Index(l) = {}
  BY <1>1 DEF Index
<1>3. TypeOK
  BY DEF Init, TypeOK, NetPc, MainPc, List
<1>4. Locking /\ Scanning /\ Clearing
  BY DEF Init, Locking, Scanning, Clearing
<1>5. Filing
  BY DEF Init, Filing
<1>6. RecordsAccountedFor /\ OneRecordPerPlayer
  BY <1>2 DEF Init, RecordsAccountedFor, NoAliasing, ListedAreAllocated,
              NothingLeaks, OneRecordPerPlayer, Allocated
<1> QED  BY <1>3, <1>4, <1>5, <1>6 DEF IInv

LEMMA NextPreserves == IInv /\ [Next]_vars => IInv'
<1> SUFFICES ASSUME IInv, [Next]_vars PROVE IInv'
  OBVIOUS
<1>1. CASE Receive
  BY <1>1, ReceiveSteps
<1>2. CASE File
  BY <1>2, NetLockStep, DeleteOldStep, StoreNewStep, PushBackStep, FinishFilingStep
  DEF File
<1>3. CASE updateState
  BY <1>3, CollisionScanSteps, BattleScanSteps, MainLockStep, SweepStep, RefillStep
  DEF updateState
<1>4. CASE UNCHANGED vars
  BY <1>4
  DEF vars, netVars, mainVars, IInv, TypeOK, Locking, Filing, Scanning, Clearing,
      RecordsAccountedFor, NoAliasing, ListedAreAllocated, NothingLeaks,
      OneRecordPerPlayer, Live, BeingReplaced, Dropped, Allocated, Index
<1> QED  BY <1>1, <1>2, <1>3, <1>4 DEF Next

\* The inductive invariant holds in every reachable state.
THEOREM Invariance == Spec => []IInv
BY InitEstablishes, NextPreserves, PTL DEF Spec

\* The state of the two threads is always well typed; in particular no index of
\* the unlocked scans leaves the vectors.
THEOREM TypeCorrectness == Spec => []TypeOK
<1>1. IInv => TypeOK
  BY DEF IInv
<1> QED  BY <1>1, Invariance, PTL

\* However the unlocked scans of the main thread and the filing of the network
\* thread interleave, no record is lost, listed twice or listed after it is gone.
THEOREM NoRecordLost == Spec => []RecordsAccountedFor
<1>1. IInv => RecordsAccountedFor
  BY DEF IInv
<1> QED  BY <1>1, Invariance, PTL

\* A player never has two records in one vector.
THEOREM UniqueRecords == Spec => []OneRecordPerPlayer
<1>1. IInv => OneRecordPerPlayer
  BY DEF IInv
<1> QED  BY <1>1, Invariance, PTL

\* Only the network thread, replacing the record of the same player, deletes a
\* record that is still unresolved.
THEOREM NothingUnresolvedDeleted == Spec => UnresolvedIsKept
<1> DEFINE Kept(p) == Allocated(p) /\ heap[p].unresolved /\ heap'[p] = Freed
                         => netPc = "add" /\ heap[hand].id = heap[p].id
<1>1. ASSUME IInv, [Next]_vars
      PROVE  \A p \in Ptr : Kept(p)
  <2> SUFFICES ASSUME NEW p \in Ptr, Allocated(p), heap[p].unresolved, heap'[p] = Freed
               PROVE  netPc = "add" /\ heap[hand].id = heap[p].id
    OBVIOUS
  <2>1. heap \in Records /\ heap[p] # Freed /\ TypeOK /\ Scanning
    BY <1>1 DEF IInv, TypeOK, Records, Allocated
  <2>2. ~UNCHANGED heap
    BY <2>1
  <2>3. ~SameShape(heap, heap')
    BY <2>1 DEF SameShape
  <2>4. CASE DeleteOld
    <3>1. PICK n \in 1 .. Len(pending[filing]) :
              SamePlayer(n) /\ heap' = [heap EXCEPT ![pending[filing][n]] = Freed]
      BY <2>4 DEF DeleteOld
    <3>2. p = pending[filing][n]
      BY <2>1, <3>1 DEF Records
    <3> QED  BY <2>4, <3>1, <3>2 DEF DeleteOld, SamePlayer
  <2>5. CASE Sweep
    <3> DEFINE q == pending[sweeping][i]
    <3>1. PICK r \in Peek(q) : ~r.unresolved /\ heap' = [heap EXCEPT ![q] = Freed]
      BY <2>2, <2>5 DEF Sweep
    <3>2. r = heap[q]
      BY <1>1, <2>5, SweepReads
    <3>3. p = q
      BY <2>1, <3>1 DEF Records
    <3> QED  BY <3>1, <3>2, <3>3
  <2>6. ASSUME NEW pkt \in Packet, NEW l \in List, pkt.kind \in {"update", "combat"},
               CreateRecord(pkt, l)
        PROVE  FALSE
    BY <2>1, <2>6, RecordOfPacket, DistinctAssumption DEF CreateRecord, Records, Free
  <2>7. CASE Receive
    <3> PICK pkt \in Packet : \/ ReceiveUpdate(pkt) \/ ReceiveCombat(pkt)
                              \/ onPlayerDisconnect(pkt) \/ IgnorePacket(pkt)
      BY <2>7 DEF Receive
    <3> QED  BY <2>2, <2>6
        DEF ReceiveUpdate, ReceiveCombat, onPlayerDisconnect, IgnorePacket, List
  <2>8. CASE NetLock \/ StoreNew \/ PushBack \/ FinishFiling
    BY <2>2, <2>8 DEF NetLock, StoreNew, PushBack, FinishFiling
  <2>9. CASE BeginTick \/ FetchCurrent \/ TestCurrent \/ FetchOther \/ Compare
             \/ SendCollision
    BY <2>2, <2>9
    DEF BeginTick, FetchCurrent, TestCurrent, FetchOther, Compare, SendCollision
  <2>10. CASE ResolveOther
    BY <2>1, <2>3, <2>10, MarksKeepShape DEF ResolveOther, Scanning
  <2>11. CASE Engage
    <3> DEFINE g == MarkedInCombat(heap, currentPlayer)
    <3>1. g \in Records /\ SameShape(heap, g)
      BY <2>1, <2>11, MarksKeepShape DEF Engage, Scanning
    <3> HIDE DEF g
    <3>2. SameShape(g, heap')
      BY <2>1, <2>11, <3>1, MarksKeepShape DEF Engage, Scanning, g
    <3> QED  BY <2>3, <3>1, <3>2 DEF SameShape
  <2>12. CASE FetchAttacker \/ FindOpponent \/ handlePlayerBattle
    BY <2>2, <2>12 DEF FetchAttacker, FindOpponent, handlePlayerBattle
  <2>13. CASE ResolveFirst \/ ResolveSecond
    <3>1. "attackers" \in List
      BY DEF List
    <3> QED  BY <2>1, <2>3, <2>13, <3>1, ListElements, MarksKeepShape
        DEF ResolveFirst, ResolveSecond, Scanning, Attackers
  <2>14. CASE MainLock \/ Refill
    BY <2>2, <2>14 DEF MainLock, Refill
  <2>15. CASE UNCHANGED vars
    BY <2>2, <2>15 DEF vars
  <2> QED  BY <1>1, <2>4, <2>5, <2>7, <2>8, <2>9, <2>10, <2>11, <2>12, <2>13, <2>14, <2>15
      DEF Next, File, updateState, checkWorldCollisions, checkForPlayerBattles
<1>2. IInv /\ [Next]_vars => [\A p \in Ptr : Kept(p)]_vars
  BY <1>1
<1> QED  BY <1>2, Invariance, PTL DEF Spec, UnresolvedIsKept

\* Each branch of handlePlayerBattle is the rule of the game.
LEMMA RulesAreTheGame ==
    ASSUME NEW x \in 0 .. 2, NEW y \in 0 .. 2
    PROVE  /\ FirstWins(x, y)  <=> Beats(x, y)
           /\ SecondWins(x, y) <=> Beats(y, x)
           /\ x = y <=> ~FirstWins(x, y) /\ ~SecondWins(x, y)
           /\ ~(FirstWins(x, y) /\ SecondWins(x, y))
BY DEF FirstWins, SecondWins, Beats, Rock, Paper, IsScissors

\* A round that no race has touched is reported as the rules have it.
THEOREM RoundsAreFair == Spec => RoundsFollowTheRules
<1>1. ASSUME IInv, [Next]_vars, ReportsRound
      PROVE  RightReport(heap[Attackers[i]], heap[Attackers[j]], Beats)
  <2> DEFINE a == heap[Attackers[i]]
             b == heap[Attackers[j]]
  <2>1. /\ TypeOK /\ i \in Index("attackers") /\ j \in Index("attackers") /\ i < j
        /\ "attackers" \in List /\ Attackers[i] \in Ptr /\ Attackers[j] \in Ptr
    BY <1>1, ListElements DEF IInv, ReportsRound, Scanning, List, Attackers
  <2>2. a \in PlayerData /\ b \in PlayerData
    BY <1>1, <2>1 DEF ReportsRound, TypeOK, Allocated
  <2>3. Live("attackers", i) /\ Live("attackers", j)
    BY <1>1, <2>1 DEF IInv, ReportsRound, Filing, Live, BeingReplaced, Dropped, Attackers
  <2>4. a.id # b.id
    <3>1. i # j
      BY <2>1 DEF TypeOK
    <3> QED  BY <1>1, <2>1, <2>3, <3>1 DEF IInv, OneRecordPerPlayer, Attackers
  <2>5. handlePlayerBattle
    BY <1>1
    DEF ReportsRound, Next, Receive, ReceiveUpdate, ReceiveCombat, onPlayerDisconnect,
        IgnorePacket, File, NetLock, DeleteOld, StoreNew, PushBack, FinishFiling,
        updateState, BeginTick, checkWorldCollisions, FetchCurrent, TestCurrent,
        FetchOther, Compare, ResolveOther, SendCollision, Engage,
        checkForPlayerBattles, FetchAttacker, FindOpponent, ResolveFirst,
        ResolveSecond, MainLock, Sweep, Refill, mainVars, vars
  <2>6. out' = RoundWinner(a, b)
    BY <1>1, <2>1, <2>5, PeekAllocated DEF ReportsRound, handlePlayerBattle
  <2>7. a.currentAttack \in 0 .. 2 /\ b.currentAttack \in 0 .. 2
    BY <2>2, NumberAssumption DEF PlayerData
  <2> HIDE DEF a, b
  <2>8. RightReport(a, b, Beats)
    BY <2>4, <2>6, <2>7, RulesAreTheGame DEF RightReport, RoundWinner
  <2> QED  BY <2>8 DEF a, b
<1>2. IInv /\ [Next]_vars
          => [ReportsRound
                => RightReport(heap[Attackers[i]], heap[Attackers[j]], Beats)]_vars
  BY <1>1
<1> QED  BY <1>2, Invariance, PTL DEF Spec, RoundsFollowTheRules
=============================================================================
