--------------------------- MODULE ClientNetProofs ---------------------------
(***************************************************************************)
(* Proofs about a client's frames, for any players, identifiers, lives and *)
(* number of packets.                                                      *)
(***************************************************************************)
EXTENDS ClientNet, TLAPS

-----------------------------------------------------------------------------
(* Frames and queues.                                                      *)

LEMMA FrameLength == Len(Frame) = 7
    BY DEF Frame

\* The parts of TypeOK.
CountTypes ==
    /\ sent \in 0 .. MaxPackets /\ Len(wire) <= sent
    /\ entityUpdatesWaiting \in Nat /\ collisionUpdatesWaiting \in Nat
    /\ roundWinUpdatesWaiting \in Nat
    /\ netFirst \in BOOLEAN /\ phase \in 1 .. 7

QueueTypes ==
    /\ entityUpdates \in Seq(OtherPlayer)
    /\ \A c \in Range(collisionUpdates) : c.pair \in Pair /\ c.number \in 1 .. sent
    /\ \A r \in Range(roundWinUpdates) :
          {r.winner, r.loser} \subseteq Player /\ r.number \in 1 .. sent

PlayerTypes ==
    /\ life \in DOMAIN Self /\ inCombat \in BOOLEAN
    /\ opponentGuid \in Player \cup {None} /\ began \in 0 .. sent

SceneTypes ==
    /\ scene \in {"world", "battle"} /\ loading \in {"none", "world", "battle"}
    /\ manager \in Manager \cup {None}

EntityTypes ==
    /\ entityPackets \in Seq(OtherPlayer)
    /\ entities \in Seq([id : OtherPlayer, lives : BOOLEAN])
    /\ searched \in 0 .. Len(entities) + 1

LEMMA TypeParts ==
    TypeOK <=> CountTypes /\ QueueTypes /\ PlayerTypes /\ SceneTypes /\ EntityTypes
    BY FrameLength DEF TypeOK, CountTypes, QueueTypes, PlayerTypes, SceneTypes, EntityTypes

LEMMA TypePartsNext ==
    TypeOK' <=> CountTypes' /\ QueueTypes' /\ PlayerTypes' /\ SceneTypes' /\ EntityTypes'
<1>1. Len(Frame') = 7
    BY DEF Frame
<1> QED
    BY <1>1 DEF TypeOK, CountTypes, QueueTypes, PlayerTypes, SceneTypes, EntityTypes

\* Which part of the frame a phase is, for either order of the two Updates.
LEMMA Places ==
    ASSUME netFirst \in BOOLEAN, phase \in 1 .. 7
    PROVE  /\ Len(Frame) = 7
           /\ At("packet") <=> phase = IF netFirst THEN 1 ELSE 2
           /\ At("entities") <=> phase = IF netFirst THEN 2 ELSE 3
           /\ At("collisions") <=> phase = IF netFirst THEN 3 ELSE 4
           /\ At("results") <=> phase = IF netFirst THEN 4 ELSE 5
           /\ At("scene") <=> phase = IF netFirst THEN 5 ELSE 1
           /\ At("coroutines") <=> phase = 6
           /\ At("load") <=> phase = 7
<1>1. CASE netFirst
    BY <1>1 DEF At, Frame
<1>2. CASE ~netFirst
    BY <1>2 DEF At, Frame
<1> QED
    BY <1>1, <1>2

LEMMA PlacesNext ==
    ASSUME netFirst' \in BOOLEAN, phase' \in 1 .. 7
    PROVE  /\ Len(Frame') = 7
           /\ At("packet")' <=> phase' = IF netFirst' THEN 1 ELSE 2
           /\ At("entities")' <=> phase' = IF netFirst' THEN 2 ELSE 3
           /\ At("collisions")' <=> phase' = IF netFirst' THEN 3 ELSE 4
           /\ At("results")' <=> phase' = IF netFirst' THEN 4 ELSE 5
           /\ At("scene")' <=> phase' = IF netFirst' THEN 5 ELSE 1
           /\ At("coroutines")' <=> phase' = 6
           /\ At("load")' <=> phase' = 7
<1>1. CASE netFirst'
    BY <1>1 DEF At, Frame
<1>2. CASE ~netFirst'
    BY <1>2 DEF At, Frame
<1> QED
    BY <1>1, <1>2

\* Proceed goes to the next part of the frame, from the last one to the first.
LEMMA Proceeding ==
    ASSUME netFirst \in BOOLEAN, phase \in 1 .. 7, Proceed
    PROVE  /\ netFirst' \in BOOLEAN /\ phase' \in 1 .. 7
           /\ netFirst' = netFirst
           /\ phase' = IF phase = 7 THEN 1 ELSE phase + 1
<1>1. /\ phase' = IF phase = 7 THEN 1 ELSE phase + 1
      /\ netFirst' = netFirst
    BY Places DEF Proceed
<1>2. netFirst' \in BOOLEAN /\ phase' \in 1 .. 7
    BY <1>1
<1> QED
    BY <1>1, <1>2, PlacesNext

\* Staying in a part of the frame.
LEMMA Staying ==
    ASSUME netFirst \in BOOLEAN, phase \in 1 .. 7, Stay
    PROVE  /\ netFirst' \in BOOLEAN /\ phase' \in 1 .. 7
           /\ (At("packet")' <=> At("packet")) /\ (At("entities")' <=> At("entities"))
           /\ (At("collisions")' <=> At("collisions")) /\ (At("results")' <=> At("results"))
           /\ (At("scene")' <=> At("scene")) /\ (At("coroutines")' <=> At("coroutines"))
           /\ (At("load")' <=> At("load"))
<1>1. netFirst' = netFirst /\ phase' = phase
    BY DEF Stay
<1> QED
    BY <1>1, PlacesNext DEF At, Frame

\* A loop that makes at least as many calls as there are updates takes all.
LEMMA Drained ==
    ASSUME NEW S, NEW q \in Seq(S), NEW n \in Nat, Len(q) <= n
    PROVE  Taken(q, n) = q /\ Left(q, n) = <<>>
<1>1. Taken(q, n) = SubSeq(q, 1, Len(q))
    BY DEF Taken, First
<1>2. Taken(q, n) = q
    BY <1>1
<1>3. Left(q, n) = SubSeq(q, Len(q) + 1, Len(q))
    BY <1>2 DEF Left, Rest
<1>4. Left(q, n) = <<>>
    BY <1>3
<1> QED
    BY <1>2, <1>4

LEMMA Elements ==
    ASSUME NEW S, NEW q \in Seq(S), NEW k \in 1 .. Len(q)
    PROVE  q[k] \in S
    OBVIOUS

\* The search in a queue of one packet.
LEMMA SearchOfOne ==
    ASSUME NEW q \in Seq(OtherPlayer), Len(q) = 1, NEW id
    PROVE  findAndUpdateData(q, id) = IF q[1] = id THEN <<>> ELSE q
<1> DEFINE found == {k \in DOMAIN q : q[k] = id}
           k == CHOOSE i \in found : \A j \in found : i <= j
<1>1. DOMAIN q = {1}
    OBVIOUS
<1>2. CASE q[1] = id
    <2>1. found = {1} /\ k = 1
        BY <1>1, <1>2
    <2>2. Rest(q, 1) = <<>> /\ First(q, 0) = <<>>
        BY DEF Rest, First
    <2> QED
        BY <1>2, <2>1, <2>2 DEF findAndUpdateData
<1>3. CASE q[1] # id
    <2>1. found = {}
        BY <1>1, <1>3
    <2> QED
        BY <1>3, <2>1 DEF findAndUpdateData
<1> QED
    BY <1>2, <1>3

\* The state at the start.
LEMMA InitHolds == Init => IInv
<1> SUFFICES ASSUME Init PROVE IInv
    OBVIOUS
<1>1. netFirst \in BOOLEAN /\ phase \in 1 .. 7
    BY DEF Init
<1>2. TypeOK
    <2>1. 1 \in DOMAIN Self
        BY PlayerAssumption
    <2>2. Range(collisionUpdates) = {} /\ Range(roundWinUpdates) = {}
        BY DEF Init, Range
    <2>3. Len(entities) = 0 /\ Len(wire) = 0 /\ 0 \in 0 .. MaxPackets
        BY BoundAssumption DEF Init
    <2>4. phase \in 1 .. Len(Frame)
        BY <1>1, Places
    <2> QED
        <3>1. sent \in 0 .. MaxPackets /\ Len(wire) <= sent
            BY <2>3 DEF Init
        <3>2. entityUpdates \in Seq(OtherPlayer) /\ entityPackets \in Seq(OtherPlayer)
              /\ entities \in Seq([id : OtherPlayer, lives : BOOLEAN])
            BY DEF Init
        <3>3. {entityUpdatesWaiting, collisionUpdatesWaiting, roundWinUpdatesWaiting} \subseteq Nat
            BY DEF Init
        <3>4. opponentGuid \in Player \cup {None} /\ manager \in Manager \cup {None}
              /\ began \in 0 .. sent /\ searched \in 0 .. Len(entities) + 1
            BY <2>3 DEF Init
        <3>5. scene \in {"world", "battle"} /\ loading \in {"none", "world", "battle"}
              /\ life \in DOMAIN Self /\ inCombat \in BOOLEAN
            BY <2>1 DEF Init
        <3> QED
            BY <1>1, <2>2, <2>4, <3>1, <3>2, <3>3, <3>4, <3>5 DEF TypeOK
<1>3. OneEntityPerPlayer /\ EntitiesSearched
    BY DEF Init, OneEntityPerPlayer, EntitiesSearched
<1>4. QueuesTyped /\ OnePacketAFrame /\ UpdatesCounted
    BY DEF Init, QueuesTyped, OnePacketAFrame, UpdatesCounted
<1>5. CombatAndScene /\ ResultsNumbered
    BY DEF Init, CombatAndScene, ResultsNumbered, Got
<1> QED
    BY <1>2, <1>3, <1>4, <1>5 DEF IInv

-----------------------------------------------------------------------------
(* One lemma for each action: packets and NetworkManager.                  *)

LEMMA ManagerIsSome == None \notin Manager
<1>1. 1 .. MaxPackets \subseteq Nat
    BY BoundAssumption
<1> QED
    BY <1>1, NoneAssumption DEF Manager

LEMMA PacketFields ==
    ASSUME NEW p \in Packet
    PROVE  /\ p.kind = "entity" => p.id \in OtherPlayer
           /\ p.kind = "collision" => p.pair \in Pair
           /\ p.kind = "result" => /\ {p.winner, p.loser} \subseteq Player
                                   /\ p.draw \in BOOLEAN
<1>1. CASE p \in {[kind |-> "entity", id |-> q] : q \in OtherPlayer}
    BY <1>1
<1>2. CASE p \in {[kind |-> "collision", pair |-> c] : c \in Pair}
    BY <1>2
<1>3. CASE p \in Result
    <2>1. PICK c \in Pair, d \in BOOLEAN :
            p = [kind |-> "result", winner |-> c[1], loser |-> c[2], draw |-> d]
        BY <1>3 DEF Result
    <2>2. c[1] \in Player /\ c[2] \in Player
        BY PairAssumption DEF Player
    <2> QED
        BY <2>1, <2>2
<1>4. CASE p = [kind |-> "notice"]
    BY <1>4
<1> QED
    BY <1>1, <1>2, <1>3, <1>4 DEF Packet

LEMMA ArriveStep == IInv /\ Arrive => IInv'
<1> SUFFICES ASSUME IInv, Arrive PROVE IInv'
    OBVIOUS
<1>1. PICK p \in Packet : /\ p.kind = "result" => Fought(p)
                          /\ wire' = Append(wire, p)
    BY DEF Arrive
<1>2. /\ sent' = sent + 1 /\ sent < MaxPackets
      /\ UNCHANGED <<pluginQueues, waiting, playerVars, sceneVars, entityVars>>
      /\ Stay
    BY DEF Arrive, Stay
<1> USE <1>2 DEF pluginQueues, waiting, playerVars, sceneVars, entityVars
<1>3. netFirst \in BOOLEAN /\ phase \in 1 .. 7 /\ sent \in Nat /\ wire \in Seq(Packet)
      /\ Len(wire) <= sent /\ netFirst' = netFirst /\ phase' = phase
    BY TypeParts DEF IInv, CountTypes, QueuesTyped, Stay
<1>4. Len(wire') = Len(wire) + 1 /\ wire' \in Seq(Packet) /\ Got' = Got
    BY <1>1, <1>3 DEF Got
<1>5. /\ (At("packet")' <=> At("packet")) /\ (At("entities")' <=> At("entities"))
      /\ (At("collisions")' <=> At("collisions")) /\ (At("results")' <=> At("results"))
      /\ (At("scene")' <=> At("scene")) /\ (At("coroutines")' <=> At("coroutines"))
      /\ (At("load")' <=> At("load"))
    BY <1>3, Staying
<1>6. TypeOK'
    <2>1. CountTypes' /\ QueueTypes'
        BY <1>3, <1>4, TypeParts, BoundAssumption DEF IInv, CountTypes, QueueTypes
    <2>2. PlayerTypes' /\ SceneTypes' /\ EntityTypes'
        BY <1>3, TypeParts DEF IInv, PlayerTypes, SceneTypes, EntityTypes
    <2> QED
        BY <2>1, <2>2, TypePartsNext
<1>7. OneEntityPerPlayer' /\ EntitiesSearched' /\ UpdatesCounted' /\ CombatAndScene'
    <2>1. OneEntityPerPlayer' /\ UpdatesCounted'
        BY DEF IInv, OneEntityPerPlayer, UpdatesCounted
    <2>2. EntitiesSearched' /\ CombatAndScene'
        BY <1>3, <1>5 DEF IInv, EntitiesSearched, CombatAndScene
    <2> QED
        BY <2>1, <2>2
<1>8. QueuesTyped' /\ OnePacketAFrame'
    <2>1. QueuesTyped'
        BY <1>4 DEF IInv, QueuesTyped
    <2>2. OnePacketAFrame'
        BY <1>3, <1>4, <1>5 DEF IInv, OnePacketAFrame
    <2> QED
        BY <2>1, <2>2
<1>9. ResultsNumbered'
    <2>1. ASSUME NEW k \in DOMAIN wire', wire'[k].kind = "result"
          PROVE  manager # None \/ {wire'[k].winner, wire'[k].loser} \subseteq OtherPlayer
        <3>1. CASE k = Len(wire) + 1
            BY <1>1, <1>3, <2>1, <3>1 DEF Fought
        <3>2. CASE k # Len(wire) + 1
            BY <1>1, <1>3, <1>4, <2>1, <3>2 DEF IInv, ResultsNumbered
        <3> QED
            BY <3>1, <3>2
    <2> QED
        BY <1>4, <2>1 DEF IInv, ResultsNumbered
<1> QED
    BY <1>6, <1>7, <1>8, <1>9 DEF IInv

\* The packet at the head of the wire is put into a queue of the plugin.
LEMMA HandleNetworkingStep == IInv /\ HandleNetworking => IInv'
<1> SUFFICES ASSUME IInv, HandleNetworking PROVE IInv'
    OBVIOUS
<1> USE DEF pluginQueues, waiting, playerVars, sceneVars, entityVars
<1>1. /\ At("packet") /\ Proceed
      /\ UNCHANGED <<sent, playerVars, sceneVars, entityVars>>
    BY DEF HandleNetworking
<1>2. /\ netFirst \in BOOLEAN /\ phase \in 1 .. 7 /\ sent \in Nat /\ wire \in Seq(Packet)
      /\ Len(wire) <= sent /\ Len(wire) \in Nat
      /\ collisionUpdates \in Seq(CollisionUpdate) /\ roundWinUpdates \in Seq(ResultUpdate)
      /\ {entityUpdatesWaiting, collisionUpdatesWaiting, roundWinUpdatesWaiting} \subseteq Nat
    BY TypeParts DEF IInv, CountTypes, QueuesTyped
<1>3. /\ netFirst' \in BOOLEAN /\ phase' \in 1 .. 7 /\ netFirst' = netFirst
      /\ At("entities")' /\ ~At("packet")' /\ ~At("collisions")' /\ ~At("results")'
      /\ ~At("scene")' /\ ~At("coroutines")' /\ ~At("load")'
      /\ ~At("entities") /\ ~At("collisions") /\ ~At("results")
      /\ ~At("scene") /\ ~At("coroutines") /\ ~At("load")
    BY <1>1, <1>2, Proceeding, Places, PlacesNext
<1>4. /\ entityUpdates = <<>> /\ collisionUpdates = <<>> /\ entityPackets = <<>>
      /\ loading = "none" /\ searched = 0
    BY <1>3, TypeParts DEF IInv, SceneTypes, OnePacketAFrame, CombatAndScene, EntitiesSearched
<1>5. CASE wire = <<>>
    <2>1. UNCHANGED <<wire, pluginQueues, waiting>>
        BY <1>5 DEF HandleNetworking
    <2>2. TypeOK'
        BY <1>1, <1>3, <2>1, TypeParts, TypePartsNext
           DEF IInv, CountTypes, QueueTypes, PlayerTypes, SceneTypes, EntityTypes
    <2>5. OneEntityPerPlayer' /\ QueuesTyped' /\ UpdatesCounted'
        BY <1>1, <2>1 DEF IInv, OneEntityPerPlayer, QueuesTyped, UpdatesCounted
    <2>3. OnePacketAFrame' /\ CombatAndScene' /\ EntitiesSearched'
        BY <1>1, <1>3, <1>4, <2>1 DEF IInv, OnePacketAFrame, CombatAndScene, EntitiesSearched
    <2>4. ResultsNumbered'
        BY <1>1, <2>1 DEF IInv, ResultsNumbered, Got
    <2> QED
        BY <2>2, <2>3, <2>4, <2>5 DEF IInv
<1>6. CASE wire # <<>>
    <2> DEFINE p == Head(wire)
    <2>1. /\ handlePacket(p) /\ wire' = Tail(wire)
        BY <1>6 DEF HandleNetworking
    <2>2. /\ p \in Packet /\ Len(wire') = Len(wire) - 1 /\ wire' \in Seq(Packet)
          /\ Got \in Nat /\ Got' = Got + 1 /\ Number = Got + 1 /\ Len(wire) > 0 /\ Number <= sent
          /\ \A k \in DOMAIN wire' : k + 1 \in DOMAIN wire /\ wire'[k] = wire[k + 1]
          /\ p = wire[1] /\ 1 \in DOMAIN wire
        BY <1>1, <1>2, <1>6, <2>1 DEF Got, Number
    <2>3. OneEntityPerPlayer' /\ EntitiesSearched' /\ CombatAndScene'
        BY <1>1, <1>3, <1>4 DEF IInv, OneEntityPerPlayer, EntitiesSearched, CombatAndScene
    <2>4. \A k \in DOMAIN wire' : wire'[k].kind = "result" =>
            manager # None \/ {wire'[k].winner, wire'[k].loser} \subseteq OtherPlayer
        BY <2>2 DEF IInv, ResultsNumbered
    <2>5. p.kind = "result" =>
            manager # None \/ {p.winner, p.loser} \subseteq OtherPlayer
        BY <2>2 DEF IInv, ResultsNumbered
    <2>6. /\ began <= Got' /\ (manager # None => manager.number <= Got')
          /\ manager # None => manager.number < Number
          /\ \A k \in DOMAIN roundWinUpdates : roundWinUpdates[k].number <= Got'
        <3>1. began \in Nat /\ (manager # None => manager.number \in Nat)
            BY <1>2, TypeParts DEF IInv, PlayerTypes, SceneTypes, Manager
        <3>2. \A k \in DOMAIN roundWinUpdates :
                roundWinUpdates[k] \in ResultUpdate /\ roundWinUpdates[k].number \in Nat
            <4>1. \A k \in DOMAIN roundWinUpdates : roundWinUpdates[k] \in ResultUpdate
                BY <1>2
            <4> QED
                BY <4>1 DEF ResultUpdate
        <3> QED
            BY <2>2, <3>1, <3>2 DEF IInv, ResultsNumbered
    <2>7. /\ PlayerTypes' /\ SceneTypes' /\ EntityTypes'
          /\ {entityUpdatesWaiting', collisionUpdatesWaiting', roundWinUpdatesWaiting'}
               \subseteq Nat => CountTypes'
        BY <1>1, <1>2, <1>3, <2>2, TypeParts
           DEF IInv, CountTypes, PlayerTypes, SceneTypes, EntityTypes
    <2>8. CASE ReceiveEntity(p)
        <3>1. /\ p.id \in OtherPlayer /\ entityUpdates' = <<p.id>>
              /\ entityUpdatesWaiting' = entityUpdatesWaiting + 1
              /\ UNCHANGED <<collisionUpdates, roundWinUpdates,
                             collisionUpdatesWaiting, roundWinUpdatesWaiting>>
            BY <1>4, <2>2, <2>8, PacketFields DEF ReceiveEntity
        <3>2. TypeOK'
            BY <1>1, <1>2, <2>7, <3>1, TypeParts, TypePartsNext DEF IInv, QueueTypes
        <3>3. QueuesTyped' /\ OnePacketAFrame'
            BY <1>1, <1>2, <1>3, <1>4, <2>2, <3>1 DEF QueuesTyped, OnePacketAFrame
        <3>4. UpdatesCounted' /\ ResultsNumbered'
            BY <1>1, <1>2, <1>4, <2>4, <2>6, <3>1 DEF IInv, UpdatesCounted, ResultsNumbered
        <3> QED
            BY <2>3, <3>2, <3>3, <3>4 DEF IInv
    <2>9. CASE ReceiveCollision(p)
        <3> DEFINE c == [pair |-> p.pair, number |-> Number]
        <3>1. /\ p.pair \in Pair /\ collisionUpdates' = <<c>>
              /\ collisionUpdatesWaiting' = collisionUpdatesWaiting + 1
              /\ UNCHANGED <<entityUpdates, roundWinUpdates,
                             entityUpdatesWaiting, roundWinUpdatesWaiting>>
            BY <1>4, <2>2, <2>9, PacketFields DEF ReceiveCollision
        <3>2. Range(collisionUpdates') = {c}
            BY <3>1 DEF Range
        <3>6. QueueTypes'
            <4>1. c.pair \in Pair /\ c.number \in 1 .. sent
                BY <1>2, <2>2, <3>1
            <4> QED
                BY <1>1, <3>1, <3>2, <4>1, TypeParts DEF IInv, QueueTypes
        <3>3. TypeOK'
            BY <1>2, <2>7, <3>1, <3>6, TypePartsNext
        <3>4. QueuesTyped' /\ OnePacketAFrame'
            BY <1>1, <1>2, <1>3, <1>4, <2>2, <3>1
               DEF QueuesTyped, OnePacketAFrame, CollisionUpdate
        <3>5. UpdatesCounted' /\ ResultsNumbered'
            BY <1>1, <1>2, <1>4, <2>4, <2>6, <3>1 DEF IInv, UpdatesCounted, ResultsNumbered
        <3> QED
            BY <2>3, <3>3, <3>4, <3>5 DEF IInv
    <2>10. CASE ReceiveRoundWin(p)
        <3> DEFINE r == [winner |-> p.winner, loser |-> p.loser, draw |-> p.draw,
                         number |-> Number]
        <3>1. /\ {p.winner, p.loser} \subseteq Player /\ p.draw \in BOOLEAN /\ p.kind = "result"
              /\ roundWinUpdates' = Append(roundWinUpdates, r)
              /\ roundWinUpdatesWaiting' = roundWinUpdatesWaiting + 1
              /\ UNCHANGED <<entityUpdates, collisionUpdates,
                             entityUpdatesWaiting, collisionUpdatesWaiting>>
            BY <2>2, <2>10, PacketFields DEF ReceiveRoundWin
        <3>9. r \in ResultUpdate
            BY <2>2, <3>1 DEF ResultUpdate
        <3>2. /\ DOMAIN roundWinUpdates' = 1 .. Len(roundWinUpdates) + 1
              /\ DOMAIN roundWinUpdates = 1 .. Len(roundWinUpdates)
              /\ roundWinUpdates'[Len(roundWinUpdates) + 1] = r
              /\ \A k \in DOMAIN roundWinUpdates : roundWinUpdates'[k] = roundWinUpdates[k]
            BY <1>2, <3>1, <3>9
        <3>3. \A x \in Range(roundWinUpdates') : x = r \/ x \in Range(roundWinUpdates)
            BY <1>2, <3>2 DEF Range
        <3>4. TypeOK'
            BY <1>1, <1>2, <2>2, <2>7, <3>1, <3>3, TypeParts, TypePartsNext DEF IInv, QueueTypes
        <3>5. QueuesTyped' /\ OnePacketAFrame'
            BY <1>1, <1>2, <1>3, <1>4, <2>2, <3>1, <3>9 DEF QueuesTyped, OnePacketAFrame
        <3>6. UpdatesCounted'
            BY <1>2, <3>1 DEF IInv, UpdatesCounted
        <3>7. ASSUME NEW k \in DOMAIN roundWinUpdates'
              PROVE  /\ 1 <= roundWinUpdates'[k].number /\ roundWinUpdates'[k].number <= Got'
                     /\ manager # None /\ ~manager.over => manager.number < roundWinUpdates'[k].number
                     /\ \/ manager # None
                        \/ {roundWinUpdates'[k].winner, roundWinUpdates'[k].loser}
                             \subseteq OtherPlayer
            <4>1. CASE k = Len(roundWinUpdates) + 1
                BY <2>2, <2>5, <2>6, <3>1, <3>2, <4>1
            <4>2. CASE k # Len(roundWinUpdates) + 1
                <5>1. k \in DOMAIN roundWinUpdates /\ roundWinUpdates'[k] = roundWinUpdates[k]
                    BY <1>2, <3>2, <3>7, <4>2
                <5> QED
                    BY <2>6, <5>1 DEF IInv, ResultsNumbered
            <4> QED
                BY <4>1, <4>2
        <3>8. ResultsNumbered'
            BY <1>1, <2>4, <2>6, <3>7 DEF ResultsNumbered
        <3> QED
            BY <2>3, <3>4, <3>5, <3>6, <3>8 DEF IInv
    <2>11. CASE ReceiveNotice(p)
        <3>1. /\ UNCHANGED pluginQueues
              /\ entityUpdatesWaiting' \in Nat /\ entityUpdatesWaiting' >= entityUpdatesWaiting
              /\ collisionUpdatesWaiting' \in Nat
              /\ collisionUpdatesWaiting' >= collisionUpdatesWaiting
              /\ roundWinUpdatesWaiting' \in Nat
              /\ roundWinUpdatesWaiting' >= roundWinUpdatesWaiting
            BY <1>2, <2>11 DEF ReceiveNotice
        <3>2. TypeOK'
            BY <1>1, <1>2, <2>7, <3>1, TypeParts, TypePartsNext DEF IInv, QueueTypes
        <3>3. QueuesTyped' /\ OnePacketAFrame'
            BY <1>1, <1>2, <1>3, <1>4, <2>2, <3>1 DEF QueuesTyped, OnePacketAFrame
        <3>4. UpdatesCounted' /\ ResultsNumbered'
            BY <1>1, <1>2, <1>4, <2>4, <2>6, <3>1 DEF IInv, UpdatesCounted, ResultsNumbered
        <3> QED
            BY <2>3, <3>2, <3>3, <3>4 DEF IInv
    <2> QED
        BY <2>1, <2>8, <2>9, <2>10, <2>11 DEF handlePacket
<1> QED
    BY <1>5, <1>6

\* The updates counted are all there are, and there is at most one.
LEMMA UpdateEntitiesStep == IInv /\ UpdateEntities => IInv'
<1> SUFFICES ASSUME IInv, UpdateEntities PROVE IInv'
    OBVIOUS
<1> USE DEF pluginQueues, waiting, playerVars, sceneVars, entityVars
<1>1. /\ netFirst \in BOOLEAN /\ phase \in 1 .. 7 /\ entityUpdates \in Seq(OtherPlayer)
      /\ entityUpdatesWaiting \in Nat /\ Len(entityUpdates) <= entityUpdatesWaiting
    BY TypeParts DEF IInv, CountTypes, QueueTypes, UpdatesCounted
<1>2. /\ At("entities") /\ Proceed /\ entityUpdates' = <<>> /\ entityUpdatesWaiting' = 0
      /\ entityPackets' = IF inCombat THEN entityPackets
                          ELSE entityPackets \o entityUpdates
      /\ UNCHANGED <<wire, sent, collisionUpdates, roundWinUpdates,
                     collisionUpdatesWaiting, roundWinUpdatesWaiting, playerVars,
                     sceneVars, entities, searched>>
    BY <1>1, Drained DEF UpdateEntities
<1>3. /\ netFirst' \in BOOLEAN /\ phase' \in 1 .. 7 /\ netFirst' = netFirst
      /\ At("collisions")' /\ ~At("entities")' /\ ~At("packet")'
      /\ ~At("results")' /\ ~At("scene")' /\ ~At("coroutines")' /\ ~At("load")'
      /\ ~At("packet") /\ ~At("collisions") /\ ~At("results")
      /\ ~At("scene") /\ ~At("coroutines") /\ ~At("load")
    BY <1>1, <1>2, Proceeding, Places, PlacesNext
<1>4. entityPackets = <<>> /\ loading = "none" /\ searched = 0
    BY <1>3, TypeParts DEF IInv, SceneTypes, OnePacketAFrame, CombatAndScene, EntitiesSearched
<1>5. entityPackets' = IF inCombat THEN <<>> ELSE entityUpdates
    BY <1>1, <1>2, <1>4
<1>6. TypeOK'
    <2>1. CountTypes' /\ QueueTypes'
        BY <1>2, <1>3, TypeParts DEF IInv, CountTypes, QueueTypes
    <2>2. PlayerTypes' /\ SceneTypes' /\ EntityTypes'
        BY <1>1, <1>2, <1>5, TypeParts DEF IInv, PlayerTypes, SceneTypes, EntityTypes
    <2> QED
        BY <2>1, <2>2, TypePartsNext
<1>7. OneEntityPerPlayer' /\ QueuesTyped' /\ UpdatesCounted'
    BY <1>2 DEF IInv, OneEntityPerPlayer, QueuesTyped, UpdatesCounted
<1>8. OnePacketAFrame'
    BY <1>2, <1>3, <1>4, <1>5 DEF IInv, OnePacketAFrame, Got
<1>9. CombatAndScene' /\ EntitiesSearched'
    BY <1>2, <1>3, <1>4 DEF IInv, CombatAndScene, EntitiesSearched
<1>10. ResultsNumbered'
    BY <1>2 DEF IInv, ResultsNumbered, Got
<1> QED
    BY <1>6, <1>7, <1>8, <1>9, <1>10 DEF IInv

\* A collision of the player's asks for the battle scene, out of combat only.
LEMMA UpdateCollisionsStep == IInv /\ UpdateCollisions => IInv'
<1> SUFFICES ASSUME IInv, UpdateCollisions PROVE IInv'
    OBVIOUS
<1> USE DEF pluginQueues, waiting, playerVars, sceneVars, entityVars
<1>1. /\ netFirst \in BOOLEAN /\ phase \in 1 .. 7 /\ collisionUpdates \in Seq(CollisionUpdate)
      /\ collisionUpdatesWaiting \in Nat /\ Len(collisionUpdates) <= collisionUpdatesWaiting
    BY TypeParts DEF IInv, CountTypes, QueuesTyped, UpdatesCounted
<1>2. /\ At("collisions") /\ Proceed
      /\ UNCHANGED <<wire, sent, entityUpdates, roundWinUpdates, entityUpdatesWaiting,
                     roundWinUpdatesWaiting, scene, manager, entityVars>>
    BY DEF UpdateCollisions
<1>3. /\ netFirst' \in BOOLEAN /\ phase' \in 1 .. 7 /\ netFirst' = netFirst
      /\ At("results")' /\ ~At("entities")' /\ ~At("packet")'
      /\ ~At("collisions")' /\ ~At("scene")' /\ ~At("coroutines")' /\ ~At("load")'
      /\ ~At("packet") /\ ~At("entities") /\ ~At("results")
      /\ ~At("scene") /\ ~At("coroutines") /\ ~At("load")
    BY <1>1, <1>2, Proceeding, Places, PlacesNext
<1>4. entityUpdates = <<>> /\ loading = "none" /\ searched = 0
    BY <1>3, TypeParts DEF IInv, SceneTypes, OnePacketAFrame, CombatAndScene, EntitiesSearched
<1>5. /\ Taken(collisionUpdates, collisionUpdatesWaiting) = collisionUpdates
      /\ Left(collisionUpdates, collisionUpdatesWaiting) = <<>>
    BY <1>1, Drained
<1>6. OneEntityPerPlayer'
    BY <1>2 DEF IInv, OneEntityPerPlayer
<1>7. CASE PassCollisions
    <2>1. /\ collisionUpdates' = <<>>
          /\ UNCHANGED <<collisionUpdatesWaiting, playerVars, loading>>
        BY <1>5, <1>7 DEF PassCollisions
    <2>2. TypeOK'
        <3>1. CountTypes'
            BY <1>2, <1>3, <2>1, TypeParts DEF IInv, CountTypes
        <3>2. QueueTypes'
            <4>1. Range(collisionUpdates') = {}
                BY <2>1 DEF Range
            <4> QED
                BY <1>2, <4>1, TypeParts DEF IInv, QueueTypes
        <3>3. PlayerTypes' /\ SceneTypes' /\ EntityTypes'
            BY <1>2, <2>1, TypeParts DEF IInv, PlayerTypes, SceneTypes, EntityTypes
        <3> QED
            BY <3>1, <3>2, <3>3, TypePartsNext
    <2>3. QueuesTyped' /\ UpdatesCounted'
        BY <1>1, <1>2, <2>1 DEF IInv, QueuesTyped, UpdatesCounted
    <2>4. OnePacketAFrame'
        BY <1>2, <1>3, <1>4, <2>1 DEF IInv, OnePacketAFrame
    <2>5. CombatAndScene' /\ EntitiesSearched'
        BY <1>2, <1>3, <1>4, <2>1 DEF IInv, CombatAndScene, EntitiesSearched
    <2>6. ResultsNumbered'
        BY <1>2, <2>1 DEF IInv, ResultsNumbered, Got
    <2> QED
        BY <1>6, <2>2, <2>3, <2>4, <2>5, <2>6 DEF IInv
<1>8. CASE Collide
    <2>1. PICK k \in CollisionsWithMe :
            LET c == collisionUpdates[k] IN
            /\ collisionUpdates' = Rest(collisionUpdates, k)
            /\ collisionUpdatesWaiting' = 0
            /\ began' = c.number
            /\ SwitchToCombatScene(IF c.pair[1] = identifier THEN c.pair[2] ELSE c.pair[1])
            /\ UNCHANGED life
        BY <1>8 DEF Collide
    <2> DEFINE c == collisionUpdates[1]
    <2>2. /\ Len(collisionUpdates) = 1 /\ k = 1 /\ ~inCombat /\ c.number = Got
          /\ entityPackets = <<>>
        BY <1>1, <1>5, <2>1 DEF CollisionsWithMe, IInv, OnePacketAFrame
    <2>3. /\ collisionUpdates' = <<>> /\ collisionUpdatesWaiting' = 0
          /\ began' = Got /\ inCombat' = TRUE /\ loading' = "battle" /\ life' = life
          /\ opponentGuid' = IF c.pair[1] = identifier THEN c.pair[2] ELSE c.pair[1]
        BY <1>1, <2>1, <2>2 DEF Rest, SwitchToCombatScene
    <2>4. c.number \in 1 .. sent /\ c.pair \in Pair
        <3>1. c \in Range(collisionUpdates)
            BY <1>1, <2>2 DEF Range
        <3> QED
            BY <3>1, TypeParts DEF IInv, QueueTypes
    <2>5. opponentGuid' \in Player
        BY <2>3, <2>4, PairAssumption DEF Player
    <2>6. TypeOK'
        <3>1. CountTypes'
            BY <1>2, <1>3, <2>3, TypeParts DEF IInv, CountTypes
        <3>2. QueueTypes'
            <4>1. Range(collisionUpdates') = {}
                BY <2>3 DEF Range
            <4> QED
                BY <1>2, <4>1, TypeParts DEF IInv, QueueTypes
        <3>3. PlayerTypes'
            BY <1>2, <2>2, <2>3, <2>4, <2>5, TypeParts DEF IInv, PlayerTypes
        <3>4. SceneTypes' /\ EntityTypes'
            BY <1>2, <2>3, TypeParts DEF IInv, SceneTypes, EntityTypes
        <3> QED
            BY <3>1, <3>2, <3>3, <3>4, TypePartsNext
    <2>7. QueuesTyped' /\ UpdatesCounted'
        BY <1>1, <1>2, <2>3 DEF IInv, QueuesTyped, UpdatesCounted
    <2>8. OnePacketAFrame'
        BY <1>2, <1>3, <1>4, <2>2, <2>3 DEF OnePacketAFrame
    <2>9. CombatAndScene'
        <3>1. scene = "world" /\ (manager = None \/ manager.over)
            BY <1>4, <2>2, TypeParts DEF IInv, CombatAndScene, SceneTypes
        <3>2. Got > 0
            BY <2>2, <2>4
        <3> QED
            BY <1>2, <1>3, <2>3, <3>1, <3>2 DEF CombatAndScene
    <2>10. EntitiesSearched'
        BY <1>2, <1>4, <2>2, <2>3 DEF EntitiesSearched
    <2>11. ResultsNumbered'
        <3>1. Got \in Int /\ Got' = Got
            BY <1>2, <2>2, <2>4 DEF Got
        <3> QED
            BY <1>2, <2>3, <3>1 DEF IInv, ResultsNumbered
    <2> QED
        BY <1>6, <2>6, <2>7, <2>8, <2>9, <2>10, <2>11 DEF IInv
<1> QED
    BY <1>7, <1>8 DEF UpdateCollisions

\* A result counts in the match under way; one that finds no manager does not
\* concern the player.
LEMMA TakeResultStep ==
    ASSUME IInv, UpdateResults, TakeResult
    PROVE  IInv'
<1> USE DEF pluginQueues, waiting, playerVars, sceneVars, entityVars
<1> DEFINE r == Head(roundWinUpdates)
<1>1. /\ netFirst \in BOOLEAN /\ phase \in 1 .. 7 /\ roundWinUpdates \in Seq(ResultUpdate)
      /\ roundWinUpdatesWaiting \in Nat /\ Len(roundWinUpdates) <= roundWinUpdatesWaiting
    BY TypeParts DEF IInv, CountTypes, QueuesTyped, UpdatesCounted
<1>2. /\ At("results") /\ Stay /\ inCombat /\ roundWinUpdates # <<>>
      /\ manager' = IF Concerns(r) THEN recieveRoundWinner(manager, r) ELSE manager
      /\ roundWinUpdates' = Tail(roundWinUpdates)
      /\ roundWinUpdatesWaiting' = roundWinUpdatesWaiting - 1
      /\ UNCHANGED <<wire, sent, entityUpdates, collisionUpdates, entityUpdatesWaiting,
                     collisionUpdatesWaiting, playerVars, scene, loading, entityVars>>
    BY DEF UpdateResults, TakeResult, ResultsAwaited
<1>3. /\ netFirst' \in BOOLEAN /\ phase' \in 1 .. 7 /\ netFirst' = netFirst
      /\ (At("packet")' <=> At("packet")) /\ (At("entities")' <=> At("entities"))
      /\ (At("collisions")' <=> At("collisions")) /\ At("results")'
      /\ (At("scene")' <=> At("scene")) /\ (At("coroutines")' <=> At("coroutines"))
      /\ (At("load")' <=> At("load"))
    BY <1>1, <1>2, Staying DEF Stay
<1>4. /\ Len(roundWinUpdates') = Len(roundWinUpdates) - 1 /\ Len(roundWinUpdates) > 0
      /\ roundWinUpdates' \in Seq(ResultUpdate)
      /\ DOMAIN roundWinUpdates' = 1 .. Len(roundWinUpdates) - 1
      /\ DOMAIN roundWinUpdates = 1 .. Len(roundWinUpdates)
      /\ \A k \in DOMAIN roundWinUpdates' :
            k + 1 \in DOMAIN roundWinUpdates /\ roundWinUpdates'[k] = roundWinUpdates[k + 1]
      /\ 1 \in DOMAIN roundWinUpdates /\ r = roundWinUpdates[1]
    BY <1>1, <1>2
<1>5. identifier \in Range(Self)
    BY TypeParts DEF IInv, PlayerTypes, identifier, Range
<1>6. manager = None => manager' = None
    <2> SUFFICES ASSUME manager = None PROVE ~Concerns(r)
        BY <1>2
    <2>1. {r.winner, r.loser} \subseteq OtherPlayer
        BY <1>4 DEF IInv, ResultsNumbered
    <2> QED
        BY <1>5, <2>1, PlayerAssumption DEF Concerns
<1>7. manager # None =>
        /\ manager' \in Manager /\ manager' # None /\ manager'.number = manager.number
        /\ manager.over => manager' = manager
        /\ ~manager'.over => manager'.mine > 0 /\ manager'.theirs > 0
    <2> SUFFICES ASSUME manager # None
                 PROVE  /\ manager' \in Manager /\ manager' # None
                        /\ manager'.number = manager.number
                        /\ manager.over => manager' = manager
                        /\ ~manager'.over => manager'.mine > 0 /\ manager'.theirs > 0
        OBVIOUS
    <2>1. manager \in Manager /\ None \notin Manager
        BY TypeParts, ManagerIsSome DEF IInv, SceneTypes
    <2>2. ~manager.over => manager.mine > 0 /\ manager.theirs > 0
        BY DEF IInv, CombatAndScene
    <2>6. /\ manager.mine \in 0 .. Lives /\ manager.theirs \in 0 .. Lives
          /\ manager.number \in 1 .. MaxPackets /\ manager.over \in BOOLEAN
          /\ manager = [number |-> manager.number, over |-> manager.over,
                         mine |-> manager.mine, theirs |-> manager.theirs]
        BY <2>1 DEF Manager
    <2>3. CASE manager' = manager
        BY <2>1, <2>2, <2>3
    <2>4. CASE ~manager.over /\ manager' = [manager EXCEPT !.theirs = @ - 1,
                                                           !.over = manager.theirs <= 1]
        <3>1. /\ manager'.number = manager.number /\ manager'.mine = manager.mine
              /\ manager'.theirs = manager.theirs - 1
              /\ manager'.over <=> manager.theirs <= 1
            BY <2>1, <2>4 DEF Manager
        <3>2. manager' = [number |-> manager.number, over |-> manager.theirs <= 1,
                          mine |-> manager.mine, theirs |-> manager.theirs - 1]
            BY <2>4, <2>6
        <3>3. manager.theirs - 1 \in 0 .. Lives /\ (manager.theirs <= 1) \in BOOLEAN
            BY <2>2, <2>4, <2>6, BoundAssumption
        <3>4. manager' \in Manager
            BY <2>6, <3>2, <3>3 DEF Manager
        <3> QED
            BY <2>1, <2>2, <2>4, <2>6, <3>1, <3>4
    <2>5. CASE ~manager.over /\ manager' = [manager EXCEPT !.mine = @ - 1,
                                                           !.over = manager.mine <= 1]
        <3>1. /\ manager'.number = manager.number /\ manager'.theirs = manager.theirs
              /\ manager'.mine = manager.mine - 1
              /\ manager'.over <=> manager.mine <= 1
            BY <2>1, <2>5 DEF Manager
        <3>2. manager' = [number |-> manager.number, over |-> manager.mine <= 1,
                          mine |-> manager.mine - 1, theirs |-> manager.theirs]
            BY <2>5, <2>6
        <3>3. manager.mine - 1 \in 0 .. Lives /\ (manager.mine <= 1) \in BOOLEAN
            BY <2>2, <2>5, <2>6, BoundAssumption
        <3>4. manager' \in Manager
            BY <2>6, <3>2, <3>3 DEF Manager
        <3> QED
            BY <2>1, <2>2, <2>5, <2>6, <3>1, <3>4
    <2> QED
        BY <1>2, <2>3, <2>4, <2>5 DEF recieveRoundWinner
<1>8. TypeOK'
    <2>1. CountTypes'
        BY <1>1, <1>2, <1>3, <1>4, TypeParts DEF IInv, CountTypes
    <2>2. QueueTypes'
        <3>1. \A x \in Range(roundWinUpdates') : x \in Range(roundWinUpdates)
            BY <1>4 DEF Range
        <3> QED
            BY <1>2, <3>1, TypeParts DEF IInv, QueueTypes
    <2>3. PlayerTypes' /\ SceneTypes' /\ EntityTypes'
        BY <1>2, <1>6, <1>7, TypeParts DEF IInv, PlayerTypes, SceneTypes, EntityTypes
    <2> QED
        BY <2>1, <2>2, <2>3, TypePartsNext
<1>9. OneEntityPerPlayer' /\ QueuesTyped' /\ UpdatesCounted'
    BY <1>1, <1>2, <1>4 DEF IInv, OneEntityPerPlayer, QueuesTyped, UpdatesCounted
<1>10. OnePacketAFrame' /\ EntitiesSearched'
    BY <1>2, <1>3 DEF IInv, OnePacketAFrame, EntitiesSearched, Got
<1>11. CombatAndScene'
    BY <1>2, <1>3, <1>6, <1>7 DEF IInv, CombatAndScene
<1>12. ResultsNumbered'
    <2>1. manager = None \/ (manager' # None /\ manager'.number = manager.number)
        BY <1>7
    <2>2. manager' # None /\ ~manager'.over => manager # None /\ ~manager.over
        BY <1>6, <1>7
    <2> QED
        BY <1>2, <1>4, <1>6, <2>1, <2>2 DEF IInv, ResultsNumbered, Got
<1> QED
    BY <1>8, <1>9, <1>10, <1>11, <1>12 DEF IInv

\* The end of the loop over results; a battle asked for is then reached with
\* none left.
LEMMA UpdateResultsStep == IInv /\ UpdateResults => IInv'
<1> SUFFICES ASSUME IInv, UpdateResults, ~TakeResult PROVE IInv'
    BY TakeResultStep
<1> USE DEF pluginQueues, waiting, playerVars, sceneVars, entityVars
<1>1. /\ netFirst \in BOOLEAN /\ phase \in 1 .. 7 /\ roundWinUpdates \in Seq(ResultUpdate)
      /\ roundWinUpdatesWaiting \in Nat /\ Len(roundWinUpdates) <= roundWinUpdatesWaiting
    BY TypeParts DEF IInv, CountTypes, QueuesTyped, UpdatesCounted
<1>2. /\ At("results") /\ Proceed
      /\ UNCHANGED <<manager, roundWinUpdates>>
      /\ roundWinUpdatesWaiting' \in {0, roundWinUpdatesWaiting}
      /\ roundWinUpdatesWaiting' = 0 => Len(roundWinUpdates) = 0
      /\ inCombat => roundWinUpdates = <<>>
      /\ UNCHANGED <<wire, sent, entityUpdates, collisionUpdates, entityUpdatesWaiting,
                     collisionUpdatesWaiting, playerVars, scene, loading, entityVars>>
    BY <1>1 DEF UpdateResults, EndResults, LeaveResults, ResultsAwaited
<1>3. /\ netFirst' \in BOOLEAN /\ phase' \in 1 .. 7 /\ netFirst' = netFirst
      /\ IF netFirst THEN At("scene")' /\ ~At("coroutines")' ELSE At("coroutines")' /\ ~At("scene")'
      /\ ~At("entities")' /\ ~At("packet")' /\ ~At("collisions")' /\ ~At("results")'
      /\ ~At("load")'
      /\ ~At("packet") /\ ~At("entities") /\ ~At("collisions")
      /\ ~At("scene") /\ ~At("coroutines") /\ ~At("load")
    BY <1>1, <1>2, Proceeding, Places, PlacesNext
<1>4. TypeOK'
    BY <1>1, <1>2, <1>3, TypeParts, TypePartsNext
       DEF IInv, CountTypes, QueueTypes, PlayerTypes, SceneTypes, EntityTypes
<1>5. OneEntityPerPlayer' /\ QueuesTyped' /\ UpdatesCounted'
    BY <1>1, <1>2 DEF IInv, OneEntityPerPlayer, QueuesTyped, UpdatesCounted
<1>6. OnePacketAFrame' /\ EntitiesSearched'
    BY <1>2, <1>3 DEF IInv, OnePacketAFrame, EntitiesSearched
<1>7. CombatAndScene'
    BY <1>2, <1>3 DEF IInv, CombatAndScene
<1>8. ResultsNumbered'
    BY <1>2 DEF IInv, ResultsNumbered, Got
<1> QED
    BY <1>4, <1>5, <1>6, <1>7, <1>8 DEF IInv
-----------------------------------------------------------------------------
(* One lemma for each action: SceneController and the end of the frame.    *)

\* A packet that finds the player or an entity is used up.
LEMMA UpdateEntityStep ==
    ASSUME IInv, UpdateEntityStates, UpdateEntity
    PROVE  IInv'
<1> USE DEF pluginQueues, waiting, playerVars, sceneVars, entityVars
<1>1. /\ netFirst \in BOOLEAN /\ phase \in 1 .. 7 /\ entityPackets \in Seq(OtherPlayer)
      /\ entities \in Seq([id : OtherPlayer, lives : BOOLEAN])
      /\ searched \in 0 .. Len(entities) + 1 /\ Len(entities) \in Nat
    BY TypeParts DEF IInv, CountTypes, EntityTypes
<1> DEFINE id == IF searched = 0 THEN identifier ELSE entities[searched].id
<1>2. /\ At("scene") /\ Stay /\ entityPackets # <<>> /\ searched <= Len(entities)
      /\ entityPackets' = findAndUpdateData(entityPackets, id)
      /\ searched' = searched + 1 /\ entities' = entities
      /\ UNCHANGED <<wire, sent, pluginQueues, waiting, playerVars, sceneVars>>
    BY DEF UpdateEntityStates, UpdateEntity
<1>3. /\ netFirst' \in BOOLEAN /\ phase' \in 1 .. 7 /\ netFirst' = netFirst
      /\ (At("packet")' <=> At("packet")) /\ (At("entities")' <=> At("entities"))
      /\ (At("collisions")' <=> At("collisions")) /\ (At("results")' <=> At("results"))
      /\ At("scene")' /\ (At("coroutines")' <=> At("coroutines"))
      /\ (At("load")' <=> At("load"))
    BY <1>1, <1>2, Staying DEF Stay
<1>4. Len(entityPackets) = 1
    BY <1>2 DEF IInv, OnePacketAFrame
<1>5. entityPackets' = IF entityPackets[1] = id THEN <<>> ELSE entityPackets
    BY <1>1, <1>2, <1>4, SearchOfOne
<1>6. TypeOK'
    <2>1. CountTypes' /\ QueueTypes' /\ PlayerTypes' /\ SceneTypes'
        BY <1>2, <1>3, TypeParts DEF IInv, CountTypes, QueueTypes, PlayerTypes, SceneTypes
    <2>2. entityPackets' \in Seq(OtherPlayer)
        BY <1>1, <1>5
    <2>3. searched + 1 \in 0 .. Len(entities) + 1
        BY <1>1, <1>2
    <2>4. EntityTypes'
        BY <1>1, <1>2, <2>2, <2>3 DEF EntityTypes
    <2> QED
        BY <2>1, <2>4, TypePartsNext
<1>7. OneEntityPerPlayer' /\ QueuesTyped' /\ UpdatesCounted'
    BY <1>2 DEF IInv, OneEntityPerPlayer, QueuesTyped, UpdatesCounted
<1>8. OnePacketAFrame' /\ CombatAndScene'
    BY <1>2, <1>3, <1>5 DEF IInv, OnePacketAFrame, CombatAndScene, Got
<1>9. EntitiesSearched'
    <2>1. ASSUME entityPackets' # <<>>, NEW k \in 1 .. searched' - 1
          PROVE  entities'[k].id # entityPackets'[1]
        <3>1. entityPackets' = entityPackets /\ entityPackets[1] # id
            BY <1>5, <2>1
        <3>2. CASE k = searched
            BY <1>1, <1>2, <2>1, <3>1, <3>2
        <3>3. CASE k # searched
            <4>1. k \in 1 .. searched - 1
                BY <1>1, <1>2, <2>1, <3>3
            <4> QED
                BY <1>2, <3>1, <4>1 DEF IInv, EntitiesSearched
        <3> QED
            BY <3>2, <3>3
    <2> QED
        BY <1>2, <1>3, <2>1 DEF IInv, EntitiesSearched
<1>10. ResultsNumbered'
    BY <1>2 DEF IInv, ResultsNumbered, Got
<1> QED
    BY <1>6, <1>7, <1>8, <1>9, <1>10 DEF IInv

\* One that has found neither is of a player without an entity.
LEMMA CreateEntityStep ==
    ASSUME IInv, UpdateEntityStates, CreateEntityFromPacket
    PROVE  IInv'
<1> USE DEF pluginQueues, waiting, playerVars, sceneVars, entityVars
<1>1. /\ netFirst \in BOOLEAN /\ phase \in 1 .. 7 /\ entityPackets \in Seq(OtherPlayer)
      /\ entities \in Seq([id : OtherPlayer, lives : BOOLEAN])
      /\ searched \in 0 .. Len(entities) + 1 /\ Len(entities) \in Nat
    BY TypeParts DEF IInv, CountTypes, EntityTypes
<1> DEFINE e == [id |-> entityPackets[1], lives |-> TRUE]
<1>2. /\ At("scene") /\ Stay /\ entityPackets # <<>> /\ searched > Len(entities)
      /\ entities' = Append(entities, e) /\ entityPackets' = Tail(entityPackets)
      /\ searched' = searched + 1
      /\ UNCHANGED <<wire, sent, pluginQueues, waiting, playerVars, sceneVars>>
    BY <1>1 DEF UpdateEntityStates, CreateEntityFromPacket
<1>3. /\ netFirst' \in BOOLEAN /\ phase' \in 1 .. 7 /\ netFirst' = netFirst
      /\ (At("packet")' <=> At("packet")) /\ (At("entities")' <=> At("entities"))
      /\ (At("collisions")' <=> At("collisions")) /\ (At("results")' <=> At("results"))
      /\ At("scene")' /\ (At("coroutines")' <=> At("coroutines"))
      /\ (At("load")' <=> At("load"))
    BY <1>1, <1>2, Staying DEF Stay
<1>4. Len(entityPackets) = 1 /\ ~inCombat /\ loading = "none" /\ ~At("load")
    BY <1>1, <1>2, Places DEF IInv, OnePacketAFrame
<1>5. /\ entityPackets' = <<>> /\ entityPackets[1] \in OtherPlayer
      /\ searched = Len(entities) + 1 /\ Len(entities') = Len(entities) + 1
    BY <1>1, <1>2, <1>4
<1>6. \A k \in DOMAIN entities' :
         \/ k = searched /\ entities'[k] = e
         \/ k \in 1 .. searched - 1 /\ k \in DOMAIN entities /\ entities'[k] = entities[k]
    BY <1>1, <1>2, <1>5
<1>7. TypeOK'
    <2>1. CountTypes' /\ QueueTypes' /\ PlayerTypes' /\ SceneTypes'
        BY <1>2, <1>3, TypeParts DEF IInv, CountTypes, QueueTypes, PlayerTypes, SceneTypes
    <2>2. e \in [id : OtherPlayer, lives : BOOLEAN]
        BY <1>5
    <2>3. EntityTypes'
        BY <1>1, <1>2, <1>5, <2>2 DEF EntityTypes
    <2> QED
        BY <2>1, <2>3, TypePartsNext
<1>8. OneEntityPerPlayer'
    <2>1. \A k \in 1 .. searched - 1 : entities[k].id # entityPackets[1]
        BY <1>2 DEF IInv, EntitiesSearched
    <2> QED
        BY <1>6, <2>1 DEF IInv, OneEntityPerPlayer
<1>9. QueuesTyped' /\ UpdatesCounted' /\ OnePacketAFrame' /\ CombatAndScene'
    <2>1. QueuesTyped' /\ UpdatesCounted'
        BY <1>2 DEF IInv, QueuesTyped, UpdatesCounted
    <2>2. OnePacketAFrame'
        BY <1>2, <1>3, <1>5 DEF IInv, OnePacketAFrame, Got
    <2>3. CombatAndScene'
        BY <1>2, <1>3, <1>4 DEF IInv, CombatAndScene
    <2> QED
        BY <2>1, <2>2, <2>3
<1>10. EntitiesSearched'
    BY <1>2, <1>3, <1>5, <1>6 DEF IInv, EntitiesSearched
<1>11. ResultsNumbered'
    BY <1>2 DEF IInv, ResultsNumbered, Got
<1> QED
    BY <1>7, <1>8, <1>9, <1>10, <1>11 DEF IInv

LEMMA UpdateEntityStatesStep == IInv /\ UpdateEntityStates => IInv'
<1> SUFFICES ASSUME IInv, UpdateEntityStates, EndEntityStates PROVE IInv'
    BY UpdateEntityStep, CreateEntityStep DEF UpdateEntityStates
<1> USE DEF pluginQueues, waiting, playerVars, sceneVars, entityVars
<1>1. netFirst \in BOOLEAN /\ phase \in 1 .. 7 /\ Len(entities) \in Nat
    BY TypeParts DEF IInv, CountTypes, EntityTypes
<1>2. /\ At("scene") /\ Proceed /\ entityPackets = <<>> /\ searched' = 0
      /\ UNCHANGED <<entityPackets, entities>>
      /\ UNCHANGED <<wire, sent, pluginQueues, waiting, playerVars, sceneVars>>
    BY DEF UpdateEntityStates, EndEntityStates
<1>3. /\ netFirst' \in BOOLEAN /\ phase' \in 1 .. 7 /\ netFirst' = netFirst
      /\ IF netFirst THEN At("coroutines")' /\ ~At("packet")'
                     ELSE At("packet")' /\ ~At("coroutines")'
      /\ ~At("entities")' /\ ~At("collisions")' /\ ~At("results")'
      /\ ~At("scene")' /\ ~At("load")'
      /\ ~At("packet") /\ ~At("entities") /\ ~At("collisions")
      /\ ~At("results") /\ ~At("coroutines") /\ ~At("load")
    BY <1>1, <1>2, Proceeding, Places, PlacesNext
<1>4. TypeOK'
    BY <1>1, <1>2, <1>3, TypeParts, TypePartsNext
       DEF IInv, CountTypes, QueueTypes, PlayerTypes, SceneTypes, EntityTypes
<1>5. OneEntityPerPlayer' /\ QueuesTyped' /\ UpdatesCounted'
    BY <1>2 DEF IInv, OneEntityPerPlayer, QueuesTyped, UpdatesCounted
<1>6. OnePacketAFrame' /\ EntitiesSearched'
    BY <1>2, <1>3 DEF IInv, OnePacketAFrame, EntitiesSearched
<1>7. CombatAndScene'
    BY <1>2, <1>3 DEF IInv, CombatAndScene
<1>8. ResultsNumbered'
    BY <1>2 DEF IInv, ResultsNumbered, Got
<1> QED
    BY <1>4, <1>5, <1>6, <1>7, <1>8 DEF IInv
\* The game that is over gives the player back to the open world.
LEMMA CoroutinesStep == IInv /\ Coroutines => IInv'
<1> SUFFICES ASSUME IInv, Coroutines PROVE IInv'
    OBVIOUS
<1> USE DEF pluginQueues, waiting, playerVars, sceneVars, entityVars
<1>1. /\ netFirst \in BOOLEAN /\ phase \in 1 .. 7
      /\ entities \in Seq([id : OtherPlayer, lives : BOOLEAN])
    BY TypeParts DEF IInv, CountTypes, EntityTypes
<1>2. /\ At("coroutines") /\ Proceed
      /\ UNCHANGED <<wire, sent, pluginQueues, waiting, life, opponentGuid, began,
                     scene, manager, entityPackets, searched>>
    BY DEF Coroutines
<1>3. /\ netFirst' \in BOOLEAN /\ phase' \in 1 .. 7 /\ netFirst' = netFirst
      /\ At("load")' /\ ~At("packet")' /\ ~At("entities")' /\ ~At("collisions")'
      /\ ~At("results")' /\ ~At("scene")' /\ ~At("coroutines")'
      /\ ~At("packet") /\ ~At("entities") /\ ~At("collisions")
      /\ ~At("results") /\ ~At("scene") /\ ~At("load")
    BY <1>1, <1>2, Proceeding, Places, PlacesNext
<1>4. searched = 0 /\ entityUpdates = <<>> /\ collisionUpdates = <<>>
    BY <1>3 DEF IInv, EntitiesSearched, OnePacketAFrame
<1>5. QueuesTyped' /\ UpdatesCounted' /\ ResultsNumbered'
    BY <1>2 DEF IInv, QueuesTyped, UpdatesCounted, ResultsNumbered, Got
<1>6. CASE UNCHANGED <<entities, inCombat, loading>>
    <2>1. TypeOK'
        BY <1>2, <1>3, <1>6, TypeParts, TypePartsNext
           DEF IInv, CountTypes, QueueTypes, PlayerTypes, SceneTypes, EntityTypes
    <2>2. OneEntityPerPlayer' /\ OnePacketAFrame' /\ EntitiesSearched'
        BY <1>2, <1>3, <1>6 DEF IInv, OneEntityPerPlayer, OnePacketAFrame, EntitiesSearched
    <2>3. CombatAndScene'
        BY <1>2, <1>3, <1>6 DEF IInv, CombatAndScene
    <2> QED
        BY <1>5, <2>1, <2>2, <2>3 DEF IInv
<1>7. CASE scene = "battle" /\ manager.over /\ SwitchToOpenWorld
    <2>1. entities' = <<>> /\ inCombat' = FALSE /\ loading' = "world"
        BY <1>7 DEF SwitchToOpenWorld
    <2>2. loading = "none" /\ inCombat /\ manager # None /\ entityPackets = <<>>
        BY <1>3, <1>7, TypeParts DEF IInv, SceneTypes, CombatAndScene, OnePacketAFrame
    <2>3. TypeOK'
        <3>1. CountTypes' /\ QueueTypes' /\ PlayerTypes' /\ SceneTypes'
            BY <1>2, <1>3, <2>1, TypeParts
               DEF IInv, CountTypes, QueueTypes, PlayerTypes, SceneTypes
        <3>2. EntityTypes'
            BY <1>2, <1>4, <2>1, TypeParts DEF IInv, EntityTypes
        <3> QED
            BY <3>1, <3>2, TypePartsNext
    <2>4. OneEntityPerPlayer' /\ EntitiesSearched'
        BY <1>2, <1>4, <2>1, <2>2 DEF OneEntityPerPlayer, EntitiesSearched
    <2>5. OnePacketAFrame'
        BY <1>2, <1>4, <2>2 DEF OnePacketAFrame
    <2>6. CombatAndScene'
        BY <1>2, <1>3, <1>7, <2>1, <2>2 DEF CombatAndScene
    <2> QED
        BY <1>5, <2>3, <2>4, <2>5, <2>6 DEF IInv
<1> QED
    BY <1>6, <1>7 DEF Coroutines

\* The scene asked for replaces the one there was.
LEMMA LoadStep == IInv /\ Load => IInv'
<1> SUFFICES ASSUME IInv, Load PROVE IInv'
    OBVIOUS
<1> USE DEF pluginQueues, waiting, playerVars, sceneVars, entityVars
<1>1. /\ netFirst \in BOOLEAN /\ phase \in 1 .. 7 /\ sent \in 0 .. MaxPackets
      /\ entities \in Seq([id : OtherPlayer, lives : BOOLEAN])
    BY TypeParts DEF IInv, CountTypes, EntityTypes
<1>2. /\ At("load") /\ Proceed /\ loading' = "none"
      /\ scene' = IF loading = "none" THEN scene ELSE loading
      /\ manager' = IF loading = "battle" THEN NewManager ELSE manager
      /\ entities' = IF loading = "none" THEN entities
                     ELSE [k \in DOMAIN entities |-> [entities[k] EXCEPT !.lives = FALSE]]
      /\ life' \in DOMAIN Self
      /\ UNCHANGED <<wire, sent, pluginQueues, waiting, inCombat, opponentGuid, began,
                     entityPackets, searched>>
    BY TypeParts DEF IInv, PlayerTypes, Load
<1>3. /\ netFirst' \in BOOLEAN /\ phase' \in 1 .. 7 /\ netFirst' = netFirst
      /\ IF netFirst THEN At("packet")' /\ ~At("scene")' ELSE At("scene")' /\ ~At("packet")'
      /\ ~At("entities")' /\ ~At("collisions")' /\ ~At("results")'
      /\ ~At("coroutines")' /\ ~At("load")'
      /\ ~At("packet") /\ ~At("entities") /\ ~At("collisions")
      /\ ~At("results") /\ ~At("scene") /\ ~At("coroutines")
    BY <1>1, <1>2, Proceeding, Places, PlacesNext
<1>4. searched = 0 /\ entityUpdates = <<>> /\ collisionUpdates = <<>>
    BY <1>3 DEF IInv, EntitiesSearched, OnePacketAFrame
<1>5. loading = "battle" =>
        /\ inCombat /\ began \in 1 .. MaxPackets /\ roundWinUpdates = <<>>
        /\ began <= Got
    <2>1. began \in 0 .. MaxPackets
        BY <1>1, TypeParts, BoundAssumption DEF IInv, PlayerTypes
    <2>2. loading = "battle" => inCombat /\ began > 0 /\ roundWinUpdates = <<>>
        BY <1>3 DEF IInv, CombatAndScene
    <2> QED
        BY <2>1, <2>2 DEF IInv, ResultsNumbered
<1>6. loading = "battle" =>
        /\ manager' \in Manager /\ manager' # None /\ manager'.number = began
        /\ manager'.mine > 0 /\ manager'.theirs > 0
    <2> SUFFICES ASSUME loading = "battle"
                 PROVE  /\ manager' \in Manager /\ manager' # None
                        /\ manager'.number = began
                        /\ manager'.mine > 0 /\ manager'.theirs > 0
        OBVIOUS
    <2>1. manager' = [number |-> began, over |-> FALSE, mine |-> Lives, theirs |-> Lives]
        BY <1>2 DEF NewManager
    <2>2. Lives \in 0 .. Lives /\ Lives > 0
        BY BoundAssumption
    <2>3. manager' \in Manager
        BY <1>5, <2>1, <2>2 DEF Manager
    <2> QED
        BY <2>1, <2>2, <2>3, ManagerIsSome
<1>7. loading \in {"none", "battle", "world"}
    BY TypeParts DEF IInv, SceneTypes
<1>8. /\ entities' \in Seq([id : OtherPlayer, lives : BOOLEAN])
      /\ Len(entities') = Len(entities) /\ DOMAIN entities' = DOMAIN entities
      /\ \A k \in DOMAIN entities : entities'[k].id = entities[k].id
    <2>1. CASE loading = "none"
        BY <1>1, <1>2, <2>1
    <2>2. CASE loading # "none"
        <3> DEFINE e(k) == [entities[k] EXCEPT !.lives = FALSE]
        <3>1. entities' = [k \in 1 .. Len(entities) |-> e(k)]
            BY <1>1, <1>2, <2>2
        <3>2. \A k \in 1 .. Len(entities) :
                e(k) \in [id : OtherPlayer, lives : BOOLEAN] /\ e(k).id = entities[k].id
            <4> SUFFICES ASSUME NEW k \in 1 .. Len(entities)
                         PROVE  /\ e(k) \in [id : OtherPlayer, lives : BOOLEAN]
                                /\ e(k).id = entities[k].id
                OBVIOUS
            <4>1. entities[k] \in [id : OtherPlayer, lives : BOOLEAN]
                BY <1>1, Elements
            <4> QED
                BY <4>1
        <3>3. Len(entities) \in Nat /\ DOMAIN entities = 1 .. Len(entities)
            BY <1>1
        <3> HIDE DEF e
        <3>4. entities' \in Seq([id : OtherPlayer, lives : BOOLEAN])
            BY <3>1, <3>2, <3>3
        <3>5. DOMAIN entities' = 1 .. Len(entities)
            BY <3>1
        <3>6. Len(entities') = Len(entities)
            BY <3>1, <3>3, <3>4, <3>5
        <3> QED
            BY <3>1, <3>2, <3>3, <3>4, <3>5, <3>6
    <2> QED
        BY <2>1, <2>2
<1>9. TypeOK'
    <2>1. CountTypes' /\ QueueTypes' /\ PlayerTypes'
        BY <1>2, <1>3, TypeParts DEF IInv, CountTypes, QueueTypes, PlayerTypes
    <2>2. SceneTypes'
        BY <1>2, <1>6, <1>7, TypeParts DEF IInv, SceneTypes
    <2>3. EntityTypes'
        BY <1>2, <1>8, TypeParts DEF IInv, EntityTypes
    <2> QED
        BY <2>1, <2>2, <2>3, TypePartsNext
<1>10. OneEntityPerPlayer'
    BY <1>8 DEF IInv, OneEntityPerPlayer
<1>11. QueuesTyped' /\ UpdatesCounted'
    BY <1>2 DEF IInv, QueuesTyped, UpdatesCounted
<1>12. OnePacketAFrame'
    BY <1>2, <1>3, <1>4 DEF IInv, OnePacketAFrame
<1>13. CombatAndScene'
    <2>1. CASE loading = "none"
        BY <1>2, <1>3, <2>1 DEF IInv, CombatAndScene
    <2>2. CASE loading = "battle"
        BY <1>2, <1>5, <1>6, <2>2 DEF CombatAndScene
    <2>3. CASE loading = "world"
        BY <1>2, <2>3 DEF IInv, CombatAndScene
    <2> QED
        BY <1>7, <2>1, <2>2, <2>3
<1>14. ResultsNumbered'
    <2>1. Got' = Got
        BY <1>2 DEF Got
    <2>2. CASE loading = "battle"
        BY <1>2, <1>5, <1>6, <2>1, <2>2 DEF IInv, ResultsNumbered
    <2>3. CASE loading # "battle"
        BY <1>2, <2>1, <2>3 DEF IInv, ResultsNumbered
    <2> QED
        BY <2>2, <2>3
<1>15. EntitiesSearched'
    <2>1. entityPackets # <<>> => loading = "none"
        BY DEF IInv, OnePacketAFrame
    <2>2. CASE loading = "none"
        BY <1>2, <1>4, <2>2 DEF IInv, EntitiesSearched
    <2>3. CASE loading = "battle"
        BY <1>2, <1>4, <1>5, <2>1, <2>3 DEF EntitiesSearched
    <2>4. CASE loading = "world"
        <3>1. DOMAIN entities' = {}
            BY <1>8, <2>4 DEF IInv, CombatAndScene
        <3> QED
            BY <1>2, <1>4, <2>1, <2>4, <3>1 DEF EntitiesSearched
    <2> QED
        BY <1>7, <2>2, <2>3, <2>4
<1> QED
    BY <1>9, <1>10, <1>11, <1>12, <1>13, <1>14, <1>15 DEF IInv
-----------------------------------------------------------------------------
(* The theorems.                                                           *)

LEMMA UnchangedStep == IInv /\ UNCHANGED vars => IInv'
<1> SUFFICES ASSUME IInv, UNCHANGED vars PROVE IInv'
    OBVIOUS
<1> USE DEF vars, pluginQueues, waiting, playerVars, sceneVars, entityVars
<1>1. TypeOK'
    BY DEF IInv, TypeOK, Frame
<1>2. OneEntityPerPlayer' /\ QueuesTyped' /\ UpdatesCounted'
    BY DEF IInv, OneEntityPerPlayer, QueuesTyped, UpdatesCounted
<1>3. OnePacketAFrame' /\ EntitiesSearched'
    BY DEF IInv, OnePacketAFrame, EntitiesSearched, At, Frame, Got
<1>4. CombatAndScene' /\ ResultsNumbered'
    BY DEF IInv, CombatAndScene, ResultsNumbered, At, Frame, Got
<1> QED
    BY <1>1, <1>2, <1>3, <1>4 DEF IInv

\* Every part of a frame and every packet's arrival keeps the invariant.
THEOREM Invariance == Spec => []IInv
<1>1. IInv /\ [Next]_vars => IInv'
    BY ArriveStep, HandleNetworkingStep, UpdateEntitiesStep, UpdateCollisionsStep,
       UpdateResultsStep, UpdateEntityStatesStep, CoroutinesStep, LoadStep, UnchangedStep
       DEF Next
<1> QED
    BY <1>1, InitHolds, PTL DEF Spec

\* The types, whatever the players, lives and packets (NetworkManager,
\* SceneController and RPSManager of one client).
THEOREM TypeCorrectness == Spec => []TypeOK
<1>1. IInv => TypeOK
    BY DEF IInv
<1> QED
    BY <1>1, Invariance, PTL

\* updateEntityStates makes at most one entity for a player, because a frame
\* brings at most one entity update and it is looked for in every entity first.
THEOREM EntitiesAreUnique == Spec => []OneEntityPerPlayer
<1>1. IInv => OneEntityPerPlayer
    BY DEF IInv
<1> QED
    BY <1>1, Invariance, PTL

\* updateEntityStates never writes to an object that a change of scenes has
\* destroyed: while destroyed entities are listed the player is in combat, and
\* then updateEntities adds no update.
THEOREM UpdatesFindObjects == Spec => []UpdatesReachTheLiving
<1>1. IInv => UpdatesReachTheLiving
    BY DEF IInv, OnePacketAFrame, EntitiesSearched, UpdatesReachTheLiving
<1> QED
    BY <1>1, Invariance, PTL

\* The counts NetworkManager keeps are never below what the plugin holds.
THEOREM NothingIsStranded == Spec => []NothingStranded
<1>1. IInv => NothingStranded
    BY DEF IInv, UpdatesCounted, NothingStranded
<1> QED
    BY <1>1, Invariance, PTL

\* SwitchToCombatScene and SwitchToOpenWorld set inCombat parts of a frame
\* before the scene is there; at a frame's start the two agree again.
THEOREM SceneFollowsCombat == Spec => []SceneMatchesCombat
<1>1. IInv => SceneMatchesCombat
    <2> SUFFICES ASSUME IInv, phase = 1 PROVE SceneMatchesCombat
        BY DEF SceneMatchesCombat
    <2>1. /\ ~At("collisions") /\ ~At("results") /\ ~At("coroutines") /\ ~At("load")
          /\ netFirst => ~At("scene")
        BY TypeParts, Places DEF IInv, CountTypes
    <2>2. loading = "none"
        BY <2>1, TypeParts DEF IInv, SceneTypes, CombatAndScene
    <2> QED
        BY <2>2 DEF IInv, CombatAndScene, SceneMatchesCombat
<1> QED
    BY <1>1, Invariance, PTL

\* updateRoundWinners counts in a match only what was sent after the collision
\* that began it, although it keeps older results until a battle.
THEOREM StaleResultsAreIgnored == Spec => StaleResultsNotCounted
<1> DEFINE Fresh == At("results") /\ TakeResult /\ Concerns(Head(roundWinUpdates))
                       /\ ~manager.over => manager.number < Head(roundWinUpdates).number
<1>1. IInv => Fresh
    <2> SUFFICES ASSUME IInv, TakeResult, Concerns(Head(roundWinUpdates)), ~manager.over
                 PROVE  manager.number < Head(roundWinUpdates).number
        OBVIOUS
    <2>1. 1 \in DOMAIN roundWinUpdates /\ Head(roundWinUpdates) = roundWinUpdates[1]
        BY DEF IInv, QueuesTyped, TakeResult
    <2>2. identifier \in Range(Self)
        BY TypeParts DEF IInv, PlayerTypes, identifier, Range
    <2>3. manager # None
        BY <2>1, <2>2, PlayerAssumption DEF IInv, ResultsNumbered, Concerns
    <2> QED
        BY <2>1, <2>3 DEF IInv, ResultsNumbered
<1>2. IInv /\ [Next]_vars => [Fresh]_vars
    BY <1>1
<1> QED
    BY <1>2, Invariance, PTL DEF Spec, StaleResultsNotCounted

\* While a match is under way neither a collision nor a change of scenes can
\* replace its manager or its opponent, or end the player's combat.
THEOREM MatchesArePlayedOut == Spec => MatchIsPlayedToItsEnd
<1> USE DEF pluginQueues, waiting, playerVars, sceneVars, entityVars
<1> DEFINE Open == manager # None /\ ~manager.over
           Kept == /\ manager'.number = manager.number
                   /\ opponentGuid' = opponentGuid
                   /\ inCombat'
<1>1. IInv /\ Next => (Open => Kept)
    <2> SUFFICES ASSUME IInv, Next, Open PROVE Kept
        OBVIOUS
    <2>1. inCombat /\ loading # "battle" /\ manager \in Manager
        BY TypeParts DEF IInv, SceneTypes, CombatAndScene
    <2>2. CASE Arrive
        BY <2>1, <2>2 DEF Arrive
    <2>3. CASE HandleNetworking
        BY <2>1, <2>3 DEF HandleNetworking
    <2>4. CASE UpdateEntities
        BY <2>1, <2>4 DEF UpdateEntities
    <2>5. CASE UpdateCollisions
        <3>1. ~Collide
            BY <2>1 DEF Collide, CollisionsWithMe
        <3> QED
            BY <2>1, <2>5, <3>1 DEF UpdateCollisions, PassCollisions
    <2>6. CASE UpdateResults
        <3>1. inCombat' /\ opponentGuid' = opponentGuid
            BY <2>1, <2>6 DEF UpdateResults
        <3>2. \A r : recieveRoundWinner(manager, r).number = manager.number
            BY <2>1 DEF recieveRoundWinner, Manager
        <3>3. manager'.number = manager.number
            BY <2>6, <3>2 DEF UpdateResults, TakeResult, EndResults, LeaveResults
        <3> QED
            BY <3>1, <3>3
    <2>7. CASE UpdateEntityStates
        BY <2>1, <2>7 DEF UpdateEntityStates
    <2>8. CASE Coroutines
        BY <2>1, <2>8 DEF Coroutines
    <2>9. CASE Load
        BY <2>1, <2>9 DEF Load
    <2> QED
        BY <2>2, <2>3, <2>4, <2>5, <2>6, <2>7, <2>8, <2>9 DEF Next
<1>2. IInv /\ [Next]_vars => [Open => Kept]_vars
    BY <1>1
<1> QED
    BY <1>2, Invariance, PTL DEF Spec, MatchIsPlayedToItsEnd
=============================================================================
