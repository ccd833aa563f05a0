------------------------------ MODULE ClientNet ------------------------------
(***************************************************************************)
(* The frames of one Unity client: NetworkManager, which takes packets     *)
(* from the plugin; SceneController, which keeps the other players'        *)
(* entities and changes scenes; and, of a battle, what depends on which    *)
(* results reach RPSManager (module RPSMatch has the rest).                *)
(*                                                                         *)
(* In a frame the callbacks run one after the other on one thread; which   *)
(* of the two Updates comes first is not laid down (netFirst).  Coroutines *)
(* run after them, and a scene asked for is loaded before the next frame.  *)
(* The server and RakNet's thread are the environment (Arrive).            *)
(***************************************************************************)
EXTENDS Integers, Sequences, SequencesExt

CONSTANTS
    Self,       \* a sequence: the identifiers the local player has in turn
    OtherPlayer, \* the other players
    Pair,       \* pairs of players the server may report: as colliding, as fighting
    Lives,      \* currentLives of a new RPSPlayer
    MaxPackets, \* bound: the packets the server sends
    None        \* no manager, no opponent

ASSUME PlayerAssumption == /\ Self \in Seq(Range(Self)) /\ Self # <<>>
                           /\ Range(Self) \cap OtherPlayer = {}
ASSUME PairAssumption ==
    Pair \subseteq (Range(Self) \cup OtherPlayer) \X (Range(Self) \cup OtherPlayer)
ASSUME BoundAssumption == Lives \in Nat \ {0} /\ MaxPackets \in Nat
ASSUME NoneAssumption ==
    None \notin [number : Nat, over : BOOLEAN, mine : 0 .. Lives, theirs : 0 .. Lives]

VARIABLES
    wire,            \* RakNet's queue of received packets
    sent,            \* how many have been sent: a packet's number
    entityUpdates, collisionUpdates, roundWinUpdates, \* the plugin's queues
    entityUpdatesWaiting, collisionUpdatesWaiting, roundWinUpdatesWaiting,
    life,            \* which of Self is localPlayer.identifier
    inCombat,        \* localPlayer.inCombat
    opponentGuid,    \* RPSManager.opponentGuid
    began,           \* the number of the collision last acted upon
    scene,           \* "world" or "battle"
    loading,         \* the scene asked for, or "none"
    manager,         \* RPSManager.instance; one of a scene left stays here
    entityPackets,   \* SceneController: updates to apply
    entities,        \* SceneController: players and whether their object lives
    searched,        \* of the player and the entities: how many have been updated
    netFirst,        \* NetworkManager.Update precedes SceneController.Update
    phase            \* the part of the frame that comes next

pluginQueues == <<entityUpdates, collisionUpdates, roundWinUpdates>>
waiting == <<entityUpdatesWaiting, collisionUpdatesWaiting, roundWinUpdatesWaiting>>
playerVars == <<life, inCombat, opponentGuid, began>>
sceneVars == <<scene, loading, manager>>
entityVars == <<entityPackets, entities, searched>>
vars == <<wire, sent, pluginQueues, waiting, playerVars, sceneVars, entityVars,
          netFirst, phase>>

identifier == Self[life]
Player == Range(Self) \cup OtherPlayer

\* The parts of a frame in their order.
Frame ==
    IF netFirst
    THEN <<"packet", "entities", "collisions", "results", "scene", "coroutines", "load">>
    ELSE <<"scene", "packet", "entities", "collisions", "results", "coroutines", "load">>
At(part) == Frame[phase] = part
Proceed == /\ phase' = IF phase = Len(Frame) THEN 1 ELSE phase + 1
           /\ UNCHANGED netFirst
Stay == UNCHANGED <<netFirst, phase>>

First(queue, n) == SubSeq(queue, 1, n)
Rest(queue, n) == SubSeq(queue, n + 1, Len(queue))
\* What a loop over `count' calls of a getNext function takes.
Taken(queue, count) == First(queue, IF count < Len(queue) THEN count ELSE Len(queue))
Left(queue, count) == Rest(queue, Len(Taken(queue, count)))

-----------------------------------------------------------------------------
(* The environment.                                                        *)

\* A round is reported with its players in the order of their attacks; only a
\* player that has been in a battle has sent one.
Fought(r) == \/ {r.winner, r.loser} \subseteq OtherPlayer
             \/ /\ manager # None
                /\ {r.winner, r.loser} \subseteq OtherPlayer \cup {Self[k] : k \in 1 .. life}

Result == {[kind |-> "result", winner |-> c[1], loser |-> c[2], draw |-> d] :
              c \in Pair, d \in BOOLEAN}

\* "notice" stands for a connection notice.
Packet == {[kind |-> "entity", id |-> q] : q \in OtherPlayer}
          \cup {[kind |-> "collision", pair |-> c] : c \in Pair}
          \cup Result \cup {[kind |-> "notice"]}

\* A packet reaches RakNet's queue.
Arrive ==
    /\ sent < MaxPackets
    /\ \E p \in Packet : /\ p.kind = "result" => Fought(p)
                        /\ wire' = Append(wire, p)
    /\ sent' = sent + 1
    /\ UNCHANGED <<pluginQueues, waiting, playerVars, sceneVars, entityVars,
                   netFirst, phase>>

-----------------------------------------------------------------------------
(* NetworkManager.Update and the plugin.                                   *)

Number == sent - Len(wire) + 1      \* of the packet at the head of the wire

ReceiveEntity(p) ==
    /\ p.kind = "entity"
    /\ entityUpdates' = Append(entityUpdates, p.id)
    /\ entityUpdatesWaiting' = entityUpdatesWaiting + 1
    /\ UNCHANGED <<collisionUpdates, roundWinUpdates,
                   collisionUpdatesWaiting, roundWinUpdatesWaiting>>

ReceiveCollision(p) ==
    /\ p.kind = "collision"
    /\ collisionUpdates' = Append(collisionUpdates, [pair |-> p.pair, number |-> Number])
    /\ collisionUpdatesWaiting' = collisionUpdatesWaiting + 1
    /\ UNCHANGED <<entityUpdates, roundWinUpdates,
                   entityUpdatesWaiting, roundWinUpdatesWaiting>>

ReceiveRoundWin(p) ==
    /\ p.kind = "result"
    /\ roundWinUpdates' = Append(roundWinUpdates,
          [winner |-> p.winner, loser |-> p.loser, draw |-> p.draw, number |-> Number])
    /\ roundWinUpdatesWaiting' = roundWinUpdatesWaiting + 1
    /\ UNCHANGED <<entityUpdates, collisionUpdates,
                   entityUpdatesWaiting, collisionUpdatesWaiting>>

\* The packet's type is read from the packet after it was given back, so it
\* may be taken for any other.
ReceiveNotice(p) ==
    /\ p.kind = "notice"
    /\ \E mistaken \in {<<0, 0, 0>>, <<1, 0, 0>>, <<0, 1, 0>>, <<0, 0, 1>>} :
          /\ entityUpdatesWaiting' = entityUpdatesWaiting + mistaken[1]
          /\ collisionUpdatesWaiting' = collisionUpdatesWaiting + mistaken[2]
          /\ roundWinUpdatesWaiting' = roundWinUpdatesWaiting + mistaken[3]
    /\ UNCHANGED pluginQueues

handlePacket(p) == \/ ReceiveEntity(p) \/ ReceiveCollision(p)
                   \/ ReceiveRoundWin(p) \/ ReceiveNotice(p)

\* Mutant of HandleNetworking: the frame goes on taking packets.
HandleNetworkingAgain ==
    /\ At("packet")
    /\ IF wire = <<>> THEN Proceed /\ UNCHANGED <<wire, pluginQueues, waiting>>
       ELSE /\ handlePacket(Head(wire)) /\ wire' = Tail(wire)
            /\ UNCHANGED <<phase, netFirst>>
    /\ UNCHANGED <<sent, playerVars, sceneVars, entityVars>>

\* HandleNetworking: at most one packet in a frame.
HandleNetworking ==
    /\ At("packet")
    /\ IF wire = <<>> THEN UNCHANGED <<wire, pluginQueues, waiting>>
                      ELSE handlePacket(Head(wire)) /\ wire' = Tail(wire)
    /\ Proceed
    /\ UNCHANGED <<sent, playerVars, sceneVars, entityVars>>

UpdateEntities ==
    /\ At("entities")
    /\ entityUpdates' = Left(entityUpdates, entityUpdatesWaiting)
    /\ entityPackets' = IF inCombat THEN entityPackets
                        ELSE entityPackets \o Taken(entityUpdates, entityUpdatesWaiting)
    /\ entityUpdatesWaiting' = 0
    /\ Proceed
    /\ UNCHANGED <<wire, sent, collisionUpdates, roundWinUpdates,
                   collisionUpdatesWaiting, roundWinUpdatesWaiting, playerVars,
                   sceneVars, entities, searched>>

\* Mutant of CollisionsWithMe: one met during a battle counts.
CollisionsEvenInCombat ==
    {k \in 1 .. Len(Taken(collisionUpdates, collisionUpdatesWaiting)) :
        identifier \in Range(collisionUpdates[k].pair)}

\* The positions of the updates taken that lead to a battle.
CollisionsWithMe ==
    {k \in 1 .. Len(Taken(collisionUpdates, collisionUpdatesWaiting)) :
        ~inCombat /\ identifier \in Range(collisionUpdates[k].pair)}

SwitchToCombatScene(opponent) ==
    /\ opponentGuid' = opponent
    /\ inCombat' = TRUE
    /\ loading' = "battle"

\* None does; the count of updates waiting is left as it is.
PassCollisions ==
    /\ CollisionsWithMe = {}
    /\ collisionUpdates' = Left(collisionUpdates, collisionUpdatesWaiting)
    /\ UNCHANGED <<collisionUpdatesWaiting, playerVars, loading>>

\* The first one does; the loop ends there.
Collide ==
    \E k \in CollisionsWithMe :
      LET c == collisionUpdates[k] IN
      /\ \A j \in CollisionsWithMe : k <= j
      /\ collisionUpdates' = Rest(collisionUpdates, k)
      /\ collisionUpdatesWaiting' = 0
      /\ began' = c.number
      /\ SwitchToCombatScene(IF c.pair[1] = identifier THEN c.pair[2] ELSE c.pair[1])
      /\ UNCHANGED life

UpdateCollisions ==
    /\ At("collisions")
    /\ PassCollisions \/ Collide
    /\ Proceed
    /\ UNCHANGED <<wire, sent, entityUpdates, roundWinUpdates, entityUpdatesWaiting,
                   roundWinUpdatesWaiting, scene, manager, entityVars>>

\* Mutant of recieveRoundWinner: a game that is over goes on.
recieveRoundWinnerOver(m, r) ==
    IF r.draw THEN m
    ELSE IF r.winner = identifier
         THEN [m EXCEPT !.theirs = @ - 1, !.over = m.theirs <= 1]
         ELSE [m EXCEPT !.mine = @ - 1, !.over = m.mine <= 1]

\* A manager m after one result; one that is over ignores it.
recieveRoundWinner(m, r) ==
    IF m.over \/ r.draw THEN m
    ELSE IF r.winner = identifier
         THEN [m EXCEPT !.theirs = @ - 1, !.over = m.theirs <= 1]
         ELSE [m EXCEPT !.mine = @ - 1, !.over = m.mine <= 1]

\* Mutant of ResultsAwaited: they wait for the battle scene.
ResultsAwaitedThere == roundWinUpdatesWaiting > 0 /\ scene = "battle"

ResultsAwaited == roundWinUpdatesWaiting > 0 /\ inCombat
Concerns(r) == identifier \in {r.winner, r.loser}

\* The loop over the results awaited: the next one, ...
TakeResult ==
    /\ ResultsAwaited /\ roundWinUpdates # <<>>
    /\ LET r == Head(roundWinUpdates) IN
       manager' = IF Concerns(r) THEN recieveRoundWinner(manager, r) ELSE manager
    /\ roundWinUpdates' = Tail(roundWinUpdates)
    /\ roundWinUpdatesWaiting' = roundWinUpdatesWaiting - 1
    /\ Stay

\* ... and its end, also when fewer have come than were counted.
EndResults ==
    /\ ResultsAwaited /\ roundWinUpdates = <<>>
    /\ roundWinUpdatesWaiting' = 0
    /\ UNCHANGED <<manager, roundWinUpdates>>
    /\ Proceed

\* Mutant of LeaveResults: the count is reset.
LeaveResultsUncounted ==
    /\ ~ResultsAwaited
    /\ roundWinUpdatesWaiting' = 0
    /\ UNCHANGED <<manager, roundWinUpdates>>
    /\ Proceed

LeaveResults ==
    /\ ~ResultsAwaited
    /\ UNCHANGED <<manager, roundWinUpdates, roundWinUpdatesWaiting>>
    /\ Proceed

UpdateResults ==
    /\ At("results")
    /\ TakeResult \/ EndResults \/ LeaveResults
    /\ UNCHANGED <<wire, sent, entityUpdates, collisionUpdates, entityUpdatesWaiting,
                   collisionUpdatesWaiting, playerVars, scene, loading, entityVars>>

-----------------------------------------------------------------------------
(* SceneController.                                                        *)

\* findAndUpdateData: the first packet for id is taken out, those before it
\* have moved behind the others.
findAndUpdateData(packets, id) ==
    LET found == {k \in DOMAIN packets : packets[k] = id}
        k == CHOOSE i \in found : \A j \in found : i <= j
    IN IF found = {} THEN packets ELSE Rest(packets, k) \o First(packets, k - 1)

\* The player, then the entities, look for their packets, ...
UpdateEntity ==
    /\ entityPackets # <<>> /\ searched <= Len(entities)
    /\ entityPackets' = findAndUpdateData(entityPackets,
                           IF searched = 0 THEN identifier ELSE entities[searched].id)
    /\ searched' = searched + 1
    /\ UNCHANGED entities
    /\ Stay

\* ... those that are left make new entities, ...
CreateEntityFromPacket ==
    /\ entityPackets # <<>> /\ searched > Len(entities)
    /\ entities' = Append(entities, [id |-> Head(entityPackets), lives |-> TRUE])
    /\ entityPackets' = Tail(entityPackets)
    /\ searched' = searched + 1
    /\ Stay

\* ... until there are none; looking among none changes nothing.
EndEntityStates ==
    /\ entityPackets = <<>>
    /\ searched' = 0
    /\ UNCHANGED <<entityPackets, entities>>
    /\ Proceed

UpdateEntityStates ==
    /\ At("scene")
    /\ UpdateEntity \/ CreateEntityFromPacket \/ EndEntityStates
    /\ UNCHANGED <<wire, sent, pluginQueues, waiting, playerVars, sceneVars>>

\* Mutants of SwitchToOpenWorld: the entities are kept, the player stays in combat.
SwitchToOpenWorldKeeping ==
    /\ UNCHANGED entities
    /\ inCombat' = FALSE
    /\ loading' = "world"

SwitchToOpenWorldFighting ==
    /\ entities' = <<>>
    /\ UNCHANGED inCombat
    /\ loading' = "world"

SwitchToOpenWorld ==
    /\ entities' = <<>>
    /\ inCombat' = FALSE
    /\ loading' = "world"

\* returnToOpenScene of a game that is over, two seconds after it ended.
Coroutines ==
    /\ At("coroutines")
    /\ \/ /\ scene = "battle" /\ manager.over
          /\ SwitchToOpenWorld
       \/ UNCHANGED <<entities, inCombat, loading>>
    /\ Proceed
    /\ UNCHANGED <<wire, sent, pluginQueues, waiting, life, opponentGuid, began,
                   scene, manager, entityPackets, searched>>

NewManager == [number |-> began, over |-> FALSE, mine |-> Lives, theirs |-> Lives]

\* A scene is loaded: what the former one held is destroyed.  The open world
\* brings another player object, and SceneController.Awake may find that one.
Load ==
    /\ At("load")
    /\ scene' = IF loading = "none" THEN scene ELSE loading
    /\ loading' = "none"
    /\ manager' = IF loading = "battle" THEN NewManager ELSE manager
    /\ entities' = IF loading = "none" THEN entities
                   ELSE [k \in DOMAIN entities |-> [entities[k] EXCEPT !.lives = FALSE]]
    /\ life' \in IF loading = "world" THEN {life, life + 1} \cap DOMAIN Self ELSE {life}
    /\ Proceed
    /\ UNCHANGED <<wire, sent, pluginQueues, waiting, inCombat, opponentGuid, began,
                   entityPackets, searched>>

-----------------------------------------------------------------------------
Init ==
    /\ wire = <<>> /\ sent = 0
    /\ entityUpdates = <<>> /\ collisionUpdates = <<>> /\ roundWinUpdates = <<>>
    /\ entityUpdatesWaiting = 0 /\ collisionUpdatesWaiting = 0
    /\ roundWinUpdatesWaiting = 0
    /\ life = 1 /\ inCombat = FALSE /\ opponentGuid = None /\ began = 0
    /\ scene = "world" /\ loading = "none" /\ manager = None
    /\ entityPackets = <<>> /\ entities = <<>> /\ searched = 0
    /\ netFirst \in BOOLEAN /\ phase = 1

Next == \/ Arrive
        \/ HandleNetworking \/ UpdateEntities \/ UpdateCollisions \/ UpdateResults
        \/ UpdateEntityStates \/ Coroutines \/ Load

Spec == Init /\ [][Next]_vars

-----------------------------------------------------------------------------
(* Properties.                                                             *)

Manager == [number : 1 .. MaxPackets, over : BOOLEAN, mine : 0 .. Lives,
            theirs : 0 .. Lives]

\* Types; of the fields a battle ends by, no side loses more lives than it has.
TypeOK ==
    /\ sent \in 0 .. MaxPackets /\ Len(wire) <= sent
    /\ entityUpdates \in Seq(OtherPlayer)
    /\ \A c \in Range(collisionUpdates) : c.pair \in Pair /\ c.number \in 1 .. sent
    /\ \A r \in Range(roundWinUpdates) :
          {r.winner, r.loser} \subseteq Player /\ r.number \in 1 .. sent
    /\ {entityUpdatesWaiting, collisionUpdatesWaiting, roundWinUpdatesWaiting} \subseteq Nat
    /\ life \in DOMAIN Self /\ inCombat \in BOOLEAN
    /\ opponentGuid \in Player \cup {None} /\ began \in 0 .. sent
    /\ scene \in {"world", "battle"} /\ loading \in {"none", "world", "battle"}
    /\ manager \in Manager \cup {None}
    /\ entityPackets \in Seq(OtherPlayer)
    /\ entities \in Seq([id : OtherPlayer, lives : BOOLEAN])
    /\ searched \in 0 .. Len(entities) + 1
    /\ netFirst \in BOOLEAN /\ phase \in 1 .. Len(Frame)

\* SceneController keeps one entity for a player: updateEntityStates creates one
\* for every packet it has not found an entity for, so two packets of a new
\* player in one frame would make two.
OneEntityPerPlayer ==
    \A j, k \in DOMAIN entities : entities[j].id = entities[k].id => j = k

\* An update is only ever applied to an entity whose object is there: those of
\* a scene that was left are forgotten before the next update arrives.
UpdatesReachTheLiving ==
    entityPackets # <<>> => \A k \in DOMAIN entities : entities[k].lives

\* An update the plugin holds is counted by NetworkManager, so that it is
\* taken in the end; the counts may be too high, never too low.
NothingStranded ==
    At("packet") => /\ Len(entityUpdates) <= entityUpdatesWaiting
                    /\ Len(collisionUpdates) <= collisionUpdatesWaiting
                    /\ Len(roundWinUpdates) <= roundWinUpdatesWaiting

\* Between frames the player is in combat just when the battle scene is there,
\* with a manager made for the last collision acted upon.
SceneMatchesCombat ==
    phase = 1 => /\ loading = "none"
                 /\ inCombat <=> scene = "battle"
                 /\ scene = "battle" => manager # None /\ manager.number = began

\* A result that was sent before the collision which began a match does not
\* count in it, however long it waited in the plugin for a battle.
StaleResultsNotCounted ==
    [][At("results") /\ TakeResult /\ Concerns(Head(roundWinUpdates)) /\ ~manager.over
          => manager.number < Head(roundWinUpdates).number]_vars

\* A match that has begun goes on until one side has lost all its lives,
\* against the same opponent, whatever other collisions are reported.
MatchIsPlayedToItsEnd ==
    [][manager # None /\ ~manager.over =>
          /\ manager'.number = manager.number
          /\ opponentGuid' = opponentGuid
          /\ inCombat']_vars

-----------------------------------------------------------------------------
(* Why they hold.                                                          *)

\* How many packets NetworkManager has taken.
Got == sent - Len(wire)

CollisionUpdate == [pair : Pair, number : Nat]
ResultUpdate == [winner : Player, loser : Player, draw : BOOLEAN, number : Nat]

\* What the queues hold.
QueuesTyped ==
    /\ wire \in Seq(Packet)
    /\ collisionUpdates \in Seq(CollisionUpdate)
    /\ roundWinUpdates \in Seq(ResultUpdate)

\* A frame takes one packet, and what is not a result is gone by the next.
OnePacketAFrame ==
    /\ entityUpdates # <<>> =>
          At("entities") /\ Len(entityUpdates) = 1 /\ collisionUpdates = <<>>
    /\ collisionUpdates # <<>> =>
          /\ At("entities") \/ At("collisions")
          /\ Len(collisionUpdates) = 1 /\ collisionUpdates[1].number = Got
    /\ entityPackets # <<>> =>
          /\ Len(entityPackets) = 1 /\ collisionUpdates = <<>>
          /\ ~inCombat /\ loading = "none"
          /\ \/ At("collisions") \/ At("results") \/ At("scene")
             \/ ~netFirst /\ (At("coroutines") \/ At("load"))

UpdatesCounted ==
    /\ Len(entityUpdates) <= entityUpdatesWaiting
    /\ Len(collisionUpdates) <= collisionUpdatesWaiting
    /\ Len(roundWinUpdates) <= roundWinUpdatesWaiting

\* The player, its scene, the one asked for and the manager.
CombatAndScene ==
    /\ loading = "none" =>
          /\ inCombat <=> scene = "battle"
          /\ scene = "battle" => manager # None /\ manager.number = began
    /\ loading = "battle" =>
          /\ inCombat /\ scene = "world" /\ began > 0
          /\ manager = None \/ manager.over
          /\ \/ At("results") \/ At("coroutines") \/ At("load")
             \/ netFirst /\ At("scene")
          /\ At("results") \/ roundWinUpdates = <<>>
    /\ loading = "world" =>
          ~inCombat /\ manager # None /\ At("load") /\ entities = <<>>
    /\ manager # None /\ ~manager.over =>
          inCombat /\ manager.mine > 0 /\ manager.theirs > 0

\* Results are younger than the match they count in, and none concerns the
\* player before its first.
ResultsNumbered ==
    /\ began <= Got /\ (manager # None => manager.number <= Got)
    /\ \A k \in DOMAIN roundWinUpdates :
          LET r == roundWinUpdates[k] IN
          /\ 1 <= r.number /\ r.number <= Got
          /\ manager # None /\ ~manager.over => manager.number < r.number
          /\ manager # None \/ {r.winner, r.loser} \subseteq OtherPlayer
    /\ \A k \in DOMAIN wire :
          wire[k].kind = "result" =>
            manager # None \/ {wire[k].winner, wire[k].loser} \subseteq OtherPlayer

\* The entities searched so far do not have the packet's identifier; those of
\* a destroyed scene are not searched.
EntitiesSearched ==
    /\ searched # 0 => At("scene")
    /\ entityPackets # <<>> =>
          \A k \in 1 .. searched - 1 : entities[k].id # entityPackets[1]
    /\ ~inCombat => \A k \in DOMAIN entities : entities[k].lives

IInv ==
    /\ TypeOK /\ OneEntityPerPlayer
    /\ QueuesTyped /\ OnePacketAFrame /\ UpdatesCounted
    /\ CombatAndScene /\ ResultsNumbered /\ EntitiesSearched
=============================================================================
