-------------------------------- MODULE Game --------------------------------
(***************************************************************************)
(* The whole game: clients that meet, fight and return, the server that    *)
(* sees of them what their packets say, and the packets between.           *)
(*                                                                         *)
(* The clients are abstractions of ClientNet and RPSMatch, the server one  *)
(* of GameServer: an action here is many steps there.  Who is near whom,   *)
(* what is attacked with, and the order of the server's lists are left     *)
(* open.  What is kept is what each end believes of the others, and how    *)
(* late.                                                                   *)
(*                                                                         *)
(* All packets go RELIABLE_SEQUENCED on one channel: none is delivered     *)
(* after a later one, and one that is overtaken is dropped.  Updates       *)
(* follow each other ten times a second in both directions, so any packet  *)
(* may be overtaken.                                                       *)
(*                                                                         *)
(* Things that go wrong without any step being wrong are recorded in       *)
(* `mishap'; the properties say which of them they hold in spite of.       *)
(***************************************************************************)
EXTENDS Integers, Sequences, SequencesExt

CONSTANTS
    Player,
    Lives,          \* currentLives of a new RPSPlayer
    Reach,          \* the collision radius of a player's prefab
    MaxUp,          \* bound: packets on the way from a client
    MaxMeetings,    \* bound: collisions reported
    MayHappen,      \* the mishaps that are steps: at most one happens
    Late,           \* bound: who may press Return in the last second
    None            \* no opponent, no record

ASSUME BoundAssumption == {Lives, MaxUp, MaxMeetings} \subseteq Nat \ {0}
ASSUME ReachAssumption == Reach \in Nat \ {0}

NoReach == -1       \* DelayCombat.cs
Radius == {NoReach, Reach}

ASSUME NoneAssumption == None \notin Player \cup Radius

VARIABLES
    place,          \* where each client is
    opponent,       \* RPSManager.opponentGuid
    mine, theirs,   \* the lives of player and opponent in RPSManager
    collisionRadius, \* of the local player
    defaultRadius,  \* what combatDelay will restore, or None if none is running
    renamed,        \* the clients whose identifier changed
    again,          \* the clients that will send their attack once more
    up,             \* packets from each client
    down,           \* packets to each client that name it
    record,         \* pendingPlayerUpdates: what the server has of a player
    attack,         \* pendingAttackers: the opponent a player's attack names
    met,            \* how many collisions the server has reported
    mishap

clientVars == <<place, opponent, mine, theirs, collisionRadius, defaultRadius,
                renamed, again>>
serverVars == <<record, attack, met>>
vars == <<clientVars, up, down, serverVars, mishap>>

Delaying(p) == defaultRadius[p] # None
Fighting(p) == place[p] \in {"choosing", "waiting", "over"}   \* inCombat
\* Bound: one of the mishaps that are steps in a behaviour.
Undisturbed == mishap \cap (MayHappen \cup {"resent"}) = {}
Happens(m) == mishap' = mishap \cup {m}

\* What clients and server send.
Update(p) == [kind |-> "update", named |-> p \notin renamed,
              inCombat |-> Fighting(p), radius |-> collisionRadius[p]]
AttackOn(q) == [kind |-> "attack", opponent |-> q]
CollisionOf(c, t) == [kind |-> "collision", pair |-> <<c, t>>]
ResultOf(w, l, draw) == [kind |-> "result", pair |-> <<w, l>>, isDraw |-> draw]

\* Mutant of Broadcast: the packet is sent to the first player it names.
BroadcastToFirst(channel, pkt) ==
    [p \in Player |-> IF p = pkt.pair[1] /\ place[p] # "gone"
                      THEN Append(channel[p], pkt) ELSE channel[p]]

\* A packet is broadcast; a client that it does not name ignores it.
Broadcast(channel, pkt) ==
    [p \in Player |-> IF p \in {pkt.pair[1], pkt.pair[2]} /\ place[p] # "gone"
                      THEN Append(channel[p], pkt) ELSE channel[p]]

Popped(channel, p) == [channel EXCEPT ![p] = Tail(@)]
Arrives(channel, p, kind) == channel[p] # <<>> /\ Head(channel[p]).kind = kind

-----------------------------------------------------------------------------
(* A client.                                                               *)

\* NetworkManager.Update, at its interval.  A packet equal to the last one on
\* the way would change nothing that this one does not.
SendEntity(p) ==
    /\ place[p] # "gone" /\ Len(up[p]) < MaxUp
    /\ up[p] # <<>> => Last(up[p]) # Update(p)
    /\ up' = [up EXCEPT ![p] = Append(@, Update(p))]
    /\ UNCHANGED <<clientVars, down, serverVars, mishap>>

Opponent(p, pair) == IF pair[1] = p THEN pair[2] ELSE pair[1]

\* SwitchToCombatScene, and the RPSManager of the new scene.  The scene takes
\* DelayCombat with it, and a combatDelay that was running.
SwitchToCombatScene(p, q) ==
    /\ place' = [place EXCEPT ![p] = "choosing"]
    /\ opponent' = [opponent EXCEPT ![p] = q]
    /\ mine' = [mine EXCEPT ![p] = Lives]
    /\ theirs' = [theirs EXCEPT ![p] = Lives]
    /\ defaultRadius' = [defaultRadius EXCEPT ![p] = None]
    /\ IF Delaying(p) THEN "hurried" \in MayHappen /\ Undisturbed /\ Happens("hurried")
                      ELSE UNCHANGED mishap
    /\ UNCHANGED <<collisionRadius, renamed, again>>

TakeCollision(p) ==
    /\ Arrives(down, p, "collision")
    /\ IF place[p] = "world" /\ p \notin renamed
       THEN SwitchToCombatScene(p, Opponent(p, Head(down[p]).pair))
       ELSE UNCHANGED <<clientVars, mishap>>
    /\ down' = Popped(down, p)
    /\ UNCHANGED <<up, serverVars>>

\* endSelectionStage: the player's choice, or the countdown's.  If it is the
\* player's within the last second, the countdown will reach 0 all the same.
Choose(p) ==
    /\ place[p] = "choosing" /\ p \notin again /\ Len(up[p]) < MaxUp
    /\ up' = [up EXCEPT ![p] = Append(@, AttackOn(opponent[p]))]
    /\ place' = [place EXCEPT ![p] = "waiting"]
    /\ \/ UNCHANGED <<again, mishap>>
       \/ /\ p \in Late /\ Undisturbed
          /\ Happens("resent")
          /\ again' = again \cup {p}
    /\ UNCHANGED <<opponent, mine, theirs, collisionRadius, defaultRadius,
                   renamed, down, serverVars>>

\* endSelectionStage once more, by timerCountdown, which asks neither whether the
\* attack has been sent nor whether the game is over; or in a turn begun twice.
ChooseAgain(p) ==
    /\ p \in again /\ Fighting(p) /\ Len(up[p]) < MaxUp
    /\ up' = [up EXCEPT ![p] = Append(@, AttackOn(opponent[p]))]
    /\ again' = again \ {p}
    /\ UNCHANGED <<place, opponent, mine, theirs, collisionRadius, defaultRadius,
                   renamed, down, serverVars, mishap>>

\* Mutants of recieveRoundWinner: a draw costs each client a life; a match goes
\* on when there are no lives left.
recieveRoundWinnerDrawn(p, r) ==
    /\ mine' = [mine EXCEPT ![p] = IF r.isDraw \/ r.pair[1] # p THEN @ - 1 ELSE @]
    /\ theirs' = [theirs EXCEPT ![p] =
                    IF ~r.isDraw /\ r.pair[1] = p THEN @ - 1 ELSE @]
    /\ place' = [place EXCEPT ![p] = IF mine'[p] > 0 /\ theirs'[p] > 0
                                     THEN "choosing" ELSE "over"]

recieveRoundWinnerLate(p, r) ==
    /\ mine' = [mine EXCEPT ![p] =
                  IF ~r.isDraw /\ r.pair[1] # p THEN @ - 1 ELSE @]
    /\ theirs' = [theirs EXCEPT ![p] =
                    IF ~r.isDraw /\ r.pair[1] = p THEN @ - 1 ELSE @]
    /\ place' = [place EXCEPT ![p] = IF mine'[p] >= 0 /\ theirs'[p] >= 0
                                     THEN "choosing" ELSE "over"]

\* recieveRoundWinner: whoever the other player was.  The two seconds for
\* which the attacks are shown before the next turn are left out.
recieveRoundWinner(p, r) ==
    /\ mine' = [mine EXCEPT ![p] =
                  IF ~r.isDraw /\ r.pair[1] # p THEN @ - 1 ELSE @]
    /\ theirs' = [theirs EXCEPT ![p] =
                    IF ~r.isDraw /\ r.pair[1] = p THEN @ - 1 ELSE @]
    /\ place' = [place EXCEPT ![p] = IF mine'[p] > 0 /\ theirs'[p] > 0
                                     THEN "choosing" ELSE "over"]

\* A result that finds no battle is taken by the manager of the last one, which
\* is over (ClientNet.StaleResultsNotCounted).  One that comes before the attack
\* is sent begins the turn a second time, and another attack may be sent in it.
TakeResult(p) ==
    /\ Arrives(down, p, "result")
    /\ IF place[p] \in {"choosing", "waiting"}
       THEN recieveRoundWinner(p, Head(down[p]))
       ELSE UNCHANGED <<mine, theirs, place>>
    /\ again' \in IF place[p] = "choosing" THEN {again, again \cup {p}} ELSE {again}
    /\ down' = Popped(down, p)
    /\ UNCHANGED <<opponent, collisionRadius, defaultRadius, renamed, up,
                   serverVars, mishap>>

\* DelayCombat.Start of the open world that is loaded.
StartDelay(p, radius) ==
    /\ defaultRadius' = [defaultRadius EXCEPT ![p] = radius]
    /\ collisionRadius' = [collisionRadius EXCEPT ![p] = NoReach]

\* SwitchToOpenWorld, two seconds after the game is over.  SceneController may
\* find the scene's own player object there, which has another identifier.
SwitchToOpenWorld(p) ==
    /\ place[p] = "over"
    /\ place' = [place EXCEPT ![p] = "world"]
    /\ opponent' = [opponent EXCEPT ![p] = None]
    /\ mine' = [mine EXCEPT ![p] = Lives] /\ theirs' = [theirs EXCEPT ![p] = Lives]
    /\ \/ /\ StartDelay(p, collisionRadius[p])
          /\ UNCHANGED <<renamed, mishap>>
       \/ /\ "renamed" \in MayHappen /\ Undisturbed
          /\ Happens("renamed")
          /\ renamed' = renamed \cup {p}
          /\ StartDelay(p, Reach)
    /\ again' = again \ {p}
    /\ UNCHANGED <<up, down, serverVars>>

\* Mutant of combatDelay: the radius stays as it is.
combatDelayForgotten(p) ==
    /\ Delaying(p)
    /\ defaultRadius' = [defaultRadius EXCEPT ![p] = None]
    /\ UNCHANGED <<collisionRadius, place, opponent, mine, theirs, renamed, again,
                   up, down, serverVars, mishap>>

\* Four seconds later.
combatDelay(p) ==
    /\ Delaying(p)
    /\ collisionRadius' = [collisionRadius EXCEPT ![p] = defaultRadius[p]]
    /\ defaultRadius' = [defaultRadius EXCEPT ![p] = None]
    /\ UNCHANGED <<place, opponent, mine, theirs, renamed, again, up, down,
                   serverVars, mishap>>

\* OnApplicationQuit.
Quit(p) ==
    /\ place[p] # "gone" /\ "left" \in MayHappen /\ Undisturbed
    /\ place' = [place EXCEPT ![p] = "gone"]
    /\ opponent' = [opponent EXCEPT ![p] = None]
    /\ mine' = [mine EXCEPT ![p] = Lives] /\ theirs' = [theirs EXCEPT ![p] = Lives]
    /\ collisionRadius' = [collisionRadius EXCEPT ![p] = Reach]
    /\ defaultRadius' = [defaultRadius EXCEPT ![p] = None]
    /\ again' = again \ {p}
    /\ down' = [down EXCEPT ![p] = <<>>]
    /\ Happens("left")
    /\ UNCHANGED <<renamed, up, serverVars>>

-----------------------------------------------------------------------------
(* The channels.                                                           *)

Overtaken ==
    /\ "overtaken" \in MayHappen /\ Undisturbed
    /\ \E p \in Player :
          \/ Arrives(up, p, "attack") /\ up' = Popped(up, p) /\ UNCHANGED down
          \/ down[p] # <<>> /\ down' = Popped(down, p) /\ UNCHANGED up
    /\ Happens("overtaken")
    /\ UNCHANGED <<clientVars, serverVars>>

-----------------------------------------------------------------------------
(* The server.                                                             *)

\* p has been put in combat, and its client knows or will know.
Engaged(p) == \/ Fighting(p)
              \/ \E k \in DOMAIN down[p] : down[p][k].kind = "collision"

\* Mutant of FileUpdate: a player put in combat stays in combat.
FileUpdateKeeping(p) ==
    /\ Arrives(up, p, "update")
    /\ LET pkt == Head(up[p])
           engaged == record[p] # None /\ record[p].inCombat
       IN record' = IF pkt.named
                    THEN [record EXCEPT ![p] = [inCombat |-> pkt.inCombat \/ engaged,
                                                radius |-> pkt.radius]]
                    ELSE record
    /\ up' = Popped(up, p)
    /\ UNCHANGED <<clientVars, down, attack, met, mishap>>

\* UPDATE_NETWORK_PLAYER: the record is replaced whatever the scan has written
\* in it; an update under another identifier is ignored.
FileUpdate(p) ==
    /\ Arrives(up, p, "update")
    /\ LET pkt == Head(up[p]) IN
       IF pkt.named
       THEN /\ record' = [record EXCEPT ![p] = [inCombat |-> pkt.inCombat,
                                                radius |-> pkt.radius]]
            /\ IF Engaged(p) /\ ~pkt.inCombat THEN Happens("stale")
                                              ELSE UNCHANGED mishap
       ELSE UNCHANGED <<record, mishap>>
    /\ up' = Popped(up, p)
    /\ UNCHANGED <<clientVars, down, attack, met>>

\* UPDATE_COMBAT_PLAYER.
FileAttack(p) ==
    /\ Arrives(up, p, "attack")
    /\ attack' = [attack EXCEPT ![p] = Head(up[p]).opponent]
    /\ up' = Popped(up, p)
    /\ UNCHANGED <<clientVars, down, record, met, mishap>>

\* Players the collision scan compares.
Free(p) == record[p] # None /\ ~record[p].inCombat

\* A comparison of t with c that finds them apart: t is cleared at the end of
\* the tick, until its next update.
Pass(c, t) ==
    /\ Free(c) /\ Free(t)
    /\ record' = [record EXCEPT ![t] = None]
    /\ UNCHANGED <<clientVars, up, down, attack, met, mishap>>

\* Those of a colliding pair that were compared with a third one before: they
\* are put in combat, and cleared all the same.
ClearedWith(c, t) == {x \in {c, t} : \E r \in Player \ {c, t} : Free(r)}

\* Mutant of Collide: the second player is not put in combat.
CollideOne(c, t) ==
    /\ Free(c) /\ Free(t) /\ record[c].radius >= 0
    /\ met < MaxMeetings /\ met' = met + 1
    /\ down' = Broadcast(down, CollisionOf(c, t))
    /\ record' = [record EXCEPT ![c].inCombat = TRUE]
    /\ UNCHANGED <<clientVars, up, attack, mishap>>

\* A comparison that finds them within the radius of c.
Collide(c, t) ==
    /\ Free(c) /\ Free(t) /\ record[c].radius >= 0
    /\ met < MaxMeetings /\ met' = met + 1
    /\ down' = Broadcast(down, CollisionOf(c, t))
    /\ \E cleared \in SUBSET ClearedWith(c, t) :
          record' = [p \in Player |->
             IF p \in cleared THEN None
             ELSE IF p \in {c, t} THEN [record[p] EXCEPT !.inCombat = TRUE]
             ELSE record[p]]
    /\ UNCHANGED <<clientVars, up, attack, mishap>>

\* handlePlayerBattle
Rounds(a, b) == {ResultOf(a, b, FALSE), ResultOf(b, a, FALSE), ResultOf(a, b, TRUE)}

\* checkForPlayerBattles: the attack of a names b, which has one too, though
\* it may name another.
Fight(a, b) ==
    /\ attack[a] = b /\ attack[b] # None
    /\ \E r \in Rounds(a, b) : down' = Broadcast(down, r)
    /\ attack' = [attack EXCEPT ![a] = None, ![b] = None]
    /\ UNCHANGED <<clientVars, up, record, met, mishap>>

\* The search for an opponent does not ask whether its attack is resolved: in one
\* tick the attack of b is fought by two that name b.
FightTwice(a, c, b) ==
    /\ "twice" \in MayHappen /\ Undisturbed
    /\ attack[a] = b /\ attack[c] = b /\ attack[b] # None
    /\ \E r \in Rounds(a, b), s \in Rounds(c, b) :
          down' = Broadcast(Broadcast(down, r), s)
    /\ attack' = [attack EXCEPT ![a] = None, ![b] = None, ![c] = None]
    /\ Happens("twice")
    /\ UNCHANGED <<clientVars, up, record, met>>

-----------------------------------------------------------------------------
\* The open world that is loaded first starts a DelayCombat too.
Init ==
    /\ place = [p \in Player |-> "world"]
    /\ opponent = [p \in Player |-> None]
    /\ mine = [p \in Player |-> Lives] /\ theirs = [p \in Player |-> Lives]
    /\ collisionRadius = [p \in Player |-> NoReach]
    /\ defaultRadius = [p \in Player |-> Reach]
    /\ renamed = {} /\ again = {}
    /\ up = [p \in Player |-> <<>>] /\ down = [p \in Player |-> <<>>]
    /\ record = [p \in Player |-> None]
    /\ attack = [p \in Player |-> None]
    /\ met = 0 /\ mishap = {}

Client(p) == \/ SendEntity(p) \/ TakeCollision(p) \/ Choose(p) \/ ChooseAgain(p)
             \/ TakeResult(p) \/ SwitchToOpenWorld(p) \/ combatDelay(p)

Server == \/ \E p \in Player : FileUpdate(p) \/ FileAttack(p)
          \/ \E p \in Player : \E q \in Player \ {p} :
                \/ Pass(p, q) \/ Collide(p, q) \/ Fight(p, q)
                \/ \E r \in Player \ {p, q} : FightTwice(p, r, q)

Next == \/ \E p \in Player : Client(p) \/ Quit(p)
        \/ Overtaken
        \/ Server

Spec == Init /\ [][Next]_vars

\* Every client's frames and the server's ticks go on, what is sent arrives, and
\* the countdown chooses for a player that does not.
FairSpec ==
    /\ Spec
    /\ \A p \in Player : /\ WF_vars(SendEntity(p))
                         /\ SF_vars(Choose(p) \/ ChooseAgain(p))
                         /\ WF_vars(\/ TakeCollision(p) \/ TakeResult(p)
                                    \/ SwitchToOpenWorld(p) \/ combatDelay(p))
                         /\ WF_vars(FileUpdate(p) \/ FileAttack(p))
                         /\ WF_vars(\E q \in Player : Fight(p, q))

-----------------------------------------------------------------------------
(* Properties.                                                             *)

Packet == [kind : {"update"}, named : BOOLEAN, inCombat : BOOLEAN, radius : Radius]
          \cup [kind : {"attack"}, opponent : Player]
Notice == [kind : {"collision"}, pair : Player \X Player]
          \cup [kind : {"result"}, pair : Player \X Player, isDraw : BOOLEAN]

\* Types; a match is over when one side has no lives left, never with both at
\* none and never with lives below none.
TypeOK ==
    /\ place \in [Player -> {"world", "choosing", "waiting", "over", "gone"}]
    /\ opponent \in [Player -> Player \cup {None}]
    /\ \A p \in Player : opponent[p] # p /\ (opponent[p] # None <=> Fighting(p))
    /\ {mine, theirs} \subseteq [Player -> 0 .. Lives]
    /\ \A p \in Player : mine[p] + theirs[p] > 0
    /\ collisionRadius \in [Player -> Radius]
    /\ defaultRadius \in [Player -> Radius \cup {None}]
    /\ renamed \subseteq Player /\ again \subseteq Player
    /\ up \in [Player -> Seq(Packet)] /\ \A p \in Player : Len(up[p]) <= MaxUp
    /\ down \in [Player -> Seq(Notice)]
    /\ record \in [Player -> [inCombat : BOOLEAN, radius : Radius] \cup {None}]
    /\ attack \in [Player -> Player \cup {None}]
    /\ met \in 0 .. MaxMeetings
    /\ mishap \subseteq {"stale", "overtaken", "left", "renamed", "hurried", "twice",
                      "resent"}

OnTheWay(p, kind) == {k \in DOMAIN down[p] : down[p][k].kind = kind}

\* A client in battle is in battle with a client that is in battle with it, or
\* is about to be, or has just seen the end of it.  An attack sent twice breaks
\* this: what is left of it after its match is fought with the attack that its
\* target makes in another one, and may end that one for the target alone.
BattlesAreMutual ==
    mishap \subseteq {"hurried", "twice", "renamed"} =>
      \A p \in Player : Fighting(p) =>
        LET q == opponent[p] IN
        \/ opponent[q] = p
        \/ \E k \in OnTheWay(q, "collision") : p \in Range(down[q][k].pair)
        \/ place[p] = "over"
        \/ \E k \in OnTheWay(p, "result") : q \in Range(down[p][k].pair)

\* A client that waits for a result has an attack on the way or on the server's
\* list, or the result is on its way.  Only a packet that is overtaken breaks
\* this, and then the client waits for ever.
AttackAccountedFor ==
    "overtaken" \notin mishap =>
      \A p \in Player : place[p] = "waiting" =>
        \/ \E k \in DOMAIN up[p] : up[p][k].kind = "attack"
        \/ attack[p] # None
        \/ OnTheWay(p, "result") # {}

\* The client takes the next result of a match from its opponent, though it
\* does not look at who lost to it or won; unless an update was late, a packet
\* overtaken, a client left or renamed, or an attack sent twice.
ResultsAreOfTheMatch ==
    [][mishap \subseteq {"hurried", "twice"} =>
         \A p \in Player :
            (mine'[p] < mine[p] \/ theirs'[p] < theirs[p])
              => opponent[p] \in Range(Head(down[p]).pair)]_vars

\* A player in the world that no DelayCombat holds back can be the one whose
\* radius counts, unless it was drawn into a battle while it was held back: then
\* -1 has become its default for good.
ReachReturns ==
    \A p \in Player : place[p] = "world" /\ ~Delaying(p) /\ "hurried" \notin mishap
                        => collisionRadius[p] = Reach

\* What the proofs of TypeOK, AttackAccountedFor and ReachReturns add to them:
\* a client is sent what names it and another player, ...
NoticesNameTwo ==
    \A p \in Player : \A k \in DOMAIN down[p] :
        LET pair == down[p][k].pair IN
        p \in {pair[1], pair[2]} /\ pair[1] # pair[2]

\* ... no turn begins without lives, ...
LivesLeft ==
    \A p \in Player : place[p] \in {"choosing", "waiting"}
                        => mine[p] > 0 /\ theirs[p] > 0

\* ... and a running combatDelay keeps the radius that is to come back.
RadiusKept ==
    \A p \in Player :
        /\ Fighting(p) => ~Delaying(p)
        /\ "hurried" \notin mishap =>
             Reach = IF Delaying(p) THEN defaultRadius[p] ELSE collisionRadius[p]

IInv == TypeOK /\ NoticesNameTwo /\ LivesLeft /\ RadiusKept /\ AttackAccountedFor

\* Both ends of a match agree on its score when nothing is on the way, unless
\* an update was late, a packet overtaken, or an attack sent or fought twice.
ScoresAgree ==
    mishap \subseteq {"hurried", "renamed", "left"} =>
      \A p, q \in Player :
        /\ opponent[p] = q /\ opponent[q] = p
        /\ down[p] = <<>> /\ down[q] = <<>>
        => mine[p] = theirs[q]

\* A player that waits for a result gets one, unless something has gone wrong.
WaitingEnds ==
    \A p \in Player :
        place[p] = "waiting" ~> place[p] # "waiting" \/ ~(mishap \subseteq {"hurried"})

\* The server lets a player that is back in the world collide again, unless it
\* came back under another name.
ReturnedIsFree ==
    \A p \in Player :
        place[p] = "world" /\ record[p] # None /\ p \notin renamed
            ~> \/ record[p] = None \/ ~record[p].inCombat
               \/ place[p] # "world" \/ OnTheWay(p, "collision") # {}
=============================================================================
