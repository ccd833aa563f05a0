------------------------------ MODULE RPSMatch ------------------------------
(***************************************************************************)
(* A battle: the RPSManagers of two clients that have collided, the server *)
(* that decides their rounds, and the channels in between.                 *)
(*                                                                         *)
(* A client is one Unity thread: its callbacks (Start, Update) and the     *)
(* coroutines timerCountdown, displayAttacks and returnToOpenScene run one *)
(* at a time, each up to its next yield.  A client's seconds are its own   *)
(* (Tick); a coroutine started between two ticks with n seconds to wait is *)
(* due at the n-th.  The server is the one of module GameServer with only  *)
(* two attackers, in the two steps that matter here: it reports a round,   *)
(* and later deletes whatever attack is then listed for the two players.   *)
(* Channels neither lose nor reorder (RELIABLE_SEQUENCED on one channel,   *)
(* with nothing overtaken).                                                *)
(***************************************************************************)
EXTENDS Integers, Sequences, FiniteSets, SequencesExt, RpsRules

CONSTANTS
    Player,         \* the two clients
    Attack,         \* RPSType
    TurnSeconds,    \* length of a selection stage: 20 in RPSManager.beginTurn
    Lives,          \* currentLives of a new RPSPlayer: 3
    MaxRounds,      \* bound: the server decides no more rounds than this
    None            \* no attack

ASSUME PlayerAssumption == \E a, b \in Player : a # b /\ Player = {a, b}
ASSUME MatchAssumption == /\ Attack \subseteq 0 .. 2
                          /\ TurnSeconds \in Nat \ {0}
                          /\ Lives \in Nat \ {0}
                          /\ MaxRounds \in Nat
                          /\ None \notin Attack

DisplaySeconds == 2     \* of displayAttacks and returnToOpenScene

Opponent(c) == CHOOSE d \in Player : d # c

VARIABLES
    scene,          \* "loading", "battle", "world": the scene a client is in
    selectionStage, \* RPSManager: the turn's attack is being selected
    turnComplete,   \* RPSPlayer: it has been
    countdown,      \* RPSManager: seconds left
    currentAttack,  \* RPSPlayer: the attack selected last
    mine, theirs,   \* currentLives of player and of opponent
    gameOver,       \* RPSManager
    coroutines,     \* those running: their name and the seconds they wait
    shown,          \* the attacks on display: own and opponent's
    resent,         \* the client has sent the same turn's attack twice
    toServer,       \* attacks on their way
    toClient,       \* round results on their way or queued in the plugin
    listed,         \* server: the attack listed for each player, or None
    deciding,       \* server: a round is reported and not yet cleared
    rounds          \* the number of rounds decided

turnVars   == <<selectionStage, turnComplete, countdown, currentAttack>>
scoreVars  == <<mine, theirs, gameOver>>
serverVars == <<listed, deciding, rounds>>
vars == <<scene, turnVars, scoreVars, coroutines, shown, resent, toServer,
          toClient, serverVars>>

Routine(name, seconds) == [run |-> name, left |-> seconds]

Coroutine == [run : {"timer", "display", "return"}, left : 0 .. DisplaySeconds]

\* Those of the name given in a list of coroutines, and those of a client.
Named(routines, name) == {k \in 1 .. Len(routines) : routines[k].run = name}
Running(c, name) == Named(coroutines[c], name)

-----------------------------------------------------------------------------
(* One client.                                                             *)

\* beginTurn, with `others' the coroutines of c that go on.
beginTurn(c, others) ==
    /\ turnComplete' = [turnComplete EXCEPT ![c] = FALSE]
    /\ selectionStage' = [selectionStage EXCEPT ![c] = TRUE]
    /\ countdown' = [countdown EXCEPT ![c] = TurnSeconds]
    /\ coroutines' = [coroutines EXCEPT ![c] = Append(others, Routine("timer", 1))]

\* The scene is loaded: RPSManager.Start.
Start(c) ==
    /\ scene[c] = "loading"
    /\ scene' = [scene EXCEPT ![c] = "battle"]
    /\ beginTurn(c, <<>>)
    /\ UNCHANGED <<currentAttack, scoreVars, shown, resent, toServer, toClient,
                   serverVars>>

\* The player presses Return: RPSPlayer.Update, selectAttack.
PressReturn(c) ==
    /\ scene[c] = "battle" /\ ~turnComplete[c]
    /\ \E a \in Attack : currentAttack' = [currentAttack EXCEPT ![c] = a]
    /\ turnComplete' = [turnComplete EXCEPT ![c] = TRUE]
    /\ UNCHANGED <<scene, selectionStage, countdown, scoreVars, coroutines,
                   shown, resent, toServer, toClient, serverVars>>

\* Mutant of endSelectionStage: the stage is not left.
endSelectionStageStaying(c, a) ==
    /\ UNCHANGED selectionStage
    /\ resent' = [resent EXCEPT ![c] = @ \/ ~selectionStage[c]]
    /\ toServer' = [toServer EXCEPT ![c] = Append(@, a)]

\* endSelectionStage, fireAttacks: attack a is sent, whether or not the stage
\* had ended before.
endSelectionStage(c, a) ==
    /\ selectionStage' = [selectionStage EXCEPT ![c] = FALSE]
    /\ resent' = [resent EXCEPT ![c] = @ \/ ~selectionStage[c]]
    /\ toServer' = [toServer EXCEPT ![c] = Append(@, a)]

\* RPSManager.Update.
SelectionMade(c) == scene[c] = "battle" /\ selectionStage[c] /\ turnComplete[c]

ManagerUpdate(c) ==
    /\ SelectionMade(c)
    /\ endSelectionStage(c, currentAttack[c])
    /\ UNCHANGED <<scene, turnComplete, countdown, currentAttack, scoreVars,
                   coroutines, shown, toClient, serverVars>>

\* A second passes at c; frames are much shorter, and so is a server's tick.
Due(c) == {k \in 1 .. Len(coroutines[c]) : coroutines[c][k].left = 0}

Tick(c) ==
    /\ coroutines[c] # <<>> /\ Due(c) = {}
    /\ ~SelectionMade(c) /\ ~deciding
    /\ coroutines' = [coroutines EXCEPT ![c] =
                        [k \in DOMAIN @ |-> Routine(@[k].run, @[k].left - 1)]]
    /\ UNCHANGED <<scene, turnVars, scoreVars, shown, resent, toServer,
                   toClient, serverVars>>

\* Mutant of Awaits: the countdown's loop ends one second early.
AwaitsOneLess(c) == selectionStage[c] /\ countdown[c] - 1 > 1

\* The condition of timerCountdown's loop, after a second.
Awaits(c) == selectionStage[c] /\ countdown[c] - 1 > 0

\* timerCountdown after a second.  At 0 the selector gives the attack: any, if
\* the player has not chosen, for else the selector is inactive.
timerCountdown(c, k) ==
    /\ coroutines[c][k] = Routine("timer", 0)
    /\ countdown' = [countdown EXCEPT ![c] = @ - 1]
    /\ \/ /\ countdown[c] = 1
          /\ \E a \in IF turnComplete[c] THEN {currentAttack[c]} ELSE Attack :
                /\ currentAttack' = [currentAttack EXCEPT ![c] = a]
                /\ endSelectionStage(c, a)
          /\ turnComplete' = [turnComplete EXCEPT ![c] = TRUE]
          /\ coroutines' = [coroutines EXCEPT ![c] = RemoveAt(@, k)]
       \/ /\ countdown[c] # 1 /\ Awaits(c)
          /\ coroutines' = [coroutines EXCEPT ![c][k].left = 1]
          /\ UNCHANGED <<selectionStage, turnComplete, currentAttack, resent,
                         toServer>>
       \/ /\ countdown[c] # 1 /\ ~Awaits(c)
          /\ coroutines' = [coroutines EXCEPT ![c] = RemoveAt(@, k)]
          /\ UNCHANGED <<selectionStage, turnComplete, currentAttack, resent,
                         toServer>>
    /\ UNCHANGED <<scene, scoreVars, shown, toClient, serverVars>>

\* Mutant of displayAttacks: the next turn begins even if the match is over.
displayAttacksForEver(c, k) ==
    /\ coroutines[c][k] = Routine("display", 0)
    /\ shown' = [shown EXCEPT ![c] = [own |-> None, opponent |-> None]]
    /\ beginTurn(c, RemoveAt(coroutines[c], k))
    /\ UNCHANGED <<scene, currentAttack, scoreVars, resent, toServer, toClient,
                   serverVars>>

\* displayAttacks after two seconds: the next turn begins.
displayAttacks(c, k) ==
    /\ coroutines[c][k] = Routine("display", 0)
    /\ shown' = [shown EXCEPT ![c] = [own |-> None, opponent |-> None]]
    /\ \/ ~gameOver[c] /\ beginTurn(c, RemoveAt(coroutines[c], k))
       \/ /\ gameOver[c]
          /\ coroutines' = [coroutines EXCEPT ![c] = RemoveAt(@, k)]
          /\ UNCHANGED <<turnComplete, selectionStage, countdown>>
    /\ UNCHANGED <<scene, currentAttack, scoreVars, resent, toServer, toClient,
                   serverVars>>

\* SwitchToOpenWorld: the battle scene and the manager with its coroutines go.
returnToOpenScene(c, k) ==
    /\ coroutines[c][k] = Routine("return", 0)
    /\ scene' = [scene EXCEPT ![c] = "world"]
    /\ coroutines' = [coroutines EXCEPT ![c] = <<>>]
    /\ UNCHANGED <<turnVars, scoreVars, shown, resent, toServer, toClient,
                   serverVars>>

Resume(c) == \E k \in Due(c) : \/ timerCountdown(c, k)
                               \/ displayAttacks(c, k)
                               \/ returnToOpenScene(c, k)

\* The opponent's attack, which no message carries, as displayAttacks infers it
\* from its own attack and the result.
Weaker(a)   == CASE a = Rock -> 2     [] a = Paper -> Rock [] OTHER -> Paper
Stronger(a) == CASE a = Rock -> Paper [] a = Paper -> 2    [] OTHER -> Rock

\* Mutant of OpponentAttack: the two cases of a won and a lost round swapped.
OpponentAttackSwapped(own, isDraw, playerWin) ==
    IF isDraw THEN own ELSE IF playerWin THEN Stronger(own) ELSE Weaker(own)

OpponentAttack(own, isDraw, playerWin) ==
    IF isDraw THEN own ELSE IF playerWin THEN Weaker(own) ELSE Stronger(own)

\* Mutant of CountLives: a lost round costs nothing.
CountLivesWonOnly(c, won, lost) ==
    /\ theirs' = [theirs EXCEPT ![c] = @ - (IF won THEN 1 ELSE 0)]
    /\ UNCHANGED mine

\* A round takes a life of the player who loses it.
CountLives(c, won, lost) ==
    /\ theirs' = [theirs EXCEPT ![c] = @ - (IF won THEN 1 ELSE 0)]
    /\ mine' = [mine EXCEPT ![c] = @ - (IF lost THEN 1 ELSE 0)]

\* Mutant of recieveRoundWinner: a result after the end of the game counts.
recieveRoundWinnerAlways(c, result) ==
    LET won  == ~result.isDraw /\ result.winner = c
        lost == ~result.isDraw /\ result.winner # c
        ends == \/ won  /\ theirs[c] - 1 <= 0
                \/ lost /\ mine[c] - 1 <= 0
        display == Routine("display", DisplaySeconds)
        leave   == Routine("return", DisplaySeconds)
    IN  /\ CountLives(c, won, lost)
        /\ gameOver' = [gameOver EXCEPT ![c] = @ \/ ends]
        /\ coroutines' = [coroutines EXCEPT ![c] =
                            @ \o IF ends THEN <<leave, display>> ELSE <<display>>]
        /\ shown' = [shown EXCEPT ![c] =
              [own |-> currentAttack[c],
               opponent |-> OpponentAttack(currentAttack[c], result.isDraw, won)]]

\* recieveRoundWinner, up to the first yield of the coroutines it starts.
recieveRoundWinner(c, result) ==
    LET won  == ~result.isDraw /\ result.winner = c
        lost == ~result.isDraw /\ result.winner # c
        ends == \/ won  /\ theirs[c] - 1 <= 0
                \/ lost /\ mine[c] - 1 <= 0
        display == Routine("display", DisplaySeconds)
        leave   == Routine("return", DisplaySeconds)
    IN  \/ gameOver[c] /\ UNCHANGED <<scoreVars, coroutines, shown>>
        \/ /\ ~gameOver[c]
           /\ CountLives(c, won, lost)
           /\ gameOver' = [gameOver EXCEPT ![c] = ends]
           /\ coroutines' = [coroutines EXCEPT ![c] =
                               @ \o IF ends THEN <<leave, display>> ELSE <<display>>]
           /\ shown' = [shown EXCEPT ![c] =
                 [own |-> currentAttack[c],
                  opponent |-> OpponentAttack(currentAttack[c], result.isDraw, won)]]

\* NetworkManager.Update takes a result only while the player is in combat.
ReceiveResult(c) ==
    /\ scene[c] = "battle" /\ toClient[c] # <<>>
    /\ recieveRoundWinner(c, Head(toClient[c]))
    /\ toClient' = [toClient EXCEPT ![c] = Tail(@)]
    /\ UNCHANGED <<scene, turnVars, resent, toServer, serverVars>>

-----------------------------------------------------------------------------
(* The server.                                                             *)

\* addCombatData: a new attack replaces the one listed for the same player.
addCombatData(c) ==
    /\ toServer[c] # <<>>
    /\ listed' = [listed EXCEPT ![c] = Head(toServer[c])]
    /\ toServer' = [toServer EXCEPT ![c] = Tail(@)]
    /\ UNCHANGED <<scene, turnVars, scoreVars, coroutines, shown, resent,
                   toClient, deciding, rounds>>

\* Mutant of DecideRound: the result is sent to the first player only.
DecideRoundForOne ==
    /\ ~deciding /\ rounds < MaxRounds
    /\ \A c \in Player : listed[c] # None
    /\ \E p1 \in Player :
          LET p2 == Opponent(p1)
              a1 == listed[p1]
              a2 == listed[p2]
              result == [winner |-> IF SecondWins(a1, a2) THEN p2 ELSE p1,
                         isDraw |-> ~FirstWins(a1, a2) /\ ~SecondWins(a1, a2),
                         fought |-> listed]
          IN  toClient' = [toClient EXCEPT ![p1] = Append(@, result)]
    /\ deciding' = TRUE
    /\ rounds' = rounds + 1
    /\ UNCHANGED <<scene, turnVars, scoreVars, coroutines, shown, resent,
                   toServer, listed>>

\* checkForPlayerBattles, handlePlayerBattle: the attack listed first is p1's.
\* The attacks fought are part of no packet; the model keeps them beside it.
DecideRound ==
    /\ ~deciding /\ rounds < MaxRounds
    /\ \A c \in Player : listed[c] # None
    /\ \E p1 \in Player :
          LET p2 == Opponent(p1)
              a1 == listed[p1]
              a2 == listed[p2]
              result == [winner |-> IF SecondWins(a1, a2) THEN p2 ELSE p1,
                         isDraw |-> ~FirstWins(a1, a2) /\ ~SecondWins(a1, a2),
                         fought |-> listed]
          IN  toClient' = [c \in Player |-> Append(toClient[c], result)]
    /\ deciding' = TRUE
    /\ rounds' = rounds + 1
    /\ UNCHANGED <<scene, turnVars, scoreVars, coroutines, shown, resent,
                   toServer, listed>>

\* Both listed attacks are marked resolved and then deleted, even one that has
\* replaced the attack that was fought.
ClearRound ==
    /\ deciding
    /\ listed' = [c \in Player |-> None]
    /\ deciding' = FALSE
    /\ UNCHANGED <<scene, turnVars, scoreVars, coroutines, shown, resent,
                   toServer, toClient, rounds>>

-----------------------------------------------------------------------------
Init ==
    /\ scene = [c \in Player |-> "loading"]
    /\ selectionStage = [c \in Player |-> FALSE]
    /\ turnComplete = [c \in Player |-> TRUE]
    /\ countdown = [c \in Player |-> 0]
    /\ currentAttack = [c \in Player |-> None]
    /\ mine = [c \in Player |-> Lives] /\ theirs = [c \in Player |-> Lives]
    /\ gameOver = [c \in Player |-> FALSE]
    /\ coroutines = [c \in Player |-> <<>>]
    /\ shown = [c \in Player |-> [own |-> None, opponent |-> None]]
    /\ resent = [c \in Player |-> FALSE]
    /\ toServer = [c \in Player |-> <<>>]
    /\ toClient = [c \in Player |-> <<>>]
    /\ listed = [c \in Player |-> None]
    /\ deciding = FALSE
    /\ rounds = 0

Client(c) == \/ Start(c) \/ PressReturn(c) \/ ManagerUpdate(c)
             \/ Tick(c) \/ Resume(c) \/ ReceiveResult(c)

Server == (\E c \in Player : addCombatData(c)) \/ DecideRound \/ ClearRound

Next == (\E c \in Player : Client(c)) \/ Server

Spec == Init /\ [][Next]_vars

\* Unity and the server keep running; nobody need ever press Return.
FairSpec ==
    /\ Spec
    /\ \A c \in Player : /\ WF_vars(Start(c)) /\ WF_vars(ManagerUpdate(c))
                         /\ WF_vars(Tick(c)) /\ WF_vars(Resume(c))
                         /\ WF_vars(ReceiveResult(c)) /\ WF_vars(addCombatData(c))
    /\ WF_vars(DecideRound) /\ WF_vars(ClearRound)

-----------------------------------------------------------------------------
Result == [winner : Player, isDraw : BOOLEAN, fought : [Player -> Attack]]

\* Well-typed state; in particular no player's lives ever leave 0 .. Lives.
TypeOK ==
    /\ scene \in [Player -> {"loading", "battle", "world"}]
    /\ selectionStage \in [Player -> BOOLEAN]
    /\ turnComplete \in [Player -> BOOLEAN]
    /\ countdown \in [Player -> Int]
    /\ currentAttack \in [Player -> Attack \cup {None}]
    /\ mine \in [Player -> 0 .. Lives] /\ theirs \in [Player -> 0 .. Lives]
    /\ gameOver \in [Player -> BOOLEAN]
    /\ coroutines \in [Player -> Seq(Coroutine)]
    /\ shown \in [Player -> [own : Attack \cup {None}, opponent : 0 .. 2 \cup {None}]]
    /\ resent \in [Player -> BOOLEAN]
    /\ toServer \in [Player -> Seq(Attack)]
    /\ toClient \in [Player -> Seq(Result)]
    /\ listed \in [Player -> Attack \cup {None}]
    /\ deciding \in BOOLEAN
    /\ rounds \in 0 .. MaxRounds

\* The two clients, which count lives each for itself, agree whenever no result
\* is under way: on both scores and on whether the game is over.
ScoresAgree ==
    (\A c \in Player : toClient[c] = <<>>) =>
        \A c \in Player : /\ mine[c] = theirs[Opponent(c)]
                          /\ gameOver[c] = gameOver[Opponent(c)]
                          /\ gameOver[c] <=> (mine[c] = 0) # (theirs[c] = 0)

\* The attacks a client puts on display, one remembered and one inferred, are
\* the attacks the server has fought, unless some turn's attack was sent twice.
ShownAsFought ==
    [][\A c \in Player :
         shown'[c] # shown[c] /\ shown'[c].own # None =>
            \/ \E d \in Player : resent[d]
            \/ shown'[c] = [own      |-> Head(toClient[c]).fought[c],
                            opponent |-> Head(toClient[c]).fought[Opponent(c)]]]_vars

\* Unless some turn's attack was sent twice, a turn has one countdown, and none
\* still runs when the attacks of the turn are replaced by the next turn.
OneCountdown ==
    \A c \in Player :
        \/ \E d \in Player : resent[d]
        \/ /\ Cardinality(Running(c, "timer")) <= 1
           /\ Cardinality(Running(c, "display")) <= 1
           /\ Running(c, "display") # {} => ~selectionStage[c]

\* A selection stage always has a countdown that ends it, also after turns have
\* overlapped: nobody waits for a player who does not press Return.
SelectionIsTimed ==
    \A c \in Player :
        scene[c] = "battle" /\ selectionStage[c] => Running(c, "timer") # {}

\* A client that has sent its attack is not left waiting: it gets a result, as
\* long as the bound on rounds lets the server decide one.
Waiting(c) == /\ scene[c] = "battle" /\ ~gameOver[c]
              /\ ~selectionStage[c] /\ Running(c, "display") = {}

RoundsEnd ==
    \A c \in Player : Waiting(c) ~> (~Waiting(c) \/ rounds = MaxRounds)

-----------------------------------------------------------------------------
(* Why they hold.                                                          *)

\* The lives of both after a result: a match that is over counts no more.
After(lives, result) ==
    IF result.isDraw \/ \E d \in Player : lives[d] = 0 THEN lives
    ELSE [lives EXCEPT ![Opponent(result.winner)] = @ - 1]

\* Client c follows a course of lives, as far as its results have come.
Follows(c, course) ==
    LET got == rounds - Len(toClient[c]) IN
    /\ got >= 0
    /\ mine[c] = course[got][c] /\ theirs[c] = course[got][Opponent(c)]
    /\ gameOver[c] <=> \E d \in Player : course[got][d] = 0
    /\ \A k \in 1 .. Len(toClient[c]) :
          course[got + k] = After(course[got + k - 1], toClient[c][k])

\* The rounds decided give one course of the match, which each client follows at
\* its own pace: the results still under way to it lead to the present.
OneCourse ==
    \E course \in [0 .. rounds -> [Player -> 0 .. Lives]] :
        /\ \A i \in 0 .. rounds : \E d \in Player : course[i][d] > 0
        /\ \A c \in Player : Follows(c, course)

\* A result is that of the attacks fought, whichever was listed first.
FollowsRules(result) ==
    \E p1 \in Player :
        LET a1 == result.fought[p1]
            a2 == result.fought[Opponent(p1)]
        IN  /\ result.winner = IF SecondWins(a1, a2) THEN Opponent(p1) ELSE p1
            /\ result.isDraw = (~FirstWins(a1, a2) /\ ~SecondWins(a1, a2))

ResultsFollowRules ==
    \A c \in Player : \A k \in 1 .. Len(toClient[c]) : FollowsRules(toClient[c][k])

\* A countdown wakes every second.
Short(routines) == /\ routines \in Seq(Coroutine)
                   /\ \A k \in Named(routines, "timer") : routines[k].left <= 1

\* A countdown that has outlived its selection ends before the display does.
Apart(routines) ==
    /\ \A j, k \in Named(routines, "timer") : j = k
    /\ \A j, k \in Named(routines, "display") : j = k
    /\ \A j \in Named(routines, "timer"), k \in Named(routines, "display") :
          routines[j].left < routines[k].left

\* What a turn of c is like, also when turns have overlapped.
TurnSound(c) ==
    /\ Short(coroutines[c])
    /\ scene[c] = "loading" =>
          /\ coroutines[c] = <<>> /\ ~selectionStage[c]
          /\ toServer[c] = <<>> /\ toClient[c] = <<>> /\ listed[c] = None
    /\ ~selectionStage[c] => turnComplete[c]
    /\ scene[c] # "loading" /\ turnComplete[c] => currentAttack[c] \in Attack
    /\ scene[c] = "battle" /\ selectionStage[c] =>
          countdown[c] > 0 /\ Running(c, "timer") # {}

\* The attack of c is listed and no round is reported for it yet.
Listed(c) == listed[c] # None /\ ~deciding

\* While no attack is sent twice, a turn of c is in one place: it is selected,
\* its attack is on the way, listed, its result is on the way, or on display;
\* the attack is the current one all the way.
TurnInOnePlace(c) ==
    /\ selectionStage[c] => toServer[c] = <<>>
    /\ selectionStage[c] \/ toServer[c] # <<>> => ~Listed(c)
    /\ selectionStage[c] \/ toServer[c] # <<>> \/ Listed(c) => toClient[c] = <<>>
    /\ selectionStage[c] \/ toServer[c] # <<>> \/ Listed(c) \/ toClient[c] # <<>> =>
          Running(c, "display") = {}
    /\ Len(toServer[c]) <= 1 /\ Len(toClient[c]) <= 1
    /\ toServer[c] # <<>> => toServer[c][1] = currentAttack[c]
    /\ Listed(c) => listed[c] = currentAttack[c]
    /\ toClient[c] # <<>> => toClient[c][1].fought[c] = currentAttack[c]
    /\ Apart(coroutines[c])

IInv ==
    /\ TypeOK /\ OneCourse /\ ResultsFollowRules
    /\ \A c \in Player : TurnSound(c)
    /\ (\A d \in Player : ~resent[d]) => \A c \in Player : TurnInOnePlace(c)
=============================================================================
