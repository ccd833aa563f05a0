---------------------------- MODULE RPSMatchDuel ----------------------------
(***************************************************************************)
(* The refinement mapping under which a match implements Duel for as long  *)
(* as no client sends two attacks in a turn.                               *)
(***************************************************************************)
EXTENDS RPSMatch

\* The lives of both players as client c counts them, ...
View(c) == [d \in Player |-> IF d = c THEN mine[c] ELSE theirs[c]]

\* ... and as it will when it has taken the result on the way to it.
Informed(c) == IF toClient[c] = <<>> THEN View(c)
               ELSE After(View(c), Head(toClient[c]))

\* An attack counts as chosen when it is sent, and until a round is reported.
Sent(c) == toServer[c] # <<>> \/ Listed(c)

Rounds == INSTANCE Duel WITH
    score  <- [c \in Player |-> Informed(c)[c]],
    choice <- [c \in Player |-> IF Sent(c) THEN currentAttack[c] ELSE None],
    seen   <- [c \in Player |-> View(c)],
    news   <- [c \in Player |-> toClient[c] # <<>>]

\* A late press of Return may send a turn's second attack (endSelectionStage does
\* not ask whether the stage is over); none has done so.
OnePerTurn == \A c \in Player : ~resent[c]

\* As long as no attack is sent twice, the two clients with their countdowns,
\* displays and separate counts of lives, the channels, and a server that lists,
\* decides and clears in separate steps, play one game in rounds: every step is
\* one of Duel, or none.
ImplementsDuel ==
    Rounds!Init /\ [][OnePerTurn' => [Rounds!Next]_(Rounds!vars)]_vars

-----------------------------------------------------------------------------
(* What it rests on besides IInv.                                          *)

\* While no attack is sent twice: when a client knows that the match is over,
\* nothing of a turn is left of it; and between the report of a round and the
\* clearing of the list no attack can arrive that would be cleared unfought.
NothingLeft(c) ==
    /\ scene[c] = "loading" => ~deciding /\ ~gameOver[c]
    /\ gameOver[c] => ~selectionStage[c] /\ ~Sent(c) /\ toClient[c] = <<>>
    /\ deciding => /\ ~selectionStage[c] /\ toServer[c] = <<>>
                   /\ \A k \in Running(c, "display") : coroutines[c][k].left > 0

DuelInv == OnePerTurn => \A c \in Player : NothingLeft(c)
=============================================================================
