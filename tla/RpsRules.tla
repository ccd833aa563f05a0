------------------------------ MODULE RpsRules ------------------------------
(***************************************************************************)
(* The rules of one round of rock, paper, scissors as the server decides   *)
(* it (ServerState::handlePlayerBattle) on two attacks in client encoding: *)
(* RPSAttack.cs numbers ROCK, PAPER, SCISSORS from 0.  An attack that is   *)
(* neither 0 nor 1 falls through to the last else of the code: scissors.   *)
(***************************************************************************)
EXTENDS Integers

Rock     == 0
Paper    == 1
IsScissors(a) == a \notin {Rock, Paper}

\* The branches that set p1Win.
FirstWins(a1, a2) == \/ a1 = Rock      /\ IsScissors(a2)
                     \/ a1 = Paper     /\ a2 = Rock
                     \/ IsScissors(a1) /\ a2 = Paper

\* Mutant of SecondWins: in the paper branch, rock and scissors are swapped.
SecondWinsSwapped(a1, a2) == \/ a1 = Rock      /\ a2 = Paper
                             \/ a1 = Paper     /\ a2 = Rock
                             \/ IsScissors(a1) /\ a2 = Rock

\* The branches that set p2Win.
SecondWins(a1, a2) == \/ a1 = Rock      /\ a2 = Paper
                      \/ a1 = Paper     /\ IsScissors(a2)
                      \/ IsScissors(a1) /\ a2 = Rock

\* What handlePlayerBattle decides: a draw is reported with the first player
\* as its winner.
RoundWinner(p1, p2) ==
    LET a1 == p1.currentAttack
        a2 == p2.currentAttack
    IN  [kind   |-> "roundWinner",
         winner |-> IF SecondWins(a1, a2) THEN p2.id ELSE p1.id,
         loser  |-> IF SecondWins(a1, a2) THEN p1.id ELSE p2.id,
         isDraw |-> ~FirstWins(a1, a2) /\ ~SecondWins(a1, a2)]

(***************************************************************************)
(* What the round is: each attack beats the one below it, in a cycle of    *)
(* three.  This is the reference the code is compared with.                *)
(***************************************************************************)
Beats(a1, a2) == (a1 - a2) % 3 = 1
=============================================================================
