-------------------------------- MODULE Duel --------------------------------
(***************************************************************************)
(* What a match promises its two players, without scenes, countdowns,      *)
(* coroutines, channels and lists: a game in rounds with one score.  Both  *)
(* choose, the score follows from both choices by the cyclic order of the  *)
(* attacks, and each learns of it, in any order, before it chooses again;  *)
(* who has learnt that somebody has no lives left chooses no more.         *)
(***************************************************************************)
EXTENDS RpsRules

CONSTANTS
    Player,         \* those who play
    Attack,         \* what they may choose
    Lives,          \* of each player at first
    None            \* no choice

VARIABLES
    score,          \* the lives left to each player
    choice,         \* what each has chosen for the round, or None
    seen,           \* the score as each player knows it
    news            \* there is a result the player has not learnt yet

vars == <<score, choice, seen, news>>

Full == [p \in Player |-> Lives]
Over(lives) == \E p \in Player : lives[p] = 0

Init == /\ score = Full
        /\ choice = [p \in Player |-> None]
        /\ seen = [p \in Player |-> Full]
        /\ news = [p \in Player |-> FALSE]

Choose(p) ==
    /\ choice[p] = None /\ ~news[p] /\ ~Over(seen[p])
    /\ \E a \in Attack : choice' = [choice EXCEPT ![p] = a]
    /\ UNCHANGED <<score, seen, news>>

\* A player whose attack is beaten loses a life.
Beaten(p) == \E q \in Player : Beats(choice[q], choice[p])

Decide ==
    /\ \A p \in Player : choice[p] # None
    /\ score' = [p \in Player |-> score[p] - IF Beaten(p) THEN 1 ELSE 0]
    /\ choice' = [p \in Player |-> None]
    /\ news' = [p \in Player |-> TRUE]
    /\ UNCHANGED seen

Learn(p) ==
    /\ news[p]
    /\ seen' = [seen EXCEPT ![p] = score]
    /\ news' = [news EXCEPT ![p] = FALSE]
    /\ UNCHANGED <<score, choice>>

Next == Decide \/ \E p \in Player : Choose(p) \/ Learn(p)

Spec == Init /\ [][Next]_vars
=============================================================================
