------------------------------- MODULE Arena -------------------------------
(***************************************************************************)
(* What the game server promises about attacks, without threads, vectors,  *)
(* indices, pointers and locks: a board on which at most one attack of     *)
(* each player is listed, and rounds between two of them.                  *)
(*                                                                         *)
(* It promises less than one might wish, and says exactly where.  While a  *)
(* player's attack is being replaced (absent) it is read as any attack at  *)
(* all.  The round is fought with what is listed when it is reported, and  *)
(* what is listed after that is resolved, fought or not.  The second       *)
(* player of a round need not be unresolved.  And an attack may be         *)
(* resolved by accident (Stray), through a pointer of the collision scan.  *)
(***************************************************************************)
EXTENDS RpsRules

CONSTANTS
    Player,         \* identifiers of players
    Attack,         \* what they may attack with
    None,           \* no player
    Silence         \* nothing announced

Entry == [id : Player, opponentID : Player \cup {None}, currentAttack : Attack,
          unresolved : BOOLEAN]

VARIABLES
    listed,         \* the attacks on the board
    absent,         \* the player whose attack is being replaced, or None
    stage,          \* of the round under way
    first, second,  \* its players
    announced       \* the result announced in the last step, or Silence

vars == <<listed, absent, stage, first, second, announced>>

\* What may be read as the attack of player x.
Seen(x) == IF x = absent THEN Entry ELSE {e \in listed : e.id = x}

Resolved(e) == [e EXCEPT !.unresolved = FALSE]

\* The attack of x resolved, if x has one.
ResolvedOn(x) == {IF e.id = x THEN Resolved(e) ELSE e : e \in listed}

Board == <<listed, absent>>
Round == <<stage, first, second>>

\* An attack is put on the board; its player had none, or it was withdrawn.
Enter(e) ==
    /\ \A f \in listed : f.id # e.id
    /\ absent \in {None, e.id}
    /\ listed' = listed \cup {e}
    /\ absent' = None
    /\ announced' = Silence
    /\ UNCHANGED Round

\* The first half of a replacement.
Withdraw(e) ==
    /\ e \in listed /\ absent = None
    /\ listed' = listed \ {e}
    /\ absent' = e.id
    /\ announced' = Silence
    /\ UNCHANGED Round

Stray(e) ==
    /\ e \in listed /\ stage = "idle"
    /\ listed' = (listed \ {e}) \cup {Resolved(e)}
    /\ announced' = Silence
    /\ UNCHANGED <<absent, Round>>

\* A resolved attack leaves the board between rounds.
Clear(e) ==
    /\ e \in listed /\ ~e.unresolved
    /\ stage = "idle" /\ absent = None
    /\ listed' = listed \ {e}
    /\ announced' = Silence
    /\ UNCHANGED <<absent, Round>>

\* A player with an unresolved attack looks for an opponent, ...
Open(x) ==
    /\ stage = "idle"
    /\ \E e \in Seen(x) : e.unresolved
    /\ stage' = "open" /\ first' = x /\ second' = None
    /\ announced' = Silence
    /\ UNCHANGED Board

\* ... finds none, ...
Pass ==
    /\ stage = "open"
    /\ stage' = "idle" /\ first' = None /\ second' = None
    /\ announced' = Silence
    /\ UNCHANGED Board

\* ... or meets the player its attack names.
Meet(y) ==
    /\ stage = "open" /\ y # first
    /\ \E e \in Seen(first), f \in Seen(y) : e.opponentID = f.id
    /\ stage' = "met" /\ second' = y
    /\ announced' = Silence
    /\ UNCHANGED <<Board, first>>

\* The round between them is announced.
Announce ==
    /\ stage = "met"
    /\ \E e \in Seen(first), f \in Seen(second) : announced' = RoundWinner(e, f)
    /\ stage' = "told"
    /\ UNCHANGED <<Board, first, second>>

\* Their attacks of that moment are resolved, one after the other.
ResolveFirst ==
    /\ stage = "told"
    /\ listed' = ResolvedOn(first)
    /\ stage' = "half"
    /\ announced' = Silence
    /\ UNCHANGED <<absent, first, second>>

ResolveSecond ==
    /\ stage = "half"
    /\ listed' = ResolvedOn(second)
    /\ stage' = "idle" /\ first' = None /\ second' = None
    /\ announced' = Silence
    /\ UNCHANGED absent

\* An announcement is made once.
Hush ==
    /\ announced' = Silence
    /\ UNCHANGED <<Board, Round>>

Init ==
    /\ listed = {} /\ absent = None
    /\ stage = "idle" /\ first = None /\ second = None
    /\ announced = Silence

Next ==
    \/ \E e \in Entry : Enter(e) \/ Withdraw(e) \/ Stray(e) \/ Clear(e)
    \/ \E x \in Player : Open(x) \/ Meet(x)
    \/ Pass \/ Announce \/ ResolveFirst \/ ResolveSecond \/ Hush

Spec == Init /\ [][Next]_vars
=============================================================================
