------------------------- MODULE GameServerHistory -------------------------
(***************************************************************************)
(* GameServer with a history variable: in how many rounds the record at    *)
(* each address has been fought.  updateState sorts the records by their   *)
(* field unresolved; "unresolved means that the data hasn't been used for  *)
(* anything yet" (ServerState.cpp:40).  An attack is used in a round.      *)
(***************************************************************************)
EXTENDS GameServer, FiniteSets

ASSUME PlayersAssumption == IsFiniteSet(ID)

VARIABLE rounds     \* rounds the record was fought in since it was created

\* The records the main thread's next step fights.
Fought == IF mainPc = "fight" THEN {Attackers[i], Attackers[j]} ELSE {}

CountRounds(fought) ==
    rounds' = [p \in Ptr |->
                 CASE heap'[p] = Freed -> 0
                   [] heap'[p] # Freed /\ p \in fought -> rounds[p] + 1
                   [] OTHER -> rounds[p]]

HistoryInit == Init /\ rounds = [p \in Ptr |-> 0]

HistoryNext == \/ (Receive \/ File) /\ CountRounds({})
               \/ updateState /\ CountRounds(Fought)

HistorySpec == HistoryInit /\ [][HistoryNext]_<<vars, rounds>>

-----------------------------------------------------------------------------
\* An attack is fought at most once against each other player's: between two
\* players it decides one round.  (With a third attacker it may decide two, as
\* checkForPlayerBattles does not ask whether the opponent it finds is already
\* resolved, ServerState.cpp:196.)  No interleaving with the network thread lets
\* the record be fought again before it is deleted.
AttacksMeetOnce ==
    \A n \in Index("attackers") :
        Live("attackers", n) => rounds[Attackers[n]] <= Cardinality(ID) - 1

\* The comment on unresolved, for attacks: one that is no longer unresolved has
\* been used in a round.
ResolvedMeansUsed ==
    \A n \in Index("attackers") :
        Live("attackers", n) /\ ~heap[Attackers[n]].unresolved
        => rounds[Attackers[n]] > 0

-----------------------------------------------------------------------------
(* The inductive invariant behind AttacksMeetOnce.                         *)

\* The main thread is between the round it has reported and the marks of the two
\* attacks it was about.
Marking(p) == \/ mainPc = "resolveFirst" /\ p \in {Attackers[i], Attackers[j]}
              \/ mainPc = "resolveSecond" /\ p = Attackers[j]

\* A record that is still unresolved has not been fought, but for those that are
\* about to be marked.
UnresolvedAreFresh ==
    \A p \in Ptr : Allocated(p) /\ heap[p].unresolved /\ ~Marking(p) => rounds[p] = 0

Searching == {"findOpponent", "fight"}
Marks     == {"resolveFirst", "resolveSecond"}
Battles   == {"fetchAttacker"} \cup Searching \cup Marks
Clears    == {"lock", "sweep"}

\* The attack whose opponent is searched has not been fought: it was unresolved
\* when the scan reached it, or it has replaced the one that was.  (It need not be
\* unresolved: the collision scan may have marked it through a pointer whose
\* record is gone, when the new one was still in the hand of the network thread.)
SearcherIsFresh == mainPc \in Searching => rounds[Attackers[i]] = 0

\* A record that is not listed yet has not been fought.
HandIsFresh == netPc \in {"lock", "add", "store"} => rounds[hand] = 0

\* The attack at n has been fought by those before it that the scan has reached,
\* or else once, by one of those behind it.
RoundsOf(n) == rounds[Attackers[n]]

RoundsSoFar ==
    \A n \in Index("attackers") : Live("attackers", n) =>
        /\ mainPc \notin Battles \cup Clears => RoundsOf(n) = 0
        /\ mainPc \in {"fetchAttacker"} \cup Searching /\ n >= i => RoundsOf(n) <= i - 1
        /\ mainPc \in Marks /\ n > i => RoundsOf(n) <= i

\* What a clearing loop puts back has not been fought.
KeptAreFresh ==
    sweeping = "attackers" => \A k \in 1 .. Len(kept) : rounds[kept[k]] = 0

\* Only records are counted.
RoundsOK == /\ rounds \in [Ptr -> Nat]
            /\ \A p \in Ptr : ~Allocated(p) => rounds[p] = 0

RoundsInv == /\ RoundsOK /\ UnresolvedAreFresh /\ SearcherIsFresh
             /\ HandIsFresh /\ RoundsSoFar /\ KeptAreFresh /\ AttacksMeetOnce
=============================================================================
