-------------------------- MODULE GameServerArena --------------------------
(***************************************************************************)
(* The refinement mapping under which GameServer implements Arena.         *)
(***************************************************************************)
EXTENDS GameServer

\* What Arena keeps of a record.
EntryOf(r) == [id |-> r.id, opponentID |-> r.opponentID,
               currentAttack |-> r.currentAttack, unresolved |-> r.unresolved]

\* The board: the records in the slots of pendingAttackers that are owed one.
Slots == {n \in Index("attackers") : Live("attackers", n)}
Listed == {EntryOf(heap[Attackers[n]]) : n \in Slots}

\* The player whose attack the network thread has deleted and not yet replaced.
Replacing == netPc = "store" /\ filing = "attackers"
Absent == IF Replacing THEN heap[hand].id ELSE None

\* The player a slot belongs to, also while its record is being replaced.
PlayerAt(n) == IF Replacing /\ n = slot THEN heap[hand].id
               ELSE heap[Attackers[n]].id

Stage == CASE mainPc = "findOpponent"  -> "open"
           [] mainPc = "fight"         -> "met"
           [] mainPc = "resolveFirst"  -> "told"
           [] mainPc = "resolveSecond" -> "half"
           [] OTHER                    -> "idle"

FirstPlayer == IF Stage = "idle" THEN None ELSE PlayerAt(i)
SecondPlayer == IF Stage \in {"idle", "open"} THEN None ELSE PlayerAt(j)

Announced == IF out # Silence /\ out.kind = "roundWinner" THEN out ELSE Silence

Attacks == INSTANCE Arena WITH
    Player <- ID, listed <- Listed, absent <- Absent, stage <- Stage,
    first <- FirstPlayer, second <- SecondPlayer, announced <- Announced

\* Seen from the attacks, the two threads with their unlocked scans, reused
\* addresses and deferred deletions behave as a board with one attack for each
\* player: every access of either thread is one step of Arena, or none.
ImplementsArena == Attacks!Spec
=============================================================================
