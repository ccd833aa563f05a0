---------------------------- MODULE MCGameServer ----------------------------
(***************************************************************************)
(* Small instances of GameServer.  Each set of packets is what the clients *)
(* of one kind of run may send; every packet may be sent again at any time *)
(* and the packets arrive in any order.                                    *)
(***************************************************************************)
EXTENDS GameServer, FiniteSets, TLC

CONSTANTS addrA, addrB, A, B

PtrSymmetry == Permutations(Ptr)

Update(a, id, pos, inCombat) ==
    [kind |-> "update", address |-> a, id |-> id, position |-> pos,
     collisionRadius |-> 0, inCombat |-> inCombat, currentAttack |-> 0,
     opponentID |-> None]

Combat(a, id, attack, opponent) ==
    [kind |-> "combat", address |-> a, id |-> id, position |-> 0,
     collisionRadius |-> 0, inCombat |-> TRUE, currentAttack |-> attack,
     opponentID |-> opponent]

Disconnection(a) == [kind |-> "disconnection", address |-> a]
Other(a) == [kind |-> "other", address |-> a]

\* Two players walk between two places, in and out of combat.
WorldPackets ==
    {Update(addrA, A, pos, FALSE) : pos \in {0, 1}}
    \cup {Update(addrB, B, 0, c) : c \in BOOLEAN}
    \cup {Update(addrA, B, 0, FALSE), Disconnection(addrA), Other(addrB)}

\* Two players fight each other with every attack.
DuelPackets == {Combat(addrA, A, k, B) : k \in 0 .. 2}
               \cup {Combat(addrB, B, k, A) : k \in 0 .. 2}

\* One attack each is enough to tell whether attacks meet.
ShortDuelPackets == {Combat(addrA, A, 0, B), Combat(addrB, B, 0, A)}

\* There is an address for every record that may be listed and one in hand.
ASSUME PtrAssumption == Cardinality(Ptr) > Cardinality(ID)
=============================================================================
