------------------------- MODULE MCGameServerHistory -------------------------
(***************************************************************************)
(* Small instances of GameServerHistory and GameServerArena: the packets   *)
(* of MCGameServer, and of a third player who attacks one that is fighting *)
(* another.                                                                *)
(***************************************************************************)
EXTENDS GameServerHistory, GameServerArena, MCGameServer

CONSTANTS addrC, C

\* A and B fight each other, C fights B.
MeleePackets == {Combat(addrA, A, k, B) : k \in Attack}
                \cup {Combat(addrB, B, k, A) : k \in Attack}
                \cup {Combat(addrC, C, 0, B)}
=============================================================================
