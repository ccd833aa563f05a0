----------------------------- MODULE MCRPSMatch -----------------------------
(***************************************************************************)
(* RPSMatchDuel for TLC: the two clients are interchangeable.              *)
(***************************************************************************)
EXTENDS RPSMatchDuel, TLC

PlayerSymmetry == Permutations(Player)
=============================================================================
