----------------------------- MODULE MCClientNet -----------------------------
(***************************************************************************)
(* A client among two others: it is met by either of them, reported first  *)
(* or second, and they meet each other.  Its identity may change once.     *)
(***************************************************************************)
EXTENDS ClientNet

CONSTANTS Me, MeAgain, B, C

BothIdentities == <<Me, MeAgain>>
PairsMet == {<<Me, B>>, <<C, Me>>, <<B, C>>, <<MeAgain, B>>}
=============================================================================
