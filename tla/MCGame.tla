------------------------------- MODULE MCGame -------------------------------
EXTENDS Game, TLC
PlayerSymmetry == Permutations(Player)

\* The records are read by the scan only, which does nothing more once all
\* collisions have been reported: states that differ in them are then one state.
Seen == <<clientVars, up, down, attack, met, mishap,
          IF met < MaxMeetings THEN record ELSE None>>
=============================================================================
