SPECIFICATION Spec
CONSTANTS
  Me = Me
  MeAgain = MeAgain
  B = B
  C = C
  Self <- BothIdentities
  OtherPlayer = {B, C}
  Pair <- PairsMet
  Lives = 1
  MaxPackets = 4
  None = None
INVARIANTS
  TypeOK
  OneEntityPerPlayer
  UpdatesReachTheLiving
  NothingStranded
  SceneMatchesCombat
PROPERTIES
  StaleResultsNotCounted
  MatchIsPlayedToItsEnd
