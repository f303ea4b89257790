SPECIFICATION FairSpec
CONSTANTS
  Chats = {s1, s2}
  Routed = FALSE
  MayDie = FALSE
  MayHang = TRUE
  MaxGens = 2
  MaxTurns = 1
  MaxAsks = 1
PROPERTIES
  TurnsEnd
  OnlyHungKilled
CHECK_DEADLOCK FALSE
