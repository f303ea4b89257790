SPECIFICATION FairSpec
CONSTANTS
  Chats = {s1}
  Routed = TRUE
  MayDie = TRUE
  MayHang = FALSE
  MaxGens = 2
  MaxTurns = 1
  MaxAsks = 1
PROPERTY
  TurnsEnd
CHECK_DEADLOCK FALSE
