SPECIFICATION Spec
CONSTANTS
  Chats = {s1, s2}
  Routed = TRUE
  MayDie = TRUE
  MayHang = FALSE
  MaxGens = 2
  MaxTurns = 2
  MaxAsks = 1
SYMMETRY Symmetry
INVARIANTS
  TypeOK
  OneQueryPerChat
  PendingTracked
CHECK_DEADLOCK FALSE
