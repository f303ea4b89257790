SPECIFICATION Spec
CONSTANTS
  Terminals = {t1, t2}
  Daemons = {d1, d2}
  NoDaemon = NoDaemon
  MayGiveUp = TRUE
  MayCrash = TRUE
INVARIANT
  TypeOK
PROPERTIES
  OwnersRaced
  ReachableUnlessRaced
  Undisturbed
  AttachSettles
CHECK_DEADLOCK FALSE
