SPECIFICATION Spec
CONSTANTS
  Terminals = {t1, t2}
  Daemons = {d1, d2}
  NoDaemon = NoDaemon
  MayGiveUp = FALSE
  MayCrash = FALSE
INVARIANT
  OneServes
CHECK_DEADLOCK FALSE
