SPECIFICATION FairSpec
CONSTANTS
  Conns = {c1, c2}
  Doms = {d1, d2}
  NoSnap = NoSnap
  OutCap = 1
  Menu = {"Hello", "Act", "Shutdown"}
  MaxMsgs = 2
  MaxEvents = 0
PROPERTIES
  Converges
  HelloAnswered
  ShutdownObeyed
  GoneClientsReleased
CHECK_DEADLOCK FALSE
