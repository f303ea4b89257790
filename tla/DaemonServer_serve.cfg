SPECIFICATION Spec
CONSTANTS
  Conns = {c1, c2}
  Doms = {d1, d2}
  NoSnap = NoSnap
  OutCap = 3
  Menu = {"Hello", "HelloOldVersion", "Act", "Quit", "Ping", "EditConventions", "EditorDone", "Shutdown"}
  MaxMsgs = 3
  MaxEvents = 1
SYMMETRY Symmetry
INVARIANTS
  TypeOK
  AttachedAgree
  NoDuplicateSnapshots
  EventFeedExact
  StreamWellFormed
PROPERTY
  ImplementsSnapshotFeed
CHECK_DEADLOCK FALSE
