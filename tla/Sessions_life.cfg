SPECIFICATION Spec
CONSTANTS
  Projects = {p1, p2}
  Tasks = {t1}
  NoTask = NoTask
  Uuids = {u1, u2, u3}
SYMMETRY Symmetry
INVARIANTS
  TypeOK
  OneCardPerTask
  NothingLost
  OwnProject
  EventsTrackLife
PROPERTY
  StopKeepsLive
