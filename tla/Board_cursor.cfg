SPECIFICATION Spec
CONSTANTS
  Tasks = {1, 2}
  NoTask = 0
  Statuses = {1, 2}
  Wip = 1
  Gone = 0
  Uuids = {u1, u2, u3}
  NoCard = NoCard
SYMMETRY Symmetry
INVARIANT
  TypeOK
PROPERTIES
  ActivityKeepsCard
  OpenFocuses
