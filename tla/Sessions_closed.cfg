SPECIFICATION Spec
CONSTANTS
  Projects = {p1, p2}
  Tasks = {t1}
  NoTask = NoTask
  Uuids = {u1, u2, u3}
SYMMETRY Symmetry
INVARIANT
  ClosedStaysClosed
