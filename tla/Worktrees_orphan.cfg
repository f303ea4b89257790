SPECIFICATION Spec
CONSTANTS
  t1 = t1
  t2 = t2
  Tasks = {t1, t2}
  Trees = {"a1", "b1", "a2", "a3", "b3", "a4"}
  Start <- MCStart
  Renamed <- MCRenamed
  MaxFails = 1
INVARIANT
  NoOrphans
