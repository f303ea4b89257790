SPECIFICATION Spec
CONSTANTS
  MaxId = 3
  Repos = {"r1", "r2", "r3", "r4"}
  Mapped = {"r1", "r2", "r3"}
  Branches = {1, 2, 3, 4}
  Start <- MCStart
  GhStart <- MCGhStart
  NewLink <- MCNewLink
  Edits <- MCEdits
  Creators = {c1}
  Gone = Gone
  Torn = Torn
  MaxOps = 2
  MaxFails = 1
INVARIANT
  MergedNow
CHECK_DEADLOCK FALSE
