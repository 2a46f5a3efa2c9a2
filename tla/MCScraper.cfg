SPECIFICATION Spec
CONSTANTS
  Transponders = {t1, t2}
  NoKey = NoKey
  MaxRows = 5
INVARIANTS
  FileFollowsColumns
  ClearIsKept
  LockedIsDropped
CHECK_DEADLOCK FALSE
