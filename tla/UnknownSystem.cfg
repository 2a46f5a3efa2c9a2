SPECIFICATION Spec
CONSTANTS
  Transponders = {t1, t2}
  NoKey = NoKey
  MaxRows = 5
INVARIANT EncryptedIsSkipped
CHECK_DEADLOCK FALSE
