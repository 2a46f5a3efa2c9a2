SPECIFICATION Spec
CONSTANTS
  Bytes = {0, 49}
  MaxLen = 2
INVARIANT NoneMeansNone
CHECK_DEADLOCK FALSE
