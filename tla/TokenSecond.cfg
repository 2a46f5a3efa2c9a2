CONSTANTS
  Kinds = {"token"}
  N = 2
SPECIFICATION Spec
INVARIANT AnswersOfOneSecondAreWhole
CHECK_DEADLOCK FALSE
