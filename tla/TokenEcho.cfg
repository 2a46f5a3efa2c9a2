CONSTANTS
  Kinds = {"token"}
  N = 2
SPECIFICATION Spec
INVARIANT EchoedAnswersAreWhole
CHECK_DEADLOCK FALSE
