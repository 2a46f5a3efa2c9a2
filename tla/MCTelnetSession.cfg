CONSTANTS
  Kinds = {"split", "token", "prompt"}
  N = 3
CHECK_DEADLOCK FALSE
SPECIFICATION FairSpec
INVARIANTS SplitAnswersAreWhole TokenLagIsBounded PromptLagIsBounded
PROPERTY SessionEnds
