CONSTANT
  MaxBack = 2
SPECIFICATION SeqSpec
INVARIANT SeqInv
PROPERTY TogglesOnSequence
