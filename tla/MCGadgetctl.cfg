CONSTANTS
  Shells = {s1, s2, s3}
  LoadedAtBoot = FALSE
SPECIFICATION Spec
INVARIANTS Inv ActiveIsHonest IdleIsHonest InitializingEnds
