CONSTANTS
  Clients = {c1, c2, c3, c4, c5}
  BootCompat = boot
  Grace = 4
  NoDeadline = NoDeadline
  SingleOwner = TRUE
  CleanFailures = TRUE
  MaxFails = 3
  MaxTicks = 1
SPECIFICATION FairSpec
INVARIANT Inv
INVARIANT HeldMeansBound
PROPERTY NoFlap
PROPERTY ReleasingEnds
PROPERTY ImplementsLifecycle
