SPECIFICATION Spec
CONSTANTS
  DataStart = 2
  SizeBase = 1
  Targets = {bianbiang, sysctl}
  NoArchive = NoArchive
  Patches = {"p1", "p2"}
  NoFile = NoFile
  RootfsLen = 2
  RootfsOff = 5
  MaxStream = 3
  Chunk = 2
  Overlap = 2
INVARIANTS
  RoundTrip
  ReadersAgree
  GreenMeansGood
  VerdictOfGoodBuild
  ScanFindsAll
CHECK_DEADLOCK FALSE
