CONSTANTS
  Installed = {"app_console", "user_script", "dbgbar"}
  MountPoints = {"UD0", "UD1"}
  MaxInstances = 2
SPECIFICATION FairSpec
INVARIANTS Inv EndsOnlyGoingDown TwoOnlyByRace NoOrphanMounts
PROPERTY UIRecovers
