CONSTANTS
  Installed = {"dbgbar"}
  MountPoints = {"UD0"}
  MaxInstances = 2
SPECIFICATION FairSpec
PROPERTY StatusBarRespawns
