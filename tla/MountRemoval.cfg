CONSTANTS
  Installed = {"dbgbar"}
  MountPoints = {"UD0", "UD1"}
  MaxInstances = 2
SPECIFICATION Spec
INVARIANT MountPointsAreRemoved
