CONSTANTS
  Refreshes = {3, 5}
  NoFile = NoFile
  EmptyFile = EmptyFile
  MaxStamp = 3
SPECIFICATION FairSpec
PROPERTY StripIsCleared
