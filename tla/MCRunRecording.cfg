SPECIFICATION FairSpec
CONSTANTS
  MaxQueued = 2
  MaxFailed = 1
INVARIANTS
  TypeOK
PROPERTIES
  OneRunPerArming
  ManualRunKept
  AutoDriveCaptured
  
