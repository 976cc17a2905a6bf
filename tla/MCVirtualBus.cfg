SPECIFICATION BusSpec
CONSTANTS
  Adapters = {"can", "slcan"}
  AllowDemo = TRUE
  MaxInbox = 3
  MaxUnplug = 2
  MaxDist = 2
  MaxGoals = 3
  MaxPicks = 2
  MaxQueue = 2
INVARIANTS
  TypeOK
  DemoNeverLost
  StatusTells
  DemoTypeOK
  CancelledStops
  PrecisionKept
PROPERTIES
  FirstRetryReconnects
  LockReleases
CHECK_DEADLOCK FALSE
