SPECIFICATION KpiSpec
CONSTANTS
  DriveName = {"IDLE", "AUTO", "AVOID", "STOP", "ERROR"}
  Distance = {"near", "mid"}
  Behavior = {"OVERTAKE"}
  Reports <- MCReports
  MaxChanges = 4
  MaxSightings = 1
  Sensor = {"imu", "lane"}
  CanSource = {"stm32", "loc"}
  Imu = "bno055"
  Feeds <- MCFeeds
  Loc = "loc"
  LocMode = {"INIT", "GPS", "EKF"}
  Stale <- MCStale
  PollPeriod = 1
  WatchPeriod = 3
INVARIANTS
  TypeOK
  MissionsCountedOnce
  DetectionsCountedOnce
  BehaviorFollows
  OkMeansHeard
  SteadyIsOk
  ModeFollows
