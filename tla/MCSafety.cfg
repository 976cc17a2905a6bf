SPECIFICATION SafetySpec
CONSTANTS
  Dwell = 1
  RawLevel = {0, 1, 2, 4}
  MaxLatency = 0
  BusLoss = 3
  MaxPress = 4
  MaxQueued = 3
INVARIANTS
  TypeOK
  TriggerOnlyFromNormal
  EStopTypeOK
  LatchFollowsUi
PROPERTIES
  HeldBeforeLowering
  Settles
  EscalationShown
  ReachesVehicle
  VehicleAgrees
CHECK_DEADLOCK FALSE
