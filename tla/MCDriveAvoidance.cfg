SPECIFICATION Spec
CONSTANTS
  DriveName = {"IDLE", "AUTO", "AVOID", "STOP", "ERROR"}
  Distance = {"near", "mid", "far"}
  Behavior = {"OVERTAKE"}
  Reports <- MCReports
  MaxChanges = 2
  MaxSightings = 1
INVARIANTS
  AvoidanceNudges
