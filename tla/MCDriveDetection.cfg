SPECIFICATION Spec
CONSTANTS
  DriveName = {"IDLE", "AUTO", "AVOID", "STOP", "ERROR"}
  Distance = {"near", "mid", "far"}
  Behavior = {"OVERTAKE"}
  Reports <- MCReports
  MaxChanges = 4
  MaxSightings = 2
INVARIANTS
  DetectedRunsAreRuns
