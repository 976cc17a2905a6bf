SPECIFICATION EStopFairSpec
CONSTANTS
  BusLoss = 0
  MaxPress = 3
  MaxQueued = 2
PROPERTIES
  StopHeld
CHECK_DEADLOCK FALSE
