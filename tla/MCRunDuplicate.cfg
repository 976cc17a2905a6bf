SPECIFICATION Spec
CONSTANTS
  MaxQueued = 2
  MaxFailed = 0
PROPERTIES
  NoDuplicateRun
