SPECIFICATION FairSpec
CONSTANTS
  Adapters = {"can"}
  AllowDemo = FALSE
  MaxInbox = 1
  MaxUnplug = 1
PROPERTIES
  KeepsTrying
CHECK_DEADLOCK FALSE
