SPECIFICATION FairSpec
CONSTANTS
  Domain <- MCDomain
  LogsOf <- MCLogsOf
  Networks <- MCPerfect
  BusStats = "busStats"
  MaxQueue = 1
  MaxFrames <- MCOneFrame
  MaxEvents = 1
  MaxLogs = 1
  MaxNet = 1
  MaxCuts = 0
  MaxCopies = 0
  Budget = 4
PROPERTIES
  EdgeForwarded
