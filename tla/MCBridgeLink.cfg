SPECIFICATION MCSpec
CONSTANTS
  Domain <- MCDomain
  LogsOf <- MCLogsOf
  Networks <- MCNetworks
  BusStats = "busStats"
  MaxQueue = 2
  MaxFrames <- MCMaxFrames
  MaxEvents = 2
  MaxLogs = 4
  MaxNet = 2
  MaxCuts = 1
  MaxCopies = 2
  Budget = 4
INVARIANTS
  TypeOK
  EdgeAtMostOnce
  LogsInOrder
PROPERTIES
  ImplementsLatestValue
  Converges
