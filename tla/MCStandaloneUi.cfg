SPECIFICATION FairSpec
CONSTANTS
  Domain <- MCDomain
  LogsOf <- MCLogsOf
  BusStats = "busStats"
  MaxQueue = 2
  MaxFrames <- MCMaxFrames
  MaxEvents = 2
  MaxLogs = 4
INVARIANTS
  TypeOK
  NoLostUpdate
  EdgeOnceAndKept
  LogsContiguous
PROPERTIES
  EventuallyShown
  ImplementsLatestValue
