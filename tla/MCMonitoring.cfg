SPECIFICATION MonitoringSpec
CONSTANTS
  w1 = w1
  w2 = w2
  digester = digester
  main = main
  ls = ls
  Threads <- AllThreads
  Nobody = Nobody
  Workers = {w1, w2}
  Digest = digester
  Main = main
  Monitors <- OneMonitor
  LogLevel = 1
  AuditEnabled = TRUE
  m_detailed = TRUE
  MaxOperations = 2
  MaxRounds = 2
  MaxSignals = 1
INVARIANTS
  MonitoringTypeOK
  NoOperationLost
  SummaryCoversRound
PROPERTY
  MonitoringNeverBlocks
CHECK_DEADLOCK FALSE
