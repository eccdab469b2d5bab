SPECIFICATION MonitoringSpec
CONSTANTS
  w1 = w1
  w2 = w2
  digester = digester
  main = main
  ls = ls
  Threads <- FewThreads
  Nobody = Nobody
  Workers = {w1}
  Digest = digester
  Main = main
  Monitors <- OneMonitor
  LogLevel = 3
  AuditEnabled = TRUE
  m_detailed = FALSE
  MaxOperations = 1
  MaxRounds = 1
  MaxSignals = 1
PROPERTY SignalStopsServer
CHECK_DEADLOCK FALSE
