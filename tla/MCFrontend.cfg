CONSTANTS
  NThreads = 2
  MaxPending = 1
  MaxTasks = 4
  Throwing = {4}
  MaxFailures = 1
SPECIFICATION FrontendFairSpec
INVARIANTS
  FrontendTypeOK
  NoConnectionLost
  ContextPerWorker
PROPERTIES
  SignalHeeded
  ShutdownEnds
  EveryConnectionServed
