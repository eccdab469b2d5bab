CONSTANTS
  NThreads = 2
  MaxPending = 1
  MaxTasks = 3
  Throwing = {}
  MaxFailures = 1
SPECIFICATION FrontendSpec
INVARIANTS
  TasksFinish
