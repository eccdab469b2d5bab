CONSTANTS
  NThreads = 3
  MaxPending = 2
  MaxTasks = 5
  Throwing = {}
SPECIFICATION FairSpec
INVARIANTS
  TypeOK
  TaskConservation
  NoLostWakeup
  ActiveCount
  NoWorkerOutlivesPool
PROPERTIES
  StopPreventsStart
  TaskQueueSafety
  TaskQueueSpec
  EveryTaskServed
  DestructorEnds
