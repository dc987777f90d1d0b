SPECIFICATION FairSpec
CONSTANTS
  t1 = t1
  t2 = t2
  t3 = t3
  Idle = Idle
  None = None
  Task <- ThreeTasks
  SystemTask <- NoTasks
  NumCores = 1
  MaxPrio = 2
  AffinityMask <- AnyOnly
  TimeSlice = 2
  MaxLock = 2
  IsrStarts = FALSE
INVARIANTS TypeOK QueuesExact RunningIsCurrent PreemptionRequested
PROPERTY TopPriorityRuns
