SPECIFICATION Spec
CONSTANTS
  t1 = t1
  t2 = t2
  t3 = t3
  Idle = Idle
  None = None
  Task <- TwoTasks
  SystemTask <- NoTasks
  NumCores = 2
  MaxPrio = 1
  AffinityMask <- AnyOnly
  TimeSlice = 1
  MaxLock = 0
  IsrStarts = FALSE
PROPERTY StackFreeOnCreate
