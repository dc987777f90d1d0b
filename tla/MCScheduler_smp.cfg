SPECIFICATION Spec
CONSTANTS
  t1 = t1
  t2 = t2
  t3 = t3
  Idle = Idle
  None = None
  Task <- TwoTasks
  SystemTask <- OnlyT1
  NumCores = 2
  MaxPrio = 1
  AffinityMask <- AnyOrSecond
  TimeSlice = 1
  MaxLock = 1
  IsrStarts = TRUE
INVARIANTS OneCore AffinityRequested
PROPERTY LockPinsTask
