SPECIFICATION Spec
CONSTANTS
  t1 = t1
  t2 = t2
  t3 = t3
  s1 = s1
  q1 = q1
  a = a
  b = b
  NoList = NoList
  Task <- TwoTasks
  Semaphore <- OneSem
  QueueId <- OneQueue
  WaitList <- AllLists
  Item <- OneItem
  Capacity = 1
  MaxCount = 1
  MaxPrio = 2
  NumCores = 1
VIEW View
SYMMETRY SymmetryOfItems
INVARIANTS WaitersExact WaitersSorted NoLostWakeup ForeverWaits
