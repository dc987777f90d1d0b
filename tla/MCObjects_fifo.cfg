SPECIFICATION Spec
CONSTANTS
  t1 = t1
  t2 = t2
  t3 = t3
  s1 = s1
  q1 = q1
  a = a
  b = b
  NoList = NoList
  Task <- TwoTasks
  Semaphore <- NoSem
  QueueId <- OneQueue
  WaitList <- QueueLists
  Item <- TwoItems
  Capacity = 2
  MaxCount = 1
  MaxPrio = 1
  NumCores = 1
VIEW View
SYMMETRY SymmetryOfItems
INVARIANTS TypeOK
PROPERTY ImplementsFifo
