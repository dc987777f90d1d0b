SPECIFICATION Spec
CONSTANTS
  t1 = t1
  t2 = t2
  t3 = t3
  s1 = s1
  m1 = m1
  m2 = m2
  NoList = NoList
  Nobody = Nobody
  Gone = Gone
  Task <- Tasks
  Semaphore <- Semaphores
  Mutex <- Mutexes
  WaitList <- Lists
  MaxDepth = 8
  MaxCount = 1
  MaxPrio = 2
  NumCores = 1
CONSTRAINTS PreemptedWaiting TwoOrThree OneAway FewLimits SemaphoreOrMutex
ACTION_CONSTRAINT PausedInCall
VIEW View
SYMMETRY Symmetry
INVARIANTS ChainsExact PriorityExact FreeIsOffered NoEndlessCycle
