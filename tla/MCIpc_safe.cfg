SPECIFICATION Spec
CONSTANTS
  t1 = t1
  t2 = t2
  e1 = e1
  m1 = m1
  b1 = b1
  b2 = b2
  NoList = NoList
  Task <- TwoTasks
  Bit <- TwoBits
  Request <- Requests
  MsgId <- OneMsg
  MaxPrio = 1
  NumCores = 1
  EventId <- OneEvent
  Byte <- OneByte
  Length <- ShortAndLong
  MsgCapacity = 6
  WaitList <- EventAndMsgLists
VIEW View
SYMMETRY Symmetry
CONSTRAINTS OneKind OneBudget
INVARIANTS TypeOK NoLostWakeup DeliveryFits
