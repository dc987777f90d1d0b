SPECIFICATION AllSpec
CONSTANTS
  s1 = s1 s2 = s2 s3 = s3 p1 = p1 o1 = o1 e1 = e1 e2 = e2 atOnce = atOnce deferred = deferred
  m1 = m1 c0 = c0 c1 = c1 w = w i0 = i0 i1 = i1 h0 = h0 h1 = h1
  NoSleeper = NoSleeper NoTask = NoTask NoHost = NoHost
  Sleeper <- MCSleeper
  MaxTicks = 3
  Task <- MCTask
  W = 5
  NumCores = 1
  Windows <- MCWindows
  MaxPassed = 8
  Periodic <- MCPeriodic
  OneShot <- MCOneShot
  Entry <- MCEntry
  Pool <- MCPool
  PoolOf <- MCPoolOf
  PoolDelay <- MCPoolDelay
  MaxPeriod = 2
  MaxElapsed = 3
  MaxDistance = 3
  Ceilings = {3}
  Floor = 2
  MaxIdle = 3
  CountModulus = 4
  Cycles = 10
  MaxWindowTicks = 3
  MaxGap = 1
  MaxError = 4
  PeriodCycles = 3
  CountLimit = 50
  MaxReadGap = 1
  MaxWindow = 1
  MaxInterval = 4
  Ports = {"arm", "riscv"}
  MaxGeneration = 2
  MsgId = {m1}
  Byte = {7, 9}
  Length = {1, 2}
  MsgCapacity = 7
  Core = {c0, c1}
  Core0 = c0
  Masking = {"basepri", "mie"}
  MaxNest = 2
  Updater = {"t", "u"}
  Host = {0, 1}
  Args <- MCArgs
  Width = 2
  Ways = {"exclusive", "amo", "section"}
  HeapBase = 1
  HeapBytes = 17
  Align = 2
  HeaderSize = 2
  SizeModulus = 64
  Requests = {0, 1, 3, 31, 63}
  BufferSize = 7
  LineMax = 6
  Prefix = 0
  Bodies = {1, 2, 9}
  DropModulus = 3
  SwitchTask <- MCSwitchTask
  SwitchCore = {h0, h1}
  IdleOf <- MCIdleOf
  Builds <- MCBuilds
  Packages = {"fifo", "doorbell"}
  LaunchWords = 2
  FifoDepth = 2
  Declared = 4
  TickHz = 3
  Span = 10
  ArmCounts = 3
  Interval = 3
  MaxSkip = 4
  MaxMissed = 2
  Depth = 4
  MaxChanges = 4
  CounterLimit = 16
  MaxChunk = 4
  CounterHz = 5
  PerSecond = 3
  TickRate = 2
  Durations = {0, 1, 4, 10}
  MaxSpin = 3
  UsageLimit = 4
  MaxAnnounced = 3
  MaxSample = 6
VIEW View
INVARIANTS ComponentsTypeOK DelayNotShort TimeoutNotEarly CountdownsExact DeliveriesExact
  SectionSafe HeapExact LogFaithful SwitchSafe BootSafe WatermarkHonest DeepSafe
PROPERTIES ImplementsAlarm NotOverslept TicklessSafe TimekeepingExact AtomicsSafe
  ImplementsWhole
