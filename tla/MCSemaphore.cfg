CONSTANTS
  a = a
  b = b
  c = c
  sem = sem
  Idle = Idle
  NULL = NULL
  K_FOREVER = forever
  Main = a
  SLICE = 2
  MAX_TIMEOUT = 2
  Threads <- MCThreads
  Queues <- MCQueues
  AutoStart <- MCAutoStart
  Cooperative <- MCCooperative
  Sleepers <- MCSleepers
  TimedTakers <- MCTimedTakers
  Limit <- MCLimit
  Initial <- MCInitial
SPECIFICATION FairSpec
INVARIANTS
  TypeOK
  WaitQueueInv
  Conservation
  NoLostWakeUp
  IInv
PROPERTIES
  Implements
  TimedWaitEnds
