CONSTANTS
  a = a
  b = b
  c = c
  sem = sem
  Idle = Idle
  NULL = NULL
  K_FOREVER = forever
  Main = a
  SLICE = 1
  MAX_TIMEOUT = 2
  Threads <- MCThreads
  Queues <- MCQueues
  AutoStart <- MCAutoStart
  Cooperative <- MCCooperative
  Sleepers <- AllThreads
  TimedTakers <- AllThreads
  Limit <- MCLimit
  Initial <- MCInitial
SPECIFICATION Spec
INVARIANT WaitQueueInv
