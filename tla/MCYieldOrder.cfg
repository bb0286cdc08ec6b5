CONSTANTS
  a = a
  b = b
  c = c
  sem = sem
  Idle = Idle
  NULL = NULL
  K_FOREVER = forever
  Main = a
  SLICE = 1
  MAX_TIMEOUT = 1
  Threads <- MCThreads
  Queues <- MCQueues
  AutoStart <- MCThreads
  Cooperative <- MCThreads
  Sleepers <- MCNobody
  TimedTakers <- MCNobody
  Limit <- MCCounts
  Initial <- MCCounts
SPECIFICATION YieldSpec
PROPERTY RunsAfterTheOthers
