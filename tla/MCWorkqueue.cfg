CONSTANTS
  main = main
  other = other
  worker = worker
  x = x
  dly = dly
  e = e
  tm = tm
  FIFO = FIFO
  ISR = ISR
  Idle = Idle
  NULL = NULL
  K_FOREVER = forever
  Main = main
  WORKER = worker
  SLICE = 1
  MAX_TIMEOUT = 2
  Careful = TRUE
  Threads <- MCThreads
  Queues <- MCQueues
  AutoStart <- MCThreads
  Cooperative <- MCCoop
  Nodes <- MCWorks
  Delayables <- MCDelayables
  Events <- MCEvents
  Timers <- MCTimers
  PERIOD <- MCPeriod
  Starters <- MCStarters
SPECIFICATION Spec
INVARIANTS
  NoWorkLost
  DelayedOnce
  TimersOK
  EventsOK
PROPERTY
  WorkStarts
