CONSTANTS
  m = m
  u = u
  w = w
  qm = qm
  qu = qu
  qw = qw
  Idle = Idle
  NULL = NULL
  K_FOREVER = forever
  Main = m
  SLICE = 1
  MAX_TIMEOUT = 2
  Threads <- MCThreads
  Queues <- MCQueues
  AutoStart <- MCAutoStart
  Cooperative <- MCCooperative
  Sleepers <- MCSleepers
  Lockers <- MCLockers
  PrioPairs <- MCPrioPairs
  StartPairs <- MCStartPairs
  AbortPairs <- MCAbortPairs
  CreatePairs <- MCCreatePairs
  JoinPairs <- MCJoinPairs
  JoinQueue <- MCJoinQueue
SPECIFICATION Spec
INVARIANTS
  TypeOK
  RunQueueInv
  CurrentInv
  WaitQueueInv
  TimeoutsInv
  NoLostJoin
