CONSTANTS
  a = a
  b = b
  c = c
  b1 = b1
  b2 = b2
  b3 = b3
  x = x
  y = y
  m1 = m1
  m2 = m2
  s1 = s1
  s2 = s2
  p1 = p1
  p2 = p2
  mutex = mutex
  condvar = condvar
  MSGQ = MSGQ
  POLL = POLL
  FIFO = FIFO
  SLAB = SLAB
  FLAGS = FLAGS
  SIGNAL = SIGNAL
  ISR = ISR
  Idle = Idle
  NULL = NULL
  K_FOREVER = forever
  Main = a
  SLICE = 1
  MAX_TIMEOUT = 1
  MAX_MSGS = 2
  LIMIT = 1
  Threads <- MCThreads
  Queues <- MCQueues
  AutoStart <- MCThreads
  Cooperative <- MCThreads
  Nodes <- MCNodes
  Users <- MCUsers
  Bits <- MCBits
  RESET_VALUE <- MCReset
  Messages <- MCMessages
  Sems <- MCSem1
  Pollfds <- MCPollfds
  OBJ <- MCOneSem
  PollSets <- MCOneObject
  PollTimeouts <- MCPollTimeouts
  Mutexes <- MCMutexes
  Condvars <- MCCondvars
  CondMutex <- MCCondMutex
  Uses <- MCMutexUses
SPECIFICATION Spec
INVARIANT MutualExclusion
