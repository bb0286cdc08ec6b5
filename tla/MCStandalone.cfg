CONSTANTS
  i1 = i1
  i2 = i2
  i3 = i3
  c1 = c1
  c2 = c2
  u1 = u1
  u2 = u2
  f1 = f1
  f2 = f2
  ROOT = ROOT
  NULL = NULL
  NONE = NONE
  EMPTY = EMPTY
  NoFrame = NoFrame
  NoUser = NoUser
  MAXOWED = 1
  WIDTH = 5
  RINGSIZE = 3
  PROMPT = TRUE
  BUF_LEN_BITS = 2
  TRIES = 2
  ARGS_CHECKS = FALSE
  Entries <- MCEntries
  Bytes <- MCBytes
  TxData <- MCTxData
  RxSizes <- MCRxSizes
  Chars <- MCBytes
  Transfers <- MCTransfers
  Masters <- MCMasters
  LOSES <- MCLoses
  CSD_VERSIONS <- MCCsd
  CanUsers <- MCCanUsers
  Frames <- MCFrames
  Arriving <- MCArriving
  Parts <- MCParts
SPECIFICATION FairSpec
INVARIANTS
  AgreesWithList
  AgreesWithTdlist
  RingFifo
  TxNotified
  RxInOrder
  Moved
  SdDone
  Unselected
  SentOnce
  ReceivedOnce
PROPERTIES
  CallsReturn
  TxEnds
