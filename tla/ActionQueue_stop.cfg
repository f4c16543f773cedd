CONSTANTS
  Blank = Blank
  plain = plain
  exclusive = exclusive
  unknown = unknown
  IOT_ACTION_QUEUE_MAX = 2
  IOT_WORKER_THREADS = 2
  Requests <- MCRequests
  Registered <- MCRegistered
  Exclusive <- MCExclusive
  Results <- MCResults
  MaxConnects = 1
  Spurious = FALSE
  CreateFails = FALSE
  MemoryFails = FALSE
SPECIFICATION FairSpec
PROPERTY StopReturns
