CONSTANTS
  Blank = Blank
  plain = plain
  exclusive = exclusive
  unknown = unknown
  IOT_ACTION_QUEUE_MAX = 2
  IOT_WORKER_THREADS = 2
  Requests <- MCRequests
  Registered <- MCRegistered
  Exclusive <- MCExclusive
  Results <- MCResults
  MaxConnects = 2
  Spurious = TRUE
  CreateFails = TRUE
  MemoryFails = FALSE
SPECIFICATION FairSpec
INVARIANTS TypeOK NoSlotShared NoSlotLost QueueNeverFull ExclusiveAlone NoThreadOutlivesStop
PROPERTY ImplementsLedger
PROPERTY Served
