CONSTANTS
  c1 = c1
  c2 = c2
  Mqtt = Mqtt
  Callers <- MCOneCaller
  TxnMax = 3
  DataBlks = 2
  MaxCalls = 2
  NoFile = NoFile
  Mixed = Mixed
  down1 = down1
  down2 = down2
  tar = tar
  Transfers <- MCTransfers
  Archives <- MCUploads
  Uploads <- MCUploads
  TR50_FILE_TRANSFER_MAX = 2
SPECIFICATION CloudSpec
INVARIANT AnswerKept
CHECK_DEADLOCK FALSE
