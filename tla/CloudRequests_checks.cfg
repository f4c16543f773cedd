CONSTANTS
  c1 = c1
  c2 = c2
  Mqtt = Mqtt
  Callers <- MCTwoCallers
  TxnMax = 3
  DataBlks = 2
  MaxCalls = 4
  NoFile = NoFile
  Mixed = Mixed
  down1 = down1
  down2 = down2
  tar = tar
  Transfers <- MCTransfers
  Archives <- MCUploads
  Uploads <- MCUploads
  TR50_FILE_TRANSFER_MAX = 3
SPECIFICATION CloudSpec
CONSTRAINT Bounds
INVARIANTS
  TypeOK
  StatusHasCause
  NoDeafId
  IdsDistinct
  FileTypeOK
  FilesRight
  EndReported
CHECK_DEADLOCK FALSE
