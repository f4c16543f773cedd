CONSTANTS
  level = level
  total = total
  stray = stray
  bad = bad
  errors = errors
  Retval = total
  Stdout = stray
  Stderr = errors
  Commands <- MCCommands
  NoReturn <- MCNoReturn
  None = None
  Top <- MCTop
  Exact <- MCExact
  FLT_MAX = 48
  Actions <- MCActions
  Names <- MCNames
  BadNames <- MCBadNames
  Sent <- MCSent
  Produced <- MCProduced
  IOT_PARAMETER_MAX = 2
  MaxSent = 2
  MaxSet = 1
  MaxReads = 1
SPECIFICATION Spec
INVARIANTS TypeOK NumbersArrive CalledRight AnswerComplete
CHECK_DEADLOCK FALSE
