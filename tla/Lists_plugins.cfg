CONSTANTS
  t1 = t1
  t2 = t2
  b1 = b1
  b2 = b2
  h1 = h1
  h2 = h2
  v1 = v1
  v2 = v2
  fa = fa
  fb = fb
  fc = fc
  None = None
  NoName = NoName
  NoValue = NoValue
  NoFile = NoFile
  Kinds <- MCKinds
  Threads <- MCThreads
  BuiltIn <- MCBuiltIn
  Heap <- MCHeap
  Max = 3
  Names <- MCNames
  ItemFailures = 1
  Holders <- MCHolders
  Keys <- MCKeys
  Spellings <- MCSpellings
  Values <- MCValues
  IOT_OPTION_MAX = 3
  OptionFailures = 2
  Plugins <- MCPlugins
  Order <- MCOrder
  Loaded <- MCLoaded
  IOT_PLUGIN_MAX = 3
  Members <- MCMembers
  MaxCalls = 5
  Readers <- MCThreads
  Files <- MCFiles
  MaxIds = 2
  Callers <- MCThreads
  NoCaller = None
  Telemetry <- MCTelemetry
  Type <- MCType
  Data <- MCData
  Given <- MCGiven
  MaxTimes = 2
  MaxSamples = 3
SPECIFICATION AllSpec
SYMMETRY Symmetry
CHECK_DEADLOCK FALSE
INVARIANT CalledInOrder
