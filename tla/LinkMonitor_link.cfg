CONSTANTS
  TR50_PING_INTERVAL = 1
  TR50_TIMEOUT_RECONNECT_MS = 1
  TR50_PING_MISS_ALLOWED = 0
  MaxCount = 1
  MaxOutages = 1
  MaxLate = 1
  Uint8 = 4
  MaxPings = 1
  MaxCallbacks = 2
SPECIFICATION LinkFairSpec
CHECK_DEADLOCK FALSE
INVARIANTS
  LinkTypeOK
  BeliefIsCorrected
PROPERTY
  Recovers
