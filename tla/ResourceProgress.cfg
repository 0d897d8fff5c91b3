SPECIFICATION FairSpec
CONSTANTS
  N = 3
  Seg = 2
  Window = 2
  Guard = 3
  Hashmaps <- OneMap
  Cap <- SmallCap
  MaxAdvRetries = 1
  MaxLosses = 1
  MaxDups = 1
  MaxGarbled = 0
  MaxSendFails = 0
  MaxEarly = 1
  Closers = {}
  None = None
PROPERTIES
  NeverStuck
CHECK_DEADLOCK FALSE
