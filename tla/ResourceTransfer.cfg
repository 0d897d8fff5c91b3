SPECIFICATION Spec
CONSTANTS
  N = 5
  Seg = 4
  Window = 1
  Guard = 2
  Hashmaps <- AllMaps
  Cap <- SmallCap
  MaxAdvRetries = 1
  MaxLosses = 0
  MaxDups = 0
  MaxGarbled = 1
  MaxSendFails = 1
  MaxEarly = 1
  Closers = {"S", "R"}
  None = None
INVARIANTS
  DeliveredIntact
  SuccessIsDelivery
  HashmapTrue
  CorruptMeansCollision
  CancelHasCause
  StoppedByClose
CHECK_DEADLOCK FALSE
