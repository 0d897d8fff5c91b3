SPECIFICATION Spec
CONSTANTS
  m1 = m1
  m2 = m2
  r1 = r1
  r2 = r2
  i1 = i1
  i2 = i2
  None = None
  Msgs <- TwoMsgs
  Recipients = {r1}
  Rcpt <- RcptPair
  IDs = {i1, i2}
  Id <- IdDistinct
  WithBubble = {m1, m2}
  Workers = {w1, w2}
  MaxAttempts = 2
  PathlessTries = 2
  KnownCap = 2
  MaxAnnounces = 1
  MaxCrashes = 2
  MaxSaveFails = 1
  MaxPathFails = 0
SYMMETRY WorkerSymmetry
INVARIANTS
  OneSenderPerMessage
  SendsBounded
  GivenUpAfterEffort
  AckedOncePerLife
  FirstTriesInOrder
PROPERTIES
  LostOnlyWhenStale
CHECK_DEADLOCK FALSE
