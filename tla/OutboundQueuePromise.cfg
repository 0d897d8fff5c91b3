SPECIFICATION FairSpec
CONSTANTS
  m1 = m1
  m2 = m2
  r1 = r1
  r2 = r2
  i1 = i1
  i2 = i2
  None = None
  Msgs <- TwoMsgs
  Recipients = {r1, r2}
  Rcpt <- RcptSplit
  IDs = {i1, i2}
  Id <- IdClash
  WithBubble = {m1, m2}
  Workers = {w1, w2}
  MaxAttempts = 3
  PathlessTries = 1
  KnownCap = 1
  MaxAnnounces = 1
  MaxCrashes = 1
  MaxSaveFails = 0
  MaxPathFails = 1
INVARIANTS
  UnreachableWasAsked
PROPERTIES
  KeepsPromise
  Drains
CHECK_DEADLOCK FALSE
