SPECIFICATION FairSpec
CONSTANTS
  Senders = {s1}
  NoConn = NoConn
  InnerCap = 1
  OuterCap = 1
  Runts = {2}
  MaxConns = 3
  MaxFrames = 4
  MaxSends = 2
  MaxDialFails = 1
INVARIANTS
  FramesIntact
PROPERTIES
  Reconnects
  CloseStops
CHECK_DEADLOCK FALSE
