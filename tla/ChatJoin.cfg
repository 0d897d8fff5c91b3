SPECIFICATION Spec
CONSTANTS
  u1 = u1
  u2 = u2
  u3 = u3
  NoId = NoId
  NoBubble = NoBubble
  NoCopy = NoCopy
  Users = {u1, u2, u3}
  Bubbles = {1, 2}
  TTL = 1
  MaxKeys = 2
  Senders = {u1, u2, u3}
  Shapes <- Gated
  ForwardedFields = {"reaction", "reply", "quote", "image"}
  ReplayCount = 1
  MaxAge = 1
  InitTextOnly = {}
  InitMembers = {u1, u2}
  MaxInbound = 2
  MaxHandlers = 2
  MaxEvents = 4
  MaxSends = 0
  MaxCmds = 2
  MaxClock = 2
  MaxCrashes = 1
  MaxSaveFails = 1
SYMMETRY MemberSymmetry
INVARIANTS
  TypeOK
  GateHolds
  Reaches
  JoinerServed
  EmptyMeansStripped
CHECK_DEADLOCK FALSE
