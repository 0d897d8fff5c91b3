SPECIFICATION Spec
CONSTANTS
  u1 = u1
  u2 = u2
  u3 = u3
  NoId = NoId
  NoBubble = NoBubble
  NoCopy = NoCopy
  Users = {u1, u2, u3}
  Bubbles = {1, 2, 3}
  TTL = 1
  MaxKeys = 2
  Senders = {u1, u2}
  Shapes <- ReactionAndReply
  ForwardedFields = {"reaction", "reply", "quote", "image"}
  ReplayCount = 1
  MaxAge = 1
  InitTextOnly = {u3}
  InitMembers = {u1, u2, u3}
  MaxInbound = 3
  MaxHandlers = 1
  MaxEvents = 4
  MaxSends = 1
  MaxCmds = 0
  MaxClock = 2
  MaxCrashes = 1
  MaxSaveFails = 0
SYMMETRY MemberSymmetry
INVARIANTS
  AnnotationBinds
  CacheConsistent
  Reaches
CHECK_DEADLOCK FALSE
