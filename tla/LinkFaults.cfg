SPECIFICATION FairSpec
CONSTANTS
  Workers = {w1, w2}
  Big = {w2}
  MaxLinks = 4
  NoLink = NoLink
  NoPacket = NoPacket
  MaxMsgs = 1
  Copies = 1
  Ticking = TRUE
  Keepalive = 1
  Idle = 2
  FaultKinds = {"loss", "duplicate", "restart", "slow", "sendfail", "abort", "evict"}
  MaxFaults = 1
  MaxRefused = 1
INVARIANTS
  SuccessIsDelivered
  ProofWakes
  LinksBounded
  FaultCost
PROPERTIES
  Recovers
  HalfOpenFreed
