SPECIFICATION Spec
CONSTANTS
  Users = {u1, u2}
  Joiners = {u1}
  Absent = Absent
  Idle = 1
  Silent = 2
  MaxAge = 1
  KnownCap = 1
  Behind = 1
  Ahead = 1
  MaxDay = 3
  MaxEmits = 2
  MaxMsgs = 3
  MaxSaveFails = 1
  MaxCrashes = 1
INVARIANTS
  PruneExact
CHECK_DEADLOCK FALSE
