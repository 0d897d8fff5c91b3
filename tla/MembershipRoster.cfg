SPECIFICATION Spec
CONSTANTS
  a = a
  b = b
  c = c
  Absent = Absent
  Config <- ConfigAdmin
  Users = {a, b, c}
  Procs = {p1, p2}
  Cmds = {"join", "leave", "ban", "unban"}
  MaxMembers = 1
  InitMembers = {}
  InitAdmins = {}
  MaxMsgs = 3
  MaxAnnounces = 0
  MaxPrunes = 1
  MaxCrashes = 1
  MaxSaveFails = 1
SYMMETRY ProcSymmetry
INVARIANTS
  BannedMemberRaced
  DiskCurrent
  RosterBounded
CHECK_DEADLOCK FALSE
