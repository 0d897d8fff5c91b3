SPECIFICATION Spec
CONSTANTS
  a = a
  b = b
  c = c
  Absent = Absent
  Config <- ConfigAdmin
  Users = {a, b}
  Procs = {p1, p2}
  Cmds = {"nick"}
  MaxMembers = 0
  InitMembers = {b}
  InitAdmins = {}
  MaxMsgs = 1
  MaxAnnounces = 1
  MaxPrunes = 0
  MaxCrashes = 0
  MaxSaveFails = 0
SYMMETRY ProcSymmetry
INVARIANTS
  NickAuthoritative
CHECK_DEADLOCK FALSE
