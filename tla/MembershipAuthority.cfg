SPECIFICATION Spec
CONSTANTS
  a = a
  b = b
  c = c
  Absent = Absent
  Config <- ConfigAdmin
  Users = {a, b}
  Procs = {p1, p2}
  Cmds = {"join", "usermode", "kick", "nick", "nickof", "textonly"}
  MaxMembers = 0
  InitMembers = {b}
  InitAdmins = {b}
  MaxMsgs = 3
  MaxAnnounces = 1
  MaxPrunes = 0
  MaxCrashes = 0
  MaxSaveFails = 0
SYMMETRY ProcSymmetry
PROPERTIES
  AuthorityWasHeld
  UserModeKeepsSender
CHECK_DEADLOCK FALSE
