SPECIFICATION NotifSpec
CONSTANTS
  Username = {u1, u2, u3}
  Address = {a1, a2}
  MaxSessions = 1
  MaxNotifs = 1
  NoUser = NoUser
  Unreadable = Unreadable
SYMMETRY Symmetry
INVARIANTS
  TypeOK
  PendingCountExact
  WakeupPerNotif
CHECK_DEADLOCK FALSE
