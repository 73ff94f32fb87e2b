SPECIFICATION FairSpec
CONSTANTS
  Username = {u1, u2}
  Address = {a1, a2}
  MaxSessions = 1
  MaxNotifs = 0
  NoUser = NoUser
  Unreadable = Unreadable
INVARIANTS
  SessionsConsistent
  FollowersKnown
  FileBehindMemory
  GracefulSave
  TornFileRefused
PROPERTIES
  EventuallySaved
