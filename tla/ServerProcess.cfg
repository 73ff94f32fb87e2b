SPECIFICATION ServerFairSpec
CONSTANTS
  u1 = u1
  u2 = u2
  a1 = a1
  a2 = a2
  Username = {u1, u2}
  Address = {a1, a2}
  Script <- SenderAndFollower
  Lossy = {a2}
  Character <- Characters
  NotifMessages <- EscapedTexts
  MaxSilences = 1
  MaxSessions = 1
  MaxNotifs = 2
  NoUser = NoUser
  Unreadable = Unreadable
  Task = {"comm_notif", "comm_req", "prof", "persister", "notif"}
INVARIANTS
  ServerTypeOK
  JoinedOnce
  SentInOrder
  QueueInOrder
  DatagramsReadBack
PROPERTIES
  ServerEnds
  RequestAnswered
  NotifsDrain
CHECK_DEADLOCK FALSE
