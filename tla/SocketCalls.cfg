SPECIFICATION Spec
CONSTANTS
  client = client
  server = server
  Node = {client, server}
  Script <- BothSides
  Disconnects = {}
  Refusable = {"CONN"}
  MaxReqAttempts = 1
  CooldownNumer = 1
  CooldownDenom = 2
  MaxDisconnectCount = 1
  PingStart = 0
  PingInterval = 1
  Word = 256
  MaxSeqn = 1
  MaxWaiting = 1
  MaxQueue = 1
  Idle = Idle
  Dead = Dead
INVARIANTS
  TypeOK
  WaitingIsPending
PROPERTIES
  AtMostOnce
  CallsImplemented
