SPECIFICATION FairSpec
CONSTANTS
  client = client
  server = server
  Node = {client, server}
  Script <- ConnOnly
  Disconnects = {}
  Refusable = {}
  MaxReqAttempts = 1
  CooldownNumer = 1
  CooldownDenom = 2
  MaxDisconnectCount = 2
  PingStart = 2
  PingInterval = 1
  Word = 256
  MaxSeqn = 1
  MaxWaiting = 1
  MaxQueue = 1
  Idle = Idle
  Dead = Dead
PROPERTIES
  SilenceEnds
