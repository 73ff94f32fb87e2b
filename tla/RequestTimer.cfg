SPECIFICATION Spec
CONSTANTS
  MaxReqAttempts = 8
  CooldownNumer = 11
  CooldownDenom = 16
  MaxDisconnectCount = 20
  PingStart = 4
  PingInterval = 2
  Word = 256
INVARIANTS
  ExpiresOnTime
CHECK_DEADLOCK FALSE
