SPECIFICATION FairSpec
CONSTANTS
  SenderEnd = {s1, s2}
  ReceiverEnd = {r1, r2}
  Inner = {c1}
  Null = Null
  Gone = Gone
  MaxMessages = 2
  MaxLeaks = 1
INVARIANTS
  TypeOK
  CountsExact
  NoLostWakeup
PROPERTIES
  ReceiverFreed
CHECK_DEADLOCK FALSE
