SPECIFICATION FairSpec
CONSTANTS
  Task = {"input", "output", "session", "receiver"}
  MaxCommands = 1
  MaxNotifs = 2
INVARIANTS
  TypeOK
  TerminatedCause
  GoodbyeSent
  AckedIsShown
PROPERTIES
  ClientEnds
CHECK_DEADLOCK FALSE
