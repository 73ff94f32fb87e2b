SPECIFICATION FairSpec
CONSTANTS
  Programs = {"server", "client"}
  Thread = {t1, t2}
INVARIANTS
  StopsWhenAsked
PROPERTIES
  CtrlDStops
  SignalStopsUnlessReading
CHECK_DEADLOCK FALSE
