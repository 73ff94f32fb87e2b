SPECIFICATION FairSpec
CONSTANTS
  Programs = {"server"}
  Thread = {t1, t2}
PROPERTIES
  SignalStops
CHECK_DEADLOCK FALSE
