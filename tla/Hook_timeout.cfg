CONSTANTS
  Fibers = {f1}
  none = none
  MaxCloses = 0
  MaxCalls = 2
  MaxArrivals = 1
SPECIFICATION FairSpec
PROPERTY TimedCallReturns
CHECK_DEADLOCK FALSE
