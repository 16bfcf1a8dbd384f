\* a call that registers while another fiber closes the socket
CONSTANTS
  Fibers = {f1, f2}
  none = none
  MaxCloses = 1
  MaxCalls = 2
  MaxArrivals = 1
SPECIFICATION Spec
INVARIANT AddAssertion
CHECK_DEADLOCK FALSE
