\* One fiber on two threads is enough to leave it behind.
CONSTANTS
  w1 = w1
  w2 = w2
  u1 = u1
  any = any
  nullptr = nullptr
  Threads = {w1, w2}
  Root = nullptr
  UserFibers = {u1}
  CbFibers = {}
  Callbacks = {}
  Pins = {any}
  MaxYields = 2
  AnyThread = any
SPECIFICATION Spec
INVARIANT StopsWithNothingLeft
CHECK_DEADLOCK FALSE
