\* One fiber and one callback on two threads, the caller's among them.
CONSTANTS
  w1 = w1
  w2 = w2
  u1 = u1
  x1 = x1
  x2 = x2
  c1 = c1
  any = any
  nullptr = nullptr
  Threads = {w1, w2}
  Root = w2
  UserFibers = {u1}
  CbFibers = {x1, x2}
  Callbacks = {c1}
  Pins = {any, w1}
  MaxYields = 2
  AnyThread = any
SPECIFICATION FairSpec
INVARIANTS OneWakeUp FiberOnOneThread SwapInAllowed CallbackRunsOnce
PROPERTIES CallbacksFinish StopReturns
CHECK_DEADLOCK FALSE
