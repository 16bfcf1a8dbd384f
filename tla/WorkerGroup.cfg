\* three submitters and the caller of waitAll(), four jobs, batches of two
CONSTANTS
  Fibers = {f1, f2, f3, wt}
  Waiter = wt
  Jobs = {j1, j2, j3, j4}
  InitialConcurrency = 2
  MaxConcurrency = 2
SPECIFICATION GSpec
INVARIANTS BatchLimit AllDoneAfterWaitAll
PROPERTIES ImplementsSemaphore WaitersServed WaitAllReturns
CHECK_DEADLOCK FALSE
