\* both events of one fd, two workers: what is ready is served in the end
\* one pool thread that two callers give a callback each, which may be stopped
\* two fibers with two commands each; a connection fails or ends twice
CONSTANTS
  Workers = {w1, w2}
  Fds = {fd1}
  Events = {"READ", "WRITE"}
  MaxToggles = 4
  PoolSize = 1
  NumCallers = 2
  NumJobs = 2
  Fibers = {f1, f2}
  MaxCalls = 2
  MaxLosses = 2
SPECIFICATION LoopsSpec
INVARIANTS PendingIsRegistered KernelAgrees NoEdgeLost CtxHasCaller
PROPERTIES ReadyIsServed DispatchedRuns CmdReturns
CHECK_DEADLOCK FALSE
