\* two threads register events for fds beyond the end
CONSTANTS
  none = none
  Threads = {t1, t2}
  Fds = {2, 5}
  InitialSize = 2
SPECIFICATION Spec
INVARIANT ContextKept
