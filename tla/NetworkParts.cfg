\* two fibers; the socket may be closed, and its number used again
\* two providers with two calls, at once or one after the other
CONSTANTS
  Fibers = {f1, f2}
  none = none
  MaxCloses = 1
  MaxCalls = 3
  MaxArrivals = 2
  Streams = {1, 2}
  Cmds = {1, 2}
  Infos <- Registrations
  Handlers = {1, 2}
  MaxSets = 2
  MaxObjects = 5
SPECIFICATION PartsSpec
INVARIANTS WaiterHasWakeUp TimeoutIsOwn SocketHasCtx DirectoryAgrees
PROPERTIES ConnectMeansConnected ReadyCallReturns HeldCallGoesOn
CHECK_DEADLOCK FALSE
