CONSTANTS
  Workers = {w1, w2}
  Clients = {c1}
  Times = {1, 2}
  MaxTimeout = 3
  AnyThread = any
  Pins = {any, w1}
  MaxPushes = 1
SPECIFICATION FairSpec
INVARIANT TimerIsWatched
PROPERTY TasksAreTaken
