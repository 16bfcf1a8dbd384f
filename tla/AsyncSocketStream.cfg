\* start(), a request and a message, or two calls of start() and one of them
CONSTANTS
  Requests = {r1}
  Messages = {m1}
  nullptr = nullptr
  MaxCalls = 3
SPECIFICATION FairSpec
INVARIANTS AnsweredOnce OkMeansAnswered NothingStuck OneSession
PROPERTIES RequestReturns FibersEnd
CHECK_DEADLOCK FALSE
