\* one timer, two workers; the clock may be set back once, by more than an hour
\* two providers that come or go twice between them; one expired session
\* nodes of two bytes, so that transfers cross their borders
CONSTANTS
  Timers = {t1}
  Workers = {w1, w2}
  Periods = {1, 2}
  MaxTime = 5
  Hour = 2
  MaxSetBacks = 1
  Ids = {p1, p2}
  MaxChanges = 2
  MaxExpiries = 1
  BaseSize = 2
  Byte = {0, 1}
  MaxNodes = 3
  MaxLength = 3
SPECIFICATION PartsSpec
INVARIANTS BalancerFollowsList OneLeftBehind
PROPERTIES NotEarly TimersExpire ListSettles RegisteredAgain ImplementsBuffer
