CONSTANTS
  Workers = {w1, w2}
  Fds = {fd1}
  Events = {"READ", "WRITE"}
  MaxToggles = 4
SPECIFICATION Spec
INVARIANT TriggerAssertion
CHECK_DEADLOCK FALSE
