SPECIFICATION Spec
CONSTANTS
  Workers = {w1}
  Commands = {"enable", "disable", "QUARANTINE"}
  MaxDispatches = 2
  MaxAttempts = 1
  MaxEvents = 3
INVARIANTS LiveIsConfirmed
CHECK_DEADLOCK FALSE
