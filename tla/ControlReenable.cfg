SPECIFICATION Spec
CONSTANTS
  Workers = {w1}
  Commands = {"enable", "disable"}
  MaxDispatches = 2
  MaxAttempts = 1
  MaxEvents = 3
INVARIANTS EnableCanBeConfirmed
CHECK_DEADLOCK FALSE
