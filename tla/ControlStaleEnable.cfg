SPECIFICATION Spec
CONSTANTS
  Workers = {w1}
  Commands = {"enable", "disable"}
  MaxDispatches = 2
  MaxAttempts = 2
  MaxEvents = 3
PROPERTIES OwnerDisableStands
CHECK_DEADLOCK FALSE
