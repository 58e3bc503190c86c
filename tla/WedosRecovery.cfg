SPECIFICATION FairSpec
CONSTANTS
  Operations = {o1}
  Processes = {p1}
  MaxFaults = 1
PROPERTY InterruptedIsCleaned
CHECK_DEADLOCK FALSE
