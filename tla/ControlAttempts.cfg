SPECIFICATION FairSpec
CONSTANTS
  Workers = {w1, w2}
  Commands = {"enable", "disable", "state", "heartbeat", "QUARANTINE", "RESTORE", "RETIRE", "DEREGISTER"}
  MaxDispatches = 1
  MaxAttempts = 2
  MaxEvents = 3
INVARIANTS AnswerIsFinal
PROPERTIES EveryCommandSettles
CHECK_DEADLOCK FALSE
