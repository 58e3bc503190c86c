SPECIFICATION Spec
CONSTANTS
  Workers = {w1}
  NoWorker = NoWorker
  w1 = w1
  MaxJobs = 1
  MaxAttempts = 1
  MaxQuestions = 1
  MaxOrders = 2
  MaxCrashes = 0
  MaxStalls = 0
INVARIANT CancelledLeavesNoCandidate
CHECK_DEADLOCK FALSE
