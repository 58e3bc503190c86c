SPECIFICATION FairSpec
CONSTANTS
  Workers = {w1}
  NoWorker = NoWorker
  w1 = w1
  MaxJobs = 1
  MaxAttempts = 1
  MaxQuestions = 1
  MaxOrders = 1
  MaxCrashes = 1
  MaxStalls = 1
PROPERTY EveryJobSettles
CHECK_DEADLOCK FALSE
