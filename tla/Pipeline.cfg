SPECIFICATION Spec
CONSTANTS
  Workers = {w1}
  NoWorker = NoWorker
  w1 = w1
  MaxJobs = 2
  MaxAttempts = 1
  MaxQuestions = 0
  MaxOrders = 2
  MaxCrashes = 1
  MaxStalls = 0
INVARIANTS RuntimeIsActive
PROPERTIES FunctionalReleaseKept CompletedIsConformant
CHECK_DEADLOCK FALSE
