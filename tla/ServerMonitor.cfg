SPECIFICATION FairSpec
CONSTANTS
  MaxStreak = 2
  MaxOrders = 3
  MaxSuppressed = 1
  MaxCrashes = 1
INVARIANTS ServedOnlyByLiveServer
PROPERTIES ContainedStaysContained OverdueGoesDown
CHECK_DEADLOCK FALSE
