SPECIFICATION Spec
CONSTANTS
  None = None
  Torn = Torn
  Raisers = {"r1", "r2"}
  Channels = {"PRIMARY"}
  Deliverers = {"d1", "d2"}
  MaxAlerts = 2
  MaxAttempts = 2
  MaxRetries = 1
  Credentials = {"c1"}
  Scopes = {"s1"}
  Windows = {1, 3}
  MaxTokens = 1
  MaxChanges = 1
  MaxErrors = 1
  Runs = {"r1"}
  Scenarios = {"s1"}
  Workers = {"w1", "w2"}
  Requests = {"q1"}
  MaxRotations = 1
  Calls = {"c1", "c2"}
  MaxCommands = 2
  MaxCrashes = 1
INVARIANTS OneStandingAlert AcknowledgedIsKept
PROPERTIES DeliveredIsFinal EveryDeliverySettles EvidenceRecovers EveryRunEnds EveryCallSettles
CHECK_DEADLOCK FALSE
