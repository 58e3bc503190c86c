SPECIFICATION Spec
CONSTANTS
  Actors = {p1, p2}
  None = None
  Accounts = {a0, a1}
  Deployed = a0
  MaxSessions = 2
  Latecomer = p3
  Threshold <- Thresholds
  MaxFailures = 4
  Issuer = issuer
  MaxSecrets = 3
  MaxEdits = 1
  Operations = {o1, o2}
  Edges = {e1, e2}
  Bearers = {t1, t2}
  MaxConcurrency = 1
  MaxRevocations = 3
  HostReleases <- ThreeReleases
  Level <- Levels
  MaxRelease = 2
  MaxChallenges = 1
  MaxOwner = 1
  MaxModes = 3
  Credentials = {c1}
  ServiceScopes = {s1}
  Windows = {1, 3}
  MaxTokens = 1
  MaxErrors = 1
  Contents = {x, y}
  MaxSequence = 3
  MaxReports = 4
  Revisions = {r1, r2}
  MaxChanges = 2
  MaxCrashes = 1
  MaxFaults = 1
SYMMETRY Symmetric
INVARIANTS
  UsableSessionIsCurrent
  FailuresAreCounted
  OneLiveToken
  CredentialWorks
  LedgerTellsRows
  DeregisteredIsDisconnected
  CapacityHolds
  SnapshotTellsRelease
  GatesWereRecorded
  OneHolder
  EpochTellsScopes
  OneChain
  PointerIsActive
CHECK_DEADLOCK FALSE
