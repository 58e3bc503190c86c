SPECIFICATION Spec
CONSTANTS
    MaxRelease = 2
    MaxFaults = 1
    MaxChallenges = 1
    MaxOwner = 1
INVARIANTS GatesWereMeasured
CHECK_DEADLOCK FALSE
