SPECIFICATION Spec
CONSTANTS
  Accounts = {a0, a1}
  Deployed = a0
  Requests = {r1, r2}
  MaxSessions = 2
  MaxChanges = 1
INVARIANTS OwnerRemains
CHECK_DEADLOCK FALSE
