SPECIFICATION Spec
CONSTANTS
  Revisions = {r1, r2, r3}
  Sessions = {s1, s2}
  None = None
INVARIANTS OneActiveRevision
CHECK_DEADLOCK FALSE
