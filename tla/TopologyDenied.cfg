SPECIFICATION Spec
CONSTANTS
  Edges = {e1, e2}
  Sessions = {s1, s2}
PROPERTY DeniedIsDenied
CHECK_DEADLOCK FALSE
