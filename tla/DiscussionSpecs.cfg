SPECIFICATION Spec
CONSTANTS
  Workers = {w1, w2}
  Tokens = {k1, k2}
  Specs = {s1, s2}
  OpenSpecs = {s2}
  MaxTurns = 2
  MaxText = 0
  MaxFaults = 1
  NoToken = NoToken
  NoSpec = NoSpec
SYMMETRY Symmetric
INVARIANTS ApprovalIsRepresentative
PROPERTY KeepsContract
CHECK_DEADLOCK FALSE
