SPECIFICATION Spec
CONSTANTS
  Workers = {w1}
  Tokens = {k1}
  Specs = {s1, s2}
  OpenSpecs = {}
  MaxTurns = 2
  MaxText = 1
  MaxFaults = 1
  NoToken = NoToken
  NoSpec = NoSpec
PROPERTY AcceptedProposalIsCurrent
CHECK_DEADLOCK FALSE
