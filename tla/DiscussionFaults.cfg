SPECIFICATION Spec
CONSTANTS
  Workers = {w1, w2}
  Tokens = {k1, k2}
  Specs = {s1}
  OpenSpecs = {}
  MaxTurns = 2
  MaxText = 1
  MaxFaults = 1
  NoToken = NoToken
  NoSpec = NoSpec
SYMMETRY Symmetric
INVARIANTS SingleWriter NewestMessageWins ReplyTellsOutcome
CHECK_DEADLOCK FALSE
