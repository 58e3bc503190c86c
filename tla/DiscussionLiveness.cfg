SPECIFICATION FairSpec
CONSTANTS
  Workers = {w1, w2}
  Tokens = {k1, k2}
  Specs = {}
  OpenSpecs = {}
  MaxTurns = 2
  MaxText = 0
  MaxFaults = 1
  NoToken = NoToken
  NoSpec = NoSpec
PROPERTY EveryTurnEnds
CHECK_DEADLOCK FALSE
