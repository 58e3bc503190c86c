SPECIFICATION Spec
CONSTANTS
  w1 = w1
  w2 = w2
  r1 = r1
  t1 = t1
  t2 = t2
  t3 = t3
  Workers = {w1, w2}
  Runs = {r1}
  Tokens = {t1, t2, t3}
  Steps <- MutateRead
  MaxFaults = 1
  NoToken = NoToken
  NoRun = NoRun
SYMMETRY Symmetric
INVARIANTS MutationNotRepeated
CHECK_DEADLOCK FALSE
