SPECIFICATION FairSpec
CONSTANTS
  w1 = w1
  w2 = w2
  r1 = r1
  t1 = t1
  t2 = t2
  t3 = t3
  Workers = {w1, w2}
  Runs = {r1}
  Tokens = {t1, t2, t3}
  Steps <- ReadMutateRead
  MaxFaults = 1
  NoToken = NoToken
  NoRun = NoRun
INVARIANTS SingleFinisher OutcomeIsTrue
PROPERTIES DoubtIsReported EveryRunEnds
CHECK_DEADLOCK FALSE
