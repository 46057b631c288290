SPECIFICATION FairSpec
CONSTANTS
  Thread = {t1, t2}
  Pk = {p1, p2, p3}
  Item = {i1, i2}
  NULL = NULL
INVARIANT OneNodePerKey
PROPERTIES
  Linearizable
  EveryIndexCallReturns
