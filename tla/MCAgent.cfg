SPECIFICATION FairSpec
CONSTANTS
  Key = {"k"}
  Value = {v1, v2}
  TxId = {x1, x2}
  max_rounds = 2
  MaxCalls = 2
  MaxChats = 2
  NULL = NULL
INVARIANTS
  StoreIsReplay
  EveryCallAnswered
PROPERTIES
  GetsAreRight
  ChatEnds
