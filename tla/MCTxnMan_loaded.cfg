SPECIFICATION FairSpec
CONSTANTS
  Txn = {t1, t2}
  Key = {"a", "b"}
  Value = {"v0", "v1", "v1, long"}
  hash_key <- MCHash
  key_buf <- MCKeyBuf
  val_buf <- MCValBuf
  Loaded = {"a", "b"}
  InitVal = "v0"
  Loader = Loader
  NULL = NULL
  MAX_ROW_PER_TXN = 3
INVARIANTS
  LatchesMatch
  WaitsAscend
  WriteAdvancesWts
PROPERTIES
  Serializable
  CallsAreAtomic
  EveryCallReturns
