SPECIFICATION Spec
CONSTANTS
  Txn = {t1, t2}
  Key = {"a", "c"}
  Value = {"v0", "v1"}
  hash_key <- MCHash
  key_buf <- MCKeyBuf
  val_buf <- MCValBuf
  Loaded = {"a"}
  InitVal = "v0"
  Loader = Loader
  NULL = NULL
  MAX_ROW_PER_TXN = 3
INVARIANT NoDirtyCommit
