SPECIFICATION FairSpec
CONSTANTS
  Worker = {w1, w2}
  Verifier = v
  Client <- MCClient
  Rec = {"hotk_0"}
  Value = {}
  InitVal = 0
  TxnNo = 57
  MAX_LINE = 5
  SP = SP
  TAB = TAB
  CR = CR
  NULL = NULL
  val_cut <- MCLongNumbers
  TXN_PER_THREAD = 2
  MaxTimeouts = 1
INVARIANTS
  NoLostUpdate
  RepliesAligned
  CountedIsWritten
PROPERTY TestFinishes
