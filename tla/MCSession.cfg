SPECIFICATION FairSessionSpec
CONSTANTS
  Client = {c1}
  Rec = {"a"}
  Value = {v1}
  InitVal = v0
  TxnNo = 57
  NULL = NULL
  val_cut <- MCValCut
  MAX_VALUE = 3
  MAX_LINE = 8
  SP = SP
  TAB = TAB
  CR = CR
  Pipeline = 2
INVARIANT InTxnIsHandle
PROPERTIES
  ClosedClientIsForgotten
  PlainPutIsExact
