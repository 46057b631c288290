SPECIFICATION FairSpec
CONSTANTS
  Str = {"a", "long", "v", "wide", "0", "1"}
  len <- MCLen
  Key = {"a", "long"}
  Value = {"v", "wide"}
  hash_key <- MCHash
  SchemaFiles <- MCSchemaFiles
  DataFiles <- MCDataFiles
  TestRows = 2
  digits <- MCDigits
  KEY_BUF = 3
  VAL_BUF = 3
  MaxRows = 6
  NULL = NULL
INVARIANTS
  FieldsHoldStrings
  LastRecordCounts
  EngineReady
  ParamsSettled
PROPERTY StartEnds
