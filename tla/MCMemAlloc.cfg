CONSTANTS
  Thread = {0, 1}
  pid <- MCPid
  g_thread_cnt = 2
  BlockSizes <- MCBlockSizes
  HEADER = 16
  MEM_ALLIGN = 8
  BUFFER_BLOCKS = 3
  Request = {24, 200, 300}
  MaxBuffers = 2
  MaxHeld = 2
  MaxForeign = 1
  MaxEntries = 2
  NULL = NULL
SPECIFICATION Spec
CONSTRAINT Followed
INVARIANTS
  FindsOwn
  NoBlockTwice
  BlocksServe
  BlocksFit
