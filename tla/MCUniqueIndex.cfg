CONSTANTS
  t1 = t1
  t2 = t2
  t3 = t3
  Txn = {t1, t2}
  Appenders = {}
  CheckpointTxns = {}
  FailingCommits = {}
  TRANSACTION_ID_START = 10
  MAXIMUM_QUERY_ID = 3
  MaxTimestamp = 3
  Val = {1, 2, NULL}
  Key = {1, 2}
  NULL = NULL
  NullValue = NullValue
  Absent = Absent
  NoWrite = NoWrite
  MaxRows = 3
  STORAGE_CHUNK_SIZE = 3
  MaxUndo = 2
  SizeT = 8
  FailingRetries = {}
  InitialRows = {0, 2}
  StatementSize = 2
  MaxNodes = 5
  allow_nulls = TRUE
  NoJob = NoJob
  Nobody = Nobody
SPECIFICATION IndexSpec
SYMMETRY MCSymmetry
INVARIANTS
  UniqueKeys
  NoKeyForgotten
  RemovesLeaves
CHECK_DEADLOCK FALSE
