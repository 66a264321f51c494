CONSTANTS
  t1 = t1
  t2 = t2
  t3 = t3
  a = a
  b = b
  Txn = {t1, t2, t3}
  Appenders = {}
  CheckpointTxns = {}
  FailingCommits = {}
  TRANSACTION_ID_START = 10
  MAXIMUM_QUERY_ID = 3
  MaxTimestamp = 3
  Val = {a, b}
  NULL = NULL
  NullValue = NullValue
  Absent = Absent
  NoWrite = NoWrite
  MaxRows = 2
  STORAGE_CHUNK_SIZE = 2
  MaxUndo = 2
  SizeT = 8
  FailingRetries = {}
SPECIFICATION MvccSpec
INVARIANT CommittedDeleteKept
CHECK_DEADLOCK FALSE
