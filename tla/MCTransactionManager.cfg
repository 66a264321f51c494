CONSTANTS
  t1 = t1
  t2 = t2
  ap = ap
  cp = cp
  Txn = {t1, t2, ap, cp}
  Appenders = {ap}
  CheckpointTxns = {cp}
  FailingCommits = {t1, t2}
  TRANSACTION_ID_START = 5
  MAXIMUM_QUERY_ID = 4
  MaxTimestamp = 5
SPECIFICATION TMSpec

INVARIANTS
  OwnedOnce
  UncommittedInvisible
  CleanupSafe
  ReclaimSafe
  QuiescentReclaimed
CHECK_DEADLOCK FALSE
