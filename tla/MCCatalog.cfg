CONSTANTS
  t1 = t1
  t2 = t2
  t3 = t3
  main = main
  tbl = tbl
  fun = fun
  Txn = {t1, t2, t3}
  Appenders = {}
  CheckpointTxns = {}
  FailingCommits = {}
  TRANSACTION_ID_START = 10
  MAXIMUM_QUERY_ID = 3
  MaxTimestamp = 3
  SchemaNames = {main}
  TableNames = {tbl}
  FunctionNames = {fun}
  NoTxn = NoTxn
  MaxNodes = 6
SPECIFICATION CatalogSpec
SYMMETRY MCSymmetry
INVARIANTS
  CatalogSnapshot
  ChainsDoublyLinked
  UndoEntriesLive
  LookupSafe
  DropLosesNothingSeen
CHECK_DEADLOCK FALSE
