CONSTANTS
  t1 = t1
  t2 = t2
  t3 = t3
  Txn = {t1, t2, t3}
  table = table
  key = key
  index = index
  Object = {table, key, index}
  Group <- MCGroup
  None = None
  NoFile = NoFile
  Partial = Partial
  MaxCrashes = 3
SPECIFICATION StorageSpec
INVARIANTS
  CheckpointComplete
  Recoverable
  RestartKeepsCommitted
PROPERTIES
  NeverForgets
  Reopens
