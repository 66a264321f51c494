CONSTANTS
  p1 = p1
  p2 = p2
  p3 = p3
  Thread = {p1, p2, p3}
  MaxChunks = 2
  Chunk = {0, 1}
  Nobody = Nobody
  NoChunk = NoChunk
  STORAGE_CHUNK_SIZE = 2
  AppendSizes = {1, 2}
  Workload <- MCWorkload
  MaxOps = 1
SPECIFICATION TableSpec
INVARIANTS
  ChunksFull
  NoRowLost
PROPERTIES
  ImplementsRWLock
  OperationsEnd
