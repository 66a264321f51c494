SPECIFICATION Spec
CONSTANTS
  Bits <- MCBits
  STANDARD_VECTOR_SIZE = 4
  Fresh = 1
  Workloads <- MCWorkloads
INVARIANTS
  PipelineRight
  ChunkVerified
