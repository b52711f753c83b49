SPECIFICATION Spec
CONSTANTS
  HighWater = 4
  LowWater = 1
  ChunkSize = {1, 2, 5}
  MaxChunk = 5
  WordSize = 64
  MaxOffset = 18
  ClientLeaves = TRUE
INVARIANTS BacklogBound WakeupComing
PROPERTY WaiterResumes
CHECK_DEADLOCK FALSE
