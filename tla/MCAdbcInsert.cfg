\* A driver that commits the stream as a whole and a queue of two batches, up
\* to seven source rows in chunks of none to three: the queue fills and drains, and
\* is aborted while full and while empty.
SPECIFICATION FairSpec
CONSTANTS
  SourceRows = 7
  ChunkSizes <- MCChunkSizes
  MaxBatchesParam = 2
  EnvSetting = 1
  DefaultMaxPendingBatches = 32
  Transactional = TRUE
INVARIANTS
  TypeOK
  QueueBounded
  RowsFlowInOrder
  ReportedRowsAreStored
  NoLostWakeup
  NoMutualWait
  ThreadOutlived
  FailureIsExplained
  BatchesReleased
  CancelledLeavesNothing
PROPERTIES
  KeepsPromise
  QueryEnds
\* the query ends
CHECK_DEADLOCK FALSE
