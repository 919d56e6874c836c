SPECIFICATION Spec
CONSTANTS
  Request <- MCRequest
  Remote <- MCRemote
  Batch <- MCBatch
  Row <- MCRow
  Answers <- Answer
  RowsOf <- Extract
  VectorSize = 2
  MaxScans = 2
INVARIANT FinishedIsComplete
INVARIANT AttachedSeesTheSame
PROPERTY Delivers
CHECK_DEADLOCK FALSE
