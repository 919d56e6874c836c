\* adbc_scan alone: the table is altered between binding and execution.
SPECIFICATION Spec
CONSTANTS
  Scans <- MCAdbcScanOnly
  Column <- MCColumn
  Type <- MCType
  Schema <- MCSchema
  RowId = RowId
  VectorSize = 2
  RowsAffected <- MCRowsAffected
  MaxColumns = 2
  MaxRows = 1
  MaxEmpty = 1
  MaxAlters = 1
  MaxScans = 1
INVARIANTS
  TypesMatchTheData
CHECK_DEADLOCK FALSE
