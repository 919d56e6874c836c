\* Every kind of scan, one ALTER TABLE at any moment, results of up to three
\* rows in chunks of two, two executions of the plan.
SPECIFICATION Spec
CONSTANTS
  Scans <- MCScans
  Column <- MCColumn
  Type <- MCType
  Schema <- MCSchema
  RowId = RowId
  VectorSize = 2
  RowsAffected <- MCRowsAffected
  MaxColumns = 2
  MaxRows = 3
  MaxEmpty = 1
  MaxAlters = 1
  MaxScans = 2
INVARIANTS
  TypeOK
  NothingLeftOpen
  ColumnsInPlace
PROPERTIES
  Delivers
  ProgressIsHonest
CHECK_DEADLOCK FALSE
