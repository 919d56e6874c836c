\* Every pair of filters on two columns in either order, or on one beside a
\* virtual column.
SPECIFICATION PushdownSpec
CONSTANTS
  Identifier = {"a", "b", "f"}
  Name <- MCName
  Virtual = Virtual
  ColumnIds <- MCColumnIds
  Filter <- MCFilter
  Depth = 2
  Value = {1, 2}
  Null = Null
  Row <- MCRow
INVARIANTS
  WhereIsTheFilters
CHECK_DEADLOCK FALSE
