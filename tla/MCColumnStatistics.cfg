SPECIFICATION Spec
CONSTANTS
  Column = {"n", "s"}
  Text = {"s"}
  Table <- MCTable
INVARIANTS
  NoRowIsDenied
