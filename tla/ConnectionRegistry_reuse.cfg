\* A handle that was disconnected, and the allocator's next answer: TLC refutes
\* what the test expects.
SPECIFICATION Spec
CONSTANTS
  Caller = {s1, s2}
  Catalog = {k}
  Connection = {c1, c2}
  Address = {a1, a2}
  None = None
INVARIANTS
  InvalidAfterDisconnect
CHECK_DEADLOCK FALSE
