CONSTANTS
  s1 = s1
  s2 = s2
  Session <- MCSession
  Query <- MCQuery
  MaxItems = 2
  MaxRows = 2
  MaxQueries = 3
  MaxAttempts = 2
SYMMETRY Symmetric
SPECIFICATION Spec
INVARIANTS
  EffectOnce
  ExecutedIsEvaluated
  CommitCovers
  CallsFindItOpen
CHECK_DEADLOCK FALSE
