\* Two statements of any kind, clears at any time, a driver that may answer
\* with less than it has or name a table twice, a load that may throw.
SPECIFICATION FairSpec
CONSTANTS
  Caller = {t1, t2}
  Name <- MCName
  Fold <- MCFold
  InitialRemote <- MCRemote
  Fallback <- MCFallback
  MaxTimes = 2
  MaxThrows = 1
  MaxClears = 1
INVARIANTS
  TypeOK
  LoadedIsComplete
  PointersStayValid
  QuietClearForgets
PROPERTIES
  LoadedOnlyGrows
  StatementsEnd
CHECK_DEADLOCK FALSE
