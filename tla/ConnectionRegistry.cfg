\* Two callers, one catalog, three connections in two places of memory.
SPECIFICATION FairSpec
CONSTANTS
  Caller = {s1, s2}
  Catalog = {k}
  Connection = {c1, c2, c3}
  Address = {a1, a2}
  None = None
INVARIANTS
  TypeOK
  RegisteredAreOpen
  NoUseAfterRelease
  ReleasedInOrder
  OpenedAreOwned
  CatalogHandleIsItsOwn
PROPERTIES
  DisconnectedAreClosed
\* every wrapper may have been used up
CHECK_DEADLOCK FALSE
