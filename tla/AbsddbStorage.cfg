\* Two clients, an entity and the entity it refers to; all three methods.
CONSTANTS
  Clients = {c1, c2}
  Children = {g}
  Parents = {u}
  Vals = {v1, v2}
  Ops = {"get", "put", "remove"}
  MaxOps = 2
  None = None
  Failure = Failure
SPECIFICATION FairAbsddbSpec
INVARIANTS
  AbsddbTypeOK
  HalfLoadedIsLoading
PROPERTIES
  Truthful
  ReferencesPreserved
  CacheSettles
  UsesSerialExecutor
  EveryCallEnds
\* The clients stop when they have made their calls.
CHECK_DEADLOCK FALSE
