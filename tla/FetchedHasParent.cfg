\* Two clients get the same entity; does each see its reference?
CONSTANTS
  Clients = {c1, c2}
  Children = {g}
  Parents = {u}
  Vals = {v1, v2}
  Ops = {"get"}
  MaxOps = 1
  None = None
  Failure = Failure
SPECIFICATION AbsddbSpec
PROPERTY
  FetchedHasParent
CHECK_DEADLOCK FALSE
