\* Two requests over two entities, of which any may be stored already, and a
\* put that fails.
CONSTANTS
  Requests = {r1, r2}
  Ids = {i1, i2}
  Vals = {x, y}
  MaxFailures = 1
  None = None
SPECIFICATION Spec
SYMMETRY Symmetry
INVARIANTS
  AddsBeforeRemovals
  SuccessIsComplete
  InstanceAgrees
PROPERTIES
  BackOnlyByHolders
\* The system stops when the requests have persisted.
CHECK_DEADLOCK FALSE
