\* Two requests about one or two gomees, with up to two names each.
CONSTANTS
  Requests = {r1, r2}
  Gomees = {g1, g2}
  Names = {a, b}
  MaxNames = 2
  MaxFaults = 1
  None = None
SPECIFICATION Spec
SYMMETRY Symmetry
INVARIANTS
  DuplicatesSpreadOnly
  NamesAsWanted
  NoNameLost
\* The system stops when every call has ended.
CHECK_DEADLOCK FALSE
