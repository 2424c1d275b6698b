\* Three Deferreds and six callbacks, which may do anything the program does,
\* and one pause of each.
CONSTANTS
  Deferreds = {d1, d2, d3}
  Value = Value
  User = User
  MaxAdds = 6
  MaxPauses = 1
SPECIFICATION DeferredSpec
SYMMETRY Symmetry
INVARIANTS
  OneAtATime
  NothingLeftBehind
PROPERTY ResultsAreSettled
\* The program may leave everything as it is.
CHECK_DEADLOCK FALSE
