\* A query walks up to three entries while another request changes and deletes
\* them.
CONSTANTS
  Queries = {q1}
  Writers = {w1}
  Ids = {1, 2, 3}
  Vals = {1, 2}
  MaxWrites = 3
  MaxFailures = 1
  None = None
  Failure = Failure
SPECIFICATION FairSpec
INVARIANTS
  WhereAnswer
  CursorsClosed
PROPERTIES
  WhereEnds
\* The system stops when the query and the writes are done.
CHECK_DEADLOCK FALSE
