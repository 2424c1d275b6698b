\* Two calls of add_user for one login, and three calls that use the profile of
\* one user, two of which may overlap; a storage call or the server fails.
CONSTANTS
  Adds = {a1, a2}
  Logins = {joe}
  Uses = {u1, u2, u3}
  Vals = {x}
  MaxFaults = 1
  Blank = Blank
  Anything = Anything
  None = None
SPECIFICATION Spec
SYMMETRY Symmetry
INVARIANTS
  LoginTwiceOnlyByOverlap
  UserBeforeProfile
  LastUpdateFound
\* The system stops when every call has been made.
CHECK_DEADLOCK FALSE
