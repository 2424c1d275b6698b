\* Two sessions, of one user, of two or of a guest, two gomees of which any
\* may be stored already, two requests to add and one to remove.
CONSTANTS
  Gomees = {g1, g2}
  Markers = {m1, m2}
  Users = {ann, bob, Guest}
  Guest = Guest
  Posts = {p1, p2}
  Deletes = {d1}
  MaxSession = 2
  Own = Own
  None = None
SPECIFICATION Spec
SYMMETRY Symmetry
VIEW View
INVARIANTS
  KnownIsShown
  ShownIsKnown
  SessionsApart
\* The user may leave everything as it is.
CHECK_DEADLOCK FALSE
