\* Three requests pipelined on one connection to one resource; those of other
\* connections and resources share nothing with them.
CONSTANTS
  r1 = r1
  r2 = r2
  r3 = r3
  Conns = {c1}
  Requests = {r1, r2, r3}
  Resources = {s1}
  MaxTime = 1
  None = None
  BadRequest = BadRequest
SPECIFICATION FairSpec
CONSTRAINT InOrder
INVARIANTS
  
  TimedWhenIdle
  ReportedTime
PROPERTIES
  EveryRequestAnswered
CHECK_DEADLOCK FALSE
