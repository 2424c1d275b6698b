\* Three calls against the start and the shutdown of the reactor.
CONSTANTS
  Calls = {c1, c2, c3}
  StopCall = stop
  NoCall = none
SPECIFICATION FairSpec
INVARIANTS
  AnsweredBeforeDown
  LateCallsNeverAnswered
PROPERTIES
  EveryCallAnswered
  ShutdownCompletes
  ImplementsSerialExecutor
\* The system stops for good once the reactor is down.
CHECK_DEADLOCK FALSE
