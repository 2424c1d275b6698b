\* Three requests about User and Friend; any call of an init may fail.
CONSTANTS
  r1 = r1
  r2 = r2
  r3 = r3
  Requests <- MCRequests
  Wants <- MCWants
  Entities <- MCEntities
  Fields <- MCFields
  OwnerOf <- MCOwnerOf
  TypeOf <- MCTypeOf
SPECIFICATION FairSpec
INVARIANTS
  TypeOK
  ReadyBeforeUse
  FailureReportedOnce
PROPERTIES
  NothingGoesBack
  EveryRequestEnds
\* The system stops once every request has ended.
CHECK_DEADLOCK FALSE
