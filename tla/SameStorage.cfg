\* Does factory.get answer two callers with the same storage?
CONSTANTS
  r1 = r1
  r2 = r2
  r3 = r3
  Requests <- MCRequests
  Wants <- MCWantUser
  Entities <- MCEntities
  Fields <- MCFields
  OwnerOf <- MCOwnerOf
  TypeOf <- MCTypeOf
SPECIFICATION Spec
PROPERTY
  SameStorage
CHECK_DEADLOCK FALSE
