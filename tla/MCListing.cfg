SPECIFICATION Spec
CONSTANTS
  r1 = r1
  u1 = u1  u2 = u2  u3 = u3  u4 = u4  x1 = x1  x2 = x2
  None = None  Bad = Bad
  Requests = {r1}
  Queries <- SomeQueries
  Pool <- SomeRows
  Seed <- FirstRows
  DefaultLimit = 2
  MaxLimit = 2
  MaxSessions = 2
  MaxTime = 1
  MaxWrites = 2
INVARIANTS
  TypeOK
  PagingMissesNobody
  CallersNeverPanic
  OwnSessionListed
  PagingEnds
CHECK_DEADLOCK FALSE
