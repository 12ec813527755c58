SPECIFICATION Spec
CONSTANTS
  r1 = r1  r2 = r2  r3 = r3
  ann = ann  f1 = f1  f2 = f2 
  None = None
  Requests = {r1, r2, r3}
  Flows = {f1, f2}
  Users = {ann}
  MaxConns = 1
  Calls <- SomeCalls
  Hanging = {r3}
INVARIANTS
  TypeOK
  OwnSession
  LogsOwnStatus
  StopsGracefully
PROPERTIES
  EndsOnSignal
  EveryoneServed
