SPECIFICATION FairSpec
CONSTANTS
  r1 = r1  r2 = r2  r3 = r3
  ann = ann  x1 = x1
  None = None
  Requests = {r1, r2, r3}
  SeedUsers = {ann}
  SeedRoles <- OneRole
  Names = {"admin", "guest"}
  Descriptions = {"d"}
  Ops <- RoleOps
  Faulty = {r3}
INVARIANTS
  TypeOK
  RoleNamesUnique
  UpdatesStay
  AuthorsResolve
PROPERTY EveryRoleRequestAnswered
