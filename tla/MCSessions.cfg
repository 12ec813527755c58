SPECIFICATION Spec
CONSTANTS
  r1 = r1  r2 = r2  r3 = r3  r4 = r4
  ann = ann  bob = bob  s1 = s1  s2 = s2
  None = None
  Requests = {r1, r2, r3}
  SeedUsers <- OneUser
  SeedSessions <- AnnIn
  Usernames = {"ann"}
  Emails = {"a@x"}
  Passwords = {"p1", "p2"}
  LongPasswords = {}
  MaxSessions = 2
  SessionDuration = 1
  TokenDuration <- OneDay
  WaitTime = 1
  BanDurations <- NoneForeverOneDay
  Second = 1
  DurationLimit = 2
  MaxTime = 1
  Ops <- SessionOps
  Faulty = {}
INVARIANTS
  TypeOK
  SessionsMatchCredentials
  InsertNeverConflicts
  SessionLifetimeBounded
PROPERTIES
  RevokedStaysRevoked
  RequestsAreAtomic
