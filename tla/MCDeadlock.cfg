SPECIFICATION FairSpec
CONSTANTS
  r1 = r1  r2 = r2  r3 = r3  r4 = r4
  ann = ann  bob = bob  s1 = s1  s2 = s2
  None = None
  Requests = {r1, r2, r3}
  SeedUsers <- OneUser
  SeedSessions <- AnnIn
  Usernames = {"ann", "new"}
  Emails = {"a@x"}
  Passwords = {"p1"}
  LongPasswords = {}
  MaxSessions = 1
  SessionDuration = 1
  TokenDuration <- OneDay
  WaitTime = 1
  BanDurations <- Forever
  Second = 1
  DurationLimit = 2
  MaxTime = 0
  Ops <- DeadlockOps
  Faulty = {r1}
PROPERTY EveryRequestAnswered
