SPECIFICATION Spec
CONSTANTS
  r1 = r1  r2 = r2  r3 = r3  r4 = r4
  ann = ann  bob = bob  s1 = s1  s2 = s2
  None = None
  Requests = {r1, r2}
  SeedUsers <- TwoUsers
  SeedSessions <- BothIn
  Usernames = {"ann", "bob", "new"}
  Emails = {"a@x", "b@x"}
  Passwords = {"p1", "p2", "long"}
  LongPasswords = {"long"}
  MaxSessions = 1
  SessionDuration = 1
  TokenDuration <- OneDay
  WaitTime = 1
  BanDurations <- Seconds
  Second = 2
  DurationLimit = 4
  MaxTime = 0
  Ops <- AnyTwo
  Faulty = {r2}
INVARIANT EmailsWereAskedFor
PROPERTY RequestsAreAtomic
