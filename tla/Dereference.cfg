SPECIFICATION FairSpec
CONSTANTS
  s1 = s1
  s2 = s2
  u1 = u1
  r1 = r1
  a1 = a1
  Statuses = {s1, s2}
  Accounts = {a1}
  Urls = {u1}
  Redirects = {r1}
  Canon <- SmallCanon
  Author <- SmallAuthor
  InReplyTo <- SmallInReplyTo
  NoStatus = NoStatus
  NameKey <- SmallNameKey
  Procs = {p1, p2}
  Free = Free
  MaxNow = 1
  MaxCalls = 2
  MaxEvents = 1
  MaxIter = 3
INVARIANTS CopiesHaveRowID  
PROPERTIES  CallsEnd
CHECK_DEADLOCK FALSE
