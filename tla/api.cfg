CONSTANTS
  a = a
  b = b
  s1 = s1
  s2 = s2
  g1 = g1
  g2 = g2
  e1 = e1
  e2 = e2
  k1 = k1
  k2 = k2
  qa = qa
  qq = qq
  qi = qi
  Users = {a, b}
  Passwords = {p, q}
  Slots = {s1, s2}
  Links = {k}
  Seed <- Roster
  FirstPass = p
  MaxFailed = 1
  ResetRate = 1
  MaxVersion = 2
  MaxRequests = 3
  Calls = {k1, k2, k3, k4, k5}
  Spends = {k4, k5}
  LIMIT = 2
  MaxFaults = 1
  Grants = {g1, g2}
  Events = {e1, e2}
  MaxNow = 1
  MaxMisses = 1
  People = {a}
  Requests = {s1, s2}
  PerMinute = 1
  OwnCap <- Own
  AllCap <- All
  TokCap = 1
  TokAll = 1
  Turn = 2
  MaxDays = 2
  MaxSent = 3
  MaxUnanswered = 1
  Ops = {1, 2}
  Publishes = {k1, k2}
  KeyOf <- MCKeyOf
  Queues = {qa, qq, qi}
  Bound <- MCBound
  Shares = {qa, qq}
  MAX_ATTEMPTS = 2
  MaxLinks = 2
  MaxTroubles = 1
  Authors = {a}
  Chats = {s1, s2}
  Limit = 3
  MaxMessages = 3
  MaxThreads = 3
  Tries = 2
  Assigned = {"student", "admin", "root"}
SYMMETRY Symm
SPECIFICATION ApiSpec
INVARIANTS SessionsAreCurrent OnlyOverlapOrphans CeilingsHold StoredIsShown RecordedGrantOpens GateHolds PublishedIsRun AnswersStand
CHECK_DEADLOCK FALSE
