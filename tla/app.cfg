SPECIFICATION AppSpec
CONSTANTS
  ana = ana
  ben = ben
  s1 = s1
  s2 = s2
  i1 = i1
  c1 = c1
  c2 = c2
  p1 = p1
  w1 = w1
  w2 = w2
  Users = {ana}
  Slots = {s1, s2}
  Staff = {}
  Item <- MCItem
  Answers <- MCAnswers
  Drafts = {}
  Exams <- MCExams
  QuizOf <- MCQuizOf
  FreeLessons = 1
  MaxRank = 1
  MaxRequests = 3
  MaxFaults = 1
  Checkouts = {c1, c2}
  Owner <- MCOwner
  Charges = {p1}
  Of <- MCOf
  Hinted = {}
  Workers = {w1, w2}
  EventAttempts = 2
  MaxEvents = 1
  MaxFailures = 2
  Sales = {p1}
  Ticks = {w1, w2}
  MaxAttempts = 2
  MaxTroubles = 2
  Ips = {i1}
  Versions <- Spellings
  Callers <- Asking
  Limit <- MCLimit
  Window = 2
  SweepAt = 1
  MaxTime = 2
  MaxForms = 3
  MaxHits = 1
  Students = {ana, ben}
  LabsInOrder <- MCLabsInOrder
  LessonOf <- MCLessonOf
  DraftLabs = {}
  FreeToAll = {1}
  AllLessons = {1, 2}
  For <- MCFor
  Asked <- MCAsked
  Active = {ana}
  Calls = {c1, c2}
  MaxSessions = 1
  QueueCap = 1
  StackCap = 1
  MemoCap = 1
  MaxChanges = 1
  Players = {ana, ben}
  Seats = {s1, s2}
  Aliases = {1, 2}
  MinLeague = 2
  AllLabs = 1
  OnPage = 2
  OnTool = 1
  MaxWeek = 1
  MaxCalls = 2
SYMMETRY Symm
CHECK_DEADLOCK FALSE
INVARIANTS AchievementsFollow CourseTells LeaguesTell EveryPrefixIsGuarded RowsSettle AcceptedIsSent ToolsTell
PROPERTIES NothingIsTakenAway
