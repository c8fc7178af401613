SPECIFICATION WebSpec
CONSTANTS
  x = x
  y = y
  q1 = q1
  q2 = q2
  t1 = t1
  t2 = t2
  u1 = u1
  u2 = u2
  Trozos = 2
  MaxTouches = 4
  MaxSaid = 3
  Questions = {q1, q2}
  Options = {x, y}
  Right = x
  Marks = {1, 2}
  Target = 2
  MaxClicks = 5
  Providers = {"deepseek", "sonnet"}
  Pages = {1, 2}
  Hosts = {"panel", "composer"}
  Lists <- MCLists
  MaxPicks = 4
  Runs = {1, 2}
  Uv = {1}
  Mail = {1}
  MaxForeign = 1
  Procs = {t1, t2}
  Releases = {1, 2}
  Script <- MCScript
  DraftsOf <- MCDrafts
  Shuffles = 2
  Tries = 2
  MaxRuns = 2
  Old = 1
  MaxAsks = 3
  MaxTime = 2
  Targets <- MCTargets
  Pasos = 3
  MaxKeys = 6
  MaxFaults = 1
  Tabs = {t1, t2}
  States <- MCStates
  MaxPerSession = 2
  MinGap = 1
  FirstDelay = 1
  RepeatAfter = 3
  MaxNow = 5
  MaxMoves = 4
  Toasts = {t1, t2}
  Unlocks = {u1, u2}
  Key <- MCKey
  Life <- MCLife
  Lands = 2
  Departs = 4
  MaxBox = 2
  MaxUnlocked = 3
  Labs <- MCLabs
  LessonOf <- MCLessonOf
  Open = {1, 2}
  LessonGrades = 1
  WeekDays = 2
  Shown = 2
  Averaged = 1
  MaxDay = 2
  MaxAttempts = 3
SYMMETRY Symm
CHECK_DEADLOCK FALSE
INVARIANTS OneVoice PageTells LaneIsTidy BudgetHolds SaidIsSent PickersAgree WalksTell AllOrNothing  SeedStands
