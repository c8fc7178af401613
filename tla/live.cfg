SPECIFICATION AllSpec
CONSTANTS
  j1 = j1
  j2 = j2
  p1 = p1
  w1 = w1
  w2 = w2
  e1 = e1
  e2 = e2
  g1 = g1
  g3 = g3
  o1 = o1
  o2 = o2
  m1 = m1
  m2 = m2
  k1 = k1
  Runtimes = {"go", "node", "python"}
  Jobs = {j1, j2}
  MaxSessions = 3
CHECK_DEADLOCK FALSE
INVARIANTS OneConnection NodeDrains
PROPERTIES StopEnds TableConverges EverySettles BacklogsEnd
