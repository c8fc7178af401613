SPECIFICATION LiveSpec
CONSTANTS
  o1 = o1
  o2 = o2
  g1 = g1
  g2 = g2
  g3 = g3
  m1 = m1
  m2 = m2
  k1 = k1
  Runtimes = {"node", "python"}
  Keys = {k1}
  Msgs = {m1}
  Unhandled = {}
  Unreadable = {}
  Jobs = {g1, g3}
  OwnerOf <- MCOwnerOf
  Owners = {o1, o2}
  KeyOf <- MCKeyOf
  MaxAttempts = 2
  MaxCopies = 4
  Prefetch = 2
  Faults = {"claim"}
  MaxFaults = 1
CHECK_DEADLOCK FALSE
PROPERTY EverySettles
