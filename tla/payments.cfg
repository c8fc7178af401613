SPECIFICATION PaymentsSpec
CONSTANTS
  half = half
  gift = gift
  u1 = u1
  u2 = u2
  c1 = c1
  c2 = c2
  i1 = i1
  i2 = i2
  i3 = i3
  p1 = p1
  p2 = p2
  p3 = p3
  w1 = w1
  w2 = w2
  e1 = e1
  e2 = e2
  Codes = {half, gift}
  Free = {gift}
  Cap <- MCCap
  Users = {u1, u2}
  Calls = {c1, c2}
  Places = {i1, i2, i3}
  MaxFaults = 1
  Payments = {p1, p2, p3}
  Ordered = {p1, p2}
  NoHint = {p3}
  Workers = {w1, w2}
  Slots = {e1, e2}
  MaxAttempts = 1
  MaxChanges = 2
  MaxTroubles = 2
SYMMETRY Symmetry
CHECK_DEADLOCK FALSE
INVARIANTS CapHolds RedeemedIsBacked SettledRowsHoldTheOrder
