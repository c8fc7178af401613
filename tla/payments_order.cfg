SPECIFICATION EventsSpec
CONSTANTS
  Payments = {p1, p2}
  Ordered = {p1, p2}
  NoHint = {}
  Workers = {w1, w2}
  Slots = {e1, e2}
  MaxAttempts = 2
  MaxChanges = 3
  MaxTroubles = 0
CHECK_DEADLOCK FALSE
INVARIANT OneGrantPerOrder
