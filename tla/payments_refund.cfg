SPECIFICATION EventsSpec
CONSTANTS
  Payments = {p1}
  Ordered = {p1}
  NoHint = {p1}
  Workers = {w1, w2}
  Slots = {e1, e2}
  MaxAttempts = 2
  MaxChanges = 2
  MaxTroubles = 0
CHECK_DEADLOCK FALSE
INVARIANT RefundRevokes
