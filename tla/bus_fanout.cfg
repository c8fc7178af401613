SPECIFICATION FanSpec
CONSTANTS
  c1 = c1
  api = api
  queue = queue
  ai = ai
  Publishes = {c1}
  KeyOf <- MCKey
  Queues = {api, queue, ai}
  Bound <- MCBound
  Shares = {api, queue}
  MAX_ATTEMPTS = 2
  MaxLinks = 1
  MaxTroubles = 0
CHECK_DEADLOCK FALSE
INVARIANT EveryBoundServiceRuns
