SPECIFICATION Spec
CONSTANTS
  Runtimes = {"go"}
  Jobs = {j1, j2}
  MaxSessions = 3
CHECK_DEADLOCK FALSE
INVARIANT DrainsInHand
