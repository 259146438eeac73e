CONSTANTS
  Workers = {w1, w2}
  Waiters = {a, b}
  WaitOps = {"wait", "wait_timed"}
  Counts = {1}
  Use = "once"
  MaxCalls = 2
  MaxCount = 2
SPECIFICATION FairSpec
INVARIANTS TypeOK WaitedForZero 
PROPERTIES ZeroReleases TimedReturns
CHECK_DEADLOCK FALSE
