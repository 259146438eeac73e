CONSTANTS
  Workers = {w1, w2}
  Waiters = {a}
  WaitOps = {"wait"}
  Counts = {1}
  Use = "rounds"
  MaxCalls = 3
  MaxCount = 2
SPECIFICATION Spec
INVARIANTS WaitedForZero
CHECK_DEADLOCK FALSE
