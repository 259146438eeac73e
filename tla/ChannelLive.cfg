CONSTANTS
  Producers = {p1, p2}
  ProducerOps = {"push"}
  ProducerCalls = 2
  Consumers = {}
  ConsumerOps = {}
  ConsumerCalls = 0
  Closers = {x1}
  CloserOps = {"close_soft"}
  CloserCalls = 1
  Threads <- Everyone
  Allowed <- OpsByRole
  MaxCalls <- CallsByRole
  Capacity = 2
  Blocking = TRUE
  ExclusiveReopen = TRUE
SPECIFICATION FairSpec
INVARIANT NoLostWakeup
PROPERTY ClosedReleases
CHECK_DEADLOCK FALSE
