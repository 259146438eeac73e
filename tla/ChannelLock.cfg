CONSTANTS
  NoThread = nobody
  Producers = {}
  ProducerOps = {}
  ProducerCalls = 0
  Consumers = {}
  ConsumerOps = {}
  ConsumerCalls = 0
  Closers = {x1, x2, x3}
  CloserOps = {"close_push", "close_soft", "reopen"}
  CloserCalls = 2
  Threads <- Everyone
  Allowed <- OpsByRole
  MaxCalls <- CallsByRole
  Capacity = 1
  Blocking = TRUE
  ExclusiveReopen = FALSE
SPECIFICATION Spec
SYMMETRY Symmetry
INVARIANT LockExclusion
PROPERTY ClosersTakeTurns
