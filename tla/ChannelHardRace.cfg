CONSTANTS
  Producers = {p1, p2, p3}
  ProducerOps = {"push", "try_push"}
  ProducerCalls = 1
  Consumers = {}
  ConsumerOps = {}
  ConsumerCalls = 0
  Closers = {x1}
  CloserOps = {"close_hard"}
  CloserCalls = 1
  Threads <- Everyone
  Allowed <- OpsByRole
  MaxCalls <- CallsByRole
  Capacity = 2
  Blocking = TRUE
  ExclusiveReopen = TRUE
SPECIFICATION Spec
SYMMETRY Symmetry
INVARIANT SlotExclusion
CHECK_DEADLOCK FALSE
