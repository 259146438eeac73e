CONSTANTS
  Producers = {p1, p2}
  ProducerOps = {"push"}
  ProducerCalls = 1
  Consumers = {c1}
  ConsumerOps = {"pop"}
  ConsumerCalls = 1
  Closers = {x1}
  CloserOps = {"close_push", "close_soft"}
  CloserCalls = 1
  Threads <- Everyone
  Allowed <- OpsByRole
  MaxCalls <- CallsByRole
  Capacity = 1
  Blocking = TRUE
  ExclusiveReopen = TRUE
SPECIFICATION Spec
SYMMETRY Symmetry
INVARIANTS NoLostWakeup CloseAsserts Converged 
