CONSTANTS
  Producers = {p1, p2}
  ProducerOps = {"try_push", "try_push_weak"}
  ProducerCalls = 1
  Consumers = {c1}
  ConsumerOps = {"try_pop", "try_pop_weak"}
  ConsumerCalls = 1
  Closers = {x1}
  CloserOps = {"close_push", "close_soft", "count"}
  CloserCalls = 1
  Threads <- Everyone
  Allowed <- OpsByRole
  MaxCalls <- CallsByRole
  Capacity = 1
  Blocking = FALSE
  ExclusiveReopen = TRUE
SPECIFICATION Spec
SYMMETRY Symmetry
INVARIANTS SlotExclusion  NothingLost 
