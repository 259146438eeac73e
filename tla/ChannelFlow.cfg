CONSTANTS
  Producers = {p1, p2}
  ProducerOps = {"push"}
  ProducerCalls = 2
  Consumers = {c1, c2}
  ConsumerOps = {"pop"}
  ConsumerCalls = 2
  Closers = {}
  CloserOps = {}
  CloserCalls = 0
  Threads <- Everyone
  Allowed <- OpsByRole
  MaxCalls <- CallsByRole
  Capacity = 2
  Blocking = TRUE
  ExclusiveReopen = TRUE
SPECIFICATION Spec
SYMMETRY Symmetry
INVARIANTS SlotExclusion ExactlyOnce ProducerOrder NoLostWakeup
