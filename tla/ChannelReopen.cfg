CONSTANTS
  Producers = {p1}
  ProducerOps = {"push"}
  ProducerCalls = 2
  Consumers = {c1}
  ConsumerOps = {"pop"}
  ConsumerCalls = 2
  Closers = {x1}
  CloserOps = {"close_push", "close_soft", "close_hard", "reopen"}
  CloserCalls = 3
  Threads <- Everyone
  Allowed <- OpsByRole
  MaxCalls <- CallsByRole
  Capacity = 1
  Blocking = TRUE
  ExclusiveReopen = TRUE
SPECIFICATION Spec
SYMMETRY Symmetry
INVARIANTS TypeOK Converged NothingLost NoLostWakeup ExactlyOnce
 
CHECK_DEADLOCK FALSE
