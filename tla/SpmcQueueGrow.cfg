CONSTANTS
  Producer = p
  Consumers = {c1, c2}
  Observers = {}
  PushCounts = {1, 2}
  PopCounts = {1}
  ReserveTo = {3}
  PopOps = {"pop_weak", "pop_st"}
  MinCapacity = 1
  MaxCapacity = 4
  MayFail = TRUE
  ProducerCalls = 3
  ConsumerCalls = 2
  ObserverCalls = 0
  MaxCalls <- CallsByRole
  MaxInits = 1
SPECIFICATION Spec
SYMMETRY Symmetry
INVARIANTS TypeOK LiveItems Fifo EmptyIsEmpty
PROPERTY CursorsAdvance
