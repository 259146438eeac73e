CONSTANTS
  Producer = p
  Consumers = {c1, c2}
  Observers = {o1}
  PushCounts = {1}
  PopCounts = {1}
  ReserveTo = {}
  PopOps = {"pop"}
  MinCapacity = 1
  MaxCapacity <- Unlimited
  MayFail = FALSE
  ProducerCalls = 2
  ConsumerCalls = 1
  ObserverCalls = 1
  MaxCalls <- CallsByRole
  MaxInits = 0
SPECIFICATION FairSpec
INVARIANTS CountBounds StateExact
PROPERTY CallsReturn
