CONSTANTS
  Threads = {t1, t2, t3}
  Modulus = 4
  Blocking = TRUE
  NoThread = nobody
SPECIFICATION FairSpec
INVARIANTS TypeOK MutualExclusion NoLostTurn
PROPERTIES ImplementsFifoLock NoStarvation
