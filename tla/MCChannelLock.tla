--------------------------- MODULE MCChannelLock ---------------------------
(* The closing lock of Channel as a first-come first-served lock.           *)
EXTENDS MCChannel, SequencesExt

CONSTANT NoThread

LockQueued ==
  {t \in Threads : pc[t] \in {"lock_load", "lock_wait", "lock_asleep"} \/ Holding(t)}

LockHolders == {t \in Threads : Holding(t)}

ClosingLock == INSTANCE FifoLock WITH
                 Clients <- Threads, Nobody <- NoThread,
                 queue <- SetToSortSeq(LockQueued, LAMBDA s, t : loc[s].ticket < loc[t].ticket),
                 holder <- IF LockHolders = {} THEN NoThread
                           ELSE CHOOSE t \in LockHolders : TRUE

\* channel_close_lock and channel_close_unlock, around whatever close or reopen
\* does between them, implement the fair lock: closers take effect in the order
\* in which they asked for the lock.
ClosersTakeTurns == ClosingLock!Spec

===========================================================================
