------------------------------ MODULE FifoLock ------------------------------
(***************************************************************************)
(* What a fair lock promises: threads queue up, the first of the queue     *)
(* takes the lock when it is free, and gives it back.  The ticket lock of  *)
(* src/sync.h and the closing lock of src/channel.h both implement it.     *)
(***************************************************************************)
EXTENDS Sequences

CONSTANTS Clients, Nobody

VARIABLES
  queue,    \* the threads that asked for the lock and have not returned it
  holder    \* the thread inside, or Nobody

vars == <<queue, holder>>

Init == queue = <<>> /\ holder = Nobody

Request(c) ==
  /\ \A i \in DOMAIN queue : queue[i] # c
  /\ queue' = Append(queue, c)
  /\ UNCHANGED holder

Acquire(c) ==
  /\ holder = Nobody /\ queue # <<>> /\ Head(queue) = c
  /\ holder' = c
  /\ UNCHANGED queue

Release(c) ==
  /\ holder = c
  /\ holder' = Nobody
  /\ queue' = Tail(queue)

Next == \E c \in Clients : Request(c) \/ Acquire(c) \/ Release(c)

Spec == Init /\ [][Next]_vars

=============================================================================
