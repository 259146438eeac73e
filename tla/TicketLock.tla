----------------------------- MODULE TicketLock -----------------------------
(***************************************************************************)
(* The ticket lock of src/sync.h: ticket_lock and ticket_unlock.           *)
(*                                                                         *)
(* One step per atomic operation or futex call.  The two counters are      *)
(* 32-bit in the code and wrap; here they wrap at Modulus, so that the     *)
(* wrap happens in a small model.                                          *)
(***************************************************************************)
EXTENDS Integers, Sequences, FiniteSets, SequencesExt

CONSTANTS
  Threads,
  Modulus,    \* 2^32 in the code
  Blocking,   \* wait.wait and wait.wake are futex calls; else the thread spins
  NoThread

ASSUME TicketLockAssumption ==
  /\ Modulus \in Nat \ {0, 1} /\ Blocking \in BOOLEAN
  /\ NoThread \notin Threads
  /\ Cardinality(Threads) <= Modulus

VARIABLES requested, completed, pc, ticket, seen

vars == <<requested, completed, pc, ticket, seen>>

Init ==
  /\ requested = 0 /\ completed = 0
  /\ pc = [t \in Threads |-> "out"]
  /\ ticket = [t \in Threads |-> 0]
  /\ seen = [t \in Threads |-> 0]

Goto(t, label) == pc' = [pc EXCEPT ![t] = label]

\* atomic_fetch_add(&lock->atomic_requested, 1)
TakeTicket(t) ==
  /\ pc[t] = "out"
  /\ ticket' = [ticket EXCEPT ![t] = requested]
  /\ requested' = (requested + 1) % Modulus
  /\ Goto(t, "load")
  /\ UNCHANGED <<completed, seen>>

\* The ticket may also be behind: an order comparison does not survive a wrap.
MutantLoadCompleted(t) ==
  /\ pc[t] = "load"
  /\ seen' = [seen EXCEPT ![t] = IF completed >= ticket[t] THEN 0 ELSE completed]
  /\ Goto(t, IF completed >= ticket[t] THEN "in" ELSE "wait")
  /\ UNCHANGED <<requested, completed, ticket>>

\* Looks at the value it already has when it is woken.
MutantLoadOnce(t) ==
  LET c == IF seen[t] = 0 THEN completed ELSE seen[t]
  IN  /\ pc[t] = "load"
      /\ seen' = [seen EXCEPT ![t] = IF c = ticket[t] THEN 0 ELSE c]
      /\ Goto(t, IF c = ticket[t] THEN "in" ELSE "wait")
      /\ UNCHANGED <<requested, completed, ticket>>

LoadCompleted(t) ==
  /\ pc[t] = "load"
  /\ seen' = [seen EXCEPT ![t] = IF completed = ticket[t] THEN 0 ELSE completed]
  /\ Goto(t, IF completed = ticket[t] THEN "in" ELSE "wait")
  /\ UNCHANGED <<requested, completed, ticket>>

\* wait.wait(&completed, curr_completed, -1), or chan_pause().
Wait(t) ==
  /\ pc[t] = "wait"
  /\ Goto(t, IF Blocking /\ completed = seen[t] THEN "asleep" ELSE "load")
  /\ UNCHANGED <<requested, completed, ticket, seen>>

\* Forgets that completed is as wide as requested.
MutantUnlockNoWrap(t) ==
  /\ pc[t] = "in"
  /\ completed' = completed + 1
  /\ Goto(t, IF Blocking THEN "wake" ELSE "out")
  /\ UNCHANGED <<requested, ticket, seen>>

\* Wakes nobody.
MutantUnlock(t) ==
  /\ pc[t] = "in"
  /\ completed' = (completed + 1) % Modulus
  /\ Goto(t, "out")
  /\ UNCHANGED <<requested, ticket, seen>>

\* atomic_fetch_add(&lock->atomic_completed, 1)
Unlock(t) ==
  /\ pc[t] = "in"
  /\ completed' = (completed + 1) % Modulus
  /\ Goto(t, IF Blocking THEN "wake" ELSE "out")
  /\ UNCHANGED <<requested, ticket, seen>>

\* wait.wake(&completed)
Wake(t) ==
  /\ pc[t] = "wake"
  /\ pc' = [u \in Threads |-> IF u = t THEN "out"
                              ELSE IF pc[u] = "asleep" THEN "load" ELSE pc[u]]
  /\ UNCHANGED <<requested, completed, ticket, seen>>

Step(t) == TakeTicket(t) \/ LoadCompleted(t) \/ Wait(t) \/ Unlock(t) \/ Wake(t)

Next == \E t \in Threads : Step(t)

Spec == Init /\ [][Next]_vars

\* A thread that asked for the lock runs on, and one that got it returns it.
FairSpec == Spec /\ \A t \in Threads : WF_vars(pc[t] # "out" /\ Step(t))

-----------------------------------------------------------------------------
(* Properties.                                                             *)

\* The counters and the tickets are below the modulus.
TypeOK ==
  /\ requested \in 0 .. Modulus - 1 /\ completed \in 0 .. Modulus - 1
  /\ pc \in [Threads -> {"out", "load", "wait", "asleep", "in", "wake"}]
  /\ ticket \in [Threads -> 0 .. Modulus - 1] /\ seen \in [Threads -> 0 .. Modulus - 1]

Inside == {t \in Threads : pc[t] = "in"}

Queued == {t \in Threads : pc[t] \in {"load", "wait", "asleep", "in"}}

\* The turns before t, counted around the wrap.
Distance(t) == (ticket[t] - completed) % Modulus

\* The ticket lock is the fair lock: the queue is the order of the tickets
\* from completed on, even across a wrap of the counters.
Fair == INSTANCE FifoLock WITH
          Clients <- Threads, Nobody <- NoThread,
          queue <- SetToSortSeq(Queued, LAMBDA s, t : Distance(s) < Distance(t)),
          holder <- IF Inside = {} THEN NoThread ELSE CHOOSE t \in Inside : TRUE

\* ticket_lock and ticket_unlock do what a first-come first-served lock does.
ImplementsFifoLock == Fair!Spec

\* At most one thread is between ticket_lock and ticket_unlock.
MutualExclusion == Cardinality(Inside) <= 1

\* A thread that sleeps on completed while it is its turn is about to be woken.
NoLostTurn ==
  \A t \in Threads :
    pc[t] = "asleep" /\ completed = ticket[t] => \E u \in Threads : pc[u] = "wake"

\* Every thread that asks for the lock gets it.
NoStarvation == \A t \in Threads : pc[t] = "load" ~> pc[t] = "in"

=============================================================================
