-------------------------- MODULE WaitGroupProofs ---------------------------
(***************************************************************************)
(* Proofs about WaitGroup: a group that comes down to zero once lets no    *)
(* waiter return early and leaves none asleep, for any number of workers   *)
(* and waiters and any counts.                                             *)
(***************************************************************************)
EXTENDS WaitGroup, TLAPS

\* The counters, the threads' places and the waiters' variables keep their
\* types under every function of the wait group, whatever the use.
THEOREM WaitGroupTypes == Spec => []TypeOK
<1>1. Init => TypeOK
  BY WaitGroupAssumption DEF Init, TypeOK, Threads
<1>2. TypeOK /\ [Next]_vars => TypeOK'
  <2> SUFFICES ASSUME TypeOK, [Next]_vars PROVE TypeOK'
    OBVIOUS
  <2> USE WaitGroupAssumption DEF TypeOK, Called, Goto, group, waiter, Threads
  <2>1. ASSUME NEW t \in Workers, NEW n \in Counts, push(t, n) PROVE TypeOK'
    BY <2>1 DEF push
  <2>2. ASSUME NEW t \in Workers, NEW n \in Counts, pop(t, n) PROVE TypeOK'
    BY <2>2 DEF pop
  <2>3. ASSUME NEW t \in Workers, PopWakes(t) PROVE TypeOK'
    BY <2>3 DEF PopWakes
  <2>4. ASSUME NEW t \in Workers, PopWake(t) PROVE TypeOK'
    BY <2>4 DEF PopWake
  <2>5. ASSUME NEW t \in Waiters, NEW o \in WaitOps, BeginWait(t, o) PROVE TypeOK'
    BY <2>5 DEF BeginWait, Test
  <2>6. ASSUME NEW t \in Waiters, Load(t) PROVE TypeOK'
    <3> USE <2>6 DEF Load, Test
    <3>1. CASE count <= 0 \/ before[t] # wakes
      BY <3>1
    <3>2. CASE ~(count <= 0 \/ before[t] # wakes)
      <4>1. pc' = [pc EXCEPT ![t] = "clock"] \/ pc' = [pc EXCEPT ![t] = "futex"]
        BY <3>2
      <4>2. QED
        BY <3>2, <4>1
    <3>3. QED
      BY <3>1, <3>2
  <2>7. ASSUME NEW t \in Waiters, Clock(t) \/ Futex(t) \/ TimeOut(t) \/ Expire(t) PROVE TypeOK'
    BY <2>7 DEF Clock, Futex, TimeOut, Expire
  <2>8. CASE UNCHANGED vars
    BY <2>8 DEF vars
  <2>9. QED
    BY <2>1, <2>2, <2>3, <2>4, <2>5, <2>6, <2>7, <2>8 DEF Next, WorkerStep, WaiterStep
<1>3. QED
  BY <1>1, <1>2, PTL DEF Spec

-----------------------------------------------------------------------------

PopLabels == {"pop_wakes", "pop_wake"}

\* The count after it came down, and the workers that brought it down.
CountInv ==
  /\ crossings > 0 => count <= 0
  /\ crossings = 0 => wakes = 0
  /\ \A t \in Workers : pc[t] \in PopLabels => crossings > 0

\* What a waiter inside a call knows: before the crossing it has met only
\* positive counts; after the crossing it was inside at the crossing, since a
\* later call returns at its first load.
WaiterInv(t) ==
  /\ pc[t] \notin PopLabels
  /\ InWait(t) /\ crossings = 0 => before[t] = 0 /\ count > 0 /\ t \notin zero
  /\ InWait(t) /\ crossings > 0 => t \in zero
  /\ pc[t] \in {"clock", "futex", "asleep"} => seen[t] > 0
  /\ result[t] = "true" => InWait(t) \/ t \in zero

\* Asleep after the crossing: the wake is still to come.
SleepInv ==
  crossings > 0 /\ (\E t \in Waiters : pc[t] = "asleep") =>
    \E u \in Workers : pc[u] \in PopLabels

\* The inductive invariant of a group that is used once.
OnceInv == CountInv /\ (\A t \in Waiters : WaiterInv(t)) /\ SleepInv

\* OnceInv gives the two properties the runs check.
LEMMA OnceInvImplies == TypeOK /\ OnceInv => WaitedForZero /\ NoMissedWake
  BY DEF TypeOK, OnceInv, CountInv, WaiterInv, SleepInv, WaitedForZero, NoMissedWake, PopLabels, InWait

\* Every function preserves OnceInv if nothing is pushed after the crossing.
LEMMA OnceInvStep ==
  ASSUME Use = "once", TypeOK, OnceInv, [Next]_vars
  PROVE  OnceInv'
<1> USE WaitGroupAssumption DEF TypeOK, OnceInv, Called, Goto, group, waiter, Threads, InWait, PopLabels
<1>1. ASSUME NEW t \in Workers, NEW n \in Counts, push(t, n) PROVE OnceInv'
  <2> USE <1>1 DEF push, MayPush
  <2>1. CountInv'
    BY DEF CountInv
  <2>2. ASSUME NEW w \in Waiters PROVE WaiterInv(w)'
    BY DEF WaiterInv, CountInv
  <2>3. SleepInv'
    BY DEF SleepInv
  <2>4. QED
    BY <2>1, <2>2, <2>3
<1>2. ASSUME NEW t \in Workers, NEW n \in Counts, pop(t, n) PROVE OnceInv'
  <2> USE <1>2 DEF pop, Crosses
  <2>0. n \in Nat \ {0} /\ count \in Int /\ t \notin Waiters
    OBVIOUS
  <2>1. CountInv'
    BY DEF CountInv
  <2>2. ASSUME NEW w \in Waiters PROVE WaiterInv(w)'
    <3>1. pc'[w] = pc[w] /\ WaiterInv(w)
      BY <2>0
    <3>2. QED
      BY <2>0, <3>1 DEF WaiterInv, CountInv
  <2>3. SleepInv'
    <3>1. CASE count > 0 /\ count - n <= 0
      <4>1. pc'[t] = "pop_wakes"
        BY <3>1, <2>0
      <4>2. QED
        BY <4>1 DEF SleepInv
    <3>2. CASE ~(count > 0 /\ count - n <= 0)
      <4>1. crossings' = crossings /\ pc' = pc
        BY <3>2, <2>0
      <4>2. QED
        BY <4>1 DEF SleepInv
    <3>3. QED
      BY <3>1, <3>2
  <2>4. QED
    BY <2>1, <2>2, <2>3
<1>3. ASSUME NEW t \in Workers, PopWakes(t) PROVE OnceInv'
  <2> USE <1>3 DEF PopWakes
  <2>1. CountInv'
    BY DEF CountInv
  <2>2. ASSUME NEW w \in Waiters PROVE WaiterInv(w)'
    BY DEF WaiterInv, CountInv
  <2>3. SleepInv'
    BY DEF SleepInv, CountInv
  <2>4. QED
    BY <2>1, <2>2, <2>3
<1>4. ASSUME NEW t \in Workers, PopWake(t) PROVE OnceInv'
  <2> USE <1>4 DEF PopWake
  <2>1. CountInv'
    BY DEF CountInv
  <2>2. ASSUME NEW w \in Waiters PROVE WaiterInv(w)'
    BY DEF WaiterInv, CountInv
  <2>3. SleepInv'
    BY DEF SleepInv, CountInv
  <2>4. QED
    BY <2>1, <2>2, <2>3
<1>5. ASSUME NEW t \in Waiters, NEW o \in WaitOps, BeginWait(t, o) PROVE OnceInv'
  <2> USE <1>5 DEF BeginWait, Test
  <2>1. CountInv'
    BY DEF CountInv
  <2>2. ASSUME NEW w \in Waiters PROVE WaiterInv(w)'
    BY DEF WaiterInv, CountInv
  <2>3. SleepInv'
    BY DEF SleepInv, CountInv
  <2>4. QED
    BY <2>1, <2>2, <2>3
<1>6. ASSUME NEW t \in Waiters, Load(t) PROVE OnceInv'
  <2> USE <1>6 DEF Load, Test
  <2>1. CountInv'
    BY DEF CountInv
  <2>2. ASSUME NEW w \in Waiters PROVE WaiterInv(w)'
    BY DEF WaiterInv, CountInv
  <2>3. SleepInv'
    BY DEF SleepInv, CountInv
  <2>4. QED
    BY <2>1, <2>2, <2>3
<1>7. ASSUME NEW t \in Waiters, Clock(t) \/ TimeOut(t) \/ Expire(t) PROVE OnceInv'
  <2> USE <1>7 DEF Clock, TimeOut, Expire
  <2>1. CountInv'
    BY DEF CountInv
  <2>2. ASSUME NEW w \in Waiters PROVE WaiterInv(w)'
    BY DEF WaiterInv, CountInv
  <2>3. SleepInv'
    BY DEF SleepInv, CountInv
  <2>4. QED
    BY <2>1, <2>2, <2>3
<1>8. ASSUME NEW t \in Waiters, Futex(t) PROVE OnceInv'
  <2> USE <1>8 DEF Futex
  <2>1. CountInv'
    BY DEF CountInv
  <2>2. ASSUME NEW w \in Waiters PROVE WaiterInv(w)'
    BY DEF WaiterInv, CountInv
  <2>3. SleepInv'
    BY DEF SleepInv, CountInv, WaiterInv
  <2>4. QED
    BY <2>1, <2>2, <2>3
<1>9. CASE UNCHANGED vars
  BY <1>9 DEF vars, CountInv, WaiterInv, SleepInv
<1>10. QED
  BY <1>1, <1>2, <1>3, <1>4, <1>5, <1>6, <1>7, <1>8, <1>9 DEF Next, WorkerStep, WaiterStep

\* Of a group that is pushed only until it first comes down to zero, a wait
\* returns success only if the count was zero or less during the call, and no
\* waiter sleeps through the crossing without a wake on its way.
THEOREM OnceWaitsForZero ==
  ASSUME Use = "once"
  PROVE  Spec => [](WaitedForZero /\ NoMissedWake)
<1>1. Init => OnceInv
  BY DEF Init, OnceInv, CountInv, WaiterInv, SleepInv, PopLabels, InWait, Threads
<1>2. TypeOK /\ OnceInv /\ [Next]_vars => OnceInv'
  BY OnceInvStep
<1>3. QED
  BY <1>1, <1>2, WaitGroupTypes, OnceInvImplies, PTL DEF Spec

=============================================================================
