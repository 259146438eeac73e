----------------------------- MODULE WaitGroup ------------------------------
(***************************************************************************)
(* The wait group of src/sync.h: wait_group_push, wait_group_pop,          *)
(* wait_group_wait and wait_group_wait_timed, with SYNC_WAIT_BLOCK.        *)
(*                                                                         *)
(* count and wakes are the two halves of one 64-bit word: a waiter loads   *)
(* both at once, but its futex compares count alone.  One step per atomic  *)
(* operation or futex call.                                                *)
(***************************************************************************)
EXTENDS Integers, FiniteSets

CONSTANTS
  Workers,      \* threads that call wait_group_push and wait_group_pop
  Waiters,      \* threads that wait
  WaitOps,      \* the functions they call: "wait", "wait_timed"
  Counts,       \* the counts pushed and popped
  Use,          \* when a group at zero may be pushed again, see MayPush
  MaxCalls,     \* bound: calls per thread
  MaxCount      \* bound: the count stays in -MaxCount .. MaxCount

ASSUME WaitGroupAssumption ==
  /\ Workers \cap Waiters = {} /\ Counts \subseteq Nat \ {0}
  /\ WaitOps \subseteq {"wait", "wait_timed"}
  /\ Use \in {"once", "rounds", "any"}
  /\ MaxCalls \in Nat /\ MaxCount \in Nat

VARIABLES
  count, wakes,
  pc, calls,
  op,            \* per waiter: the function it is in
  before, seen,  \* per waiter: the wakes it loaded first, the count it loaded last
  expired,       \* the waiters whose timeout has passed
  result,        \* per waiter: what its last call returned
  crossings,     \* history: how often the count came down to zero
  zero           \* history: the waiters that were in their last call while the
                 \* count was zero or less

group   == <<count, wakes, crossings>>
waiter  == <<op, before, seen, expired, result>>
vars    == <<group, pc, calls, waiter, zero>>

Threads == Workers \cup Waiters

Init ==
  /\ count = 0 /\ wakes = 0 /\ crossings = 0
  /\ pc = [t \in Threads |-> "idle"]
  /\ calls = [t \in Threads |-> 0]
  /\ op = [t \in Waiters |-> "wait"]
  /\ before = [t \in Waiters |-> 0] /\ seen = [t \in Waiters |-> 0]
  /\ expired = {}
  /\ result = [t \in Waiters |-> "none"]
  /\ zero = {}

Goto(t, label) == pc' = [pc EXCEPT ![t] = label]

Called(t) ==
  /\ pc[t] = "idle" /\ calls[t] < MaxCalls
  /\ calls' = [calls EXCEPT ![t] = @ + 1]

InWait(t) == pc[t] # "idle"

-----------------------------------------------------------------------------
(* The workers.                                                            *)

\* "once": nothing is pushed after the count came down to zero.  "rounds": a
\* group at zero is pushed again only while nobody waits, which is what Go
\* asks of its callers.  "any": no rule.
MayPush ==
  \/ count > 0
  \/ Use = "once" /\ crossings = 0
  \/ Use = "rounds" /\ \A t \in Waiters : ~InWait(t)
  \/ Use = "any"

push(t, n) ==
  /\ Called(t) /\ MayPush /\ count + n <= MaxCount
  /\ count' = count + n
  /\ UNCHANGED <<wakes, crossings, pc, waiter, zero>>

\* Off by one.
MutantCrosses(old, n) == old - n <= 1 /\ old > 0

\* This pop brought the count over the line.
Crosses(old, n) == old - n <= 0 /\ old > 0

pop(t, n) ==
  /\ Called(t) /\ count - n >= -MaxCount
  /\ count' = count - n
  /\ zero' = IF count - n <= 0 THEN zero \cup {w \in Waiters : InWait(w)} ELSE zero
  /\ crossings' = IF count > 0 /\ count - n <= 0 THEN crossings + 1 ELSE crossings
  /\ Goto(t, IF Crosses(count, n) THEN "pop_wakes" ELSE "idle")
  /\ UNCHANGED <<wakes, waiter>>

\* Counts the wrong way.
MutantPopWakes(t) ==
  /\ pc[t] = "pop_wakes"
  /\ wakes' = wakes - 1
  /\ Goto(t, "pop_wake")
  /\ UNCHANGED <<count, crossings, calls, waiter, zero>>

PopWakes(t) ==
  /\ pc[t] = "pop_wakes"
  /\ wakes' = wakes + 1
  /\ Goto(t, "pop_wake")
  /\ UNCHANGED <<count, crossings, calls, waiter, zero>>

\* Returns without the wake.
MutantPopWake(t) ==
  /\ pc[t] = "pop_wake"
  /\ Goto(t, "idle")
  /\ UNCHANGED <<group, calls, waiter, zero>>

\* wait.wake(wg): wakes every waiter that sleeps on the count.
PopWake(t) ==
  /\ pc[t] = "pop_wake"
  /\ pc' = [u \in Threads |-> IF u = t THEN "idle"
                              ELSE IF pc[u] = "asleep" THEN "load" ELSE pc[u]]
  /\ UNCHANGED <<group, calls, waiter, zero>>

-----------------------------------------------------------------------------
(* The waiters.                                                            *)

\* The loop's test on a value just loaded: return, or look at the clock if
\* the wait is timed, or wait.
Test(t, first) ==
  IF count <= 0 \/ first # wakes
    THEN /\ Goto(t, "idle")
         /\ result' = [result EXCEPT ![t] = "true"]
         /\ UNCHANGED seen
    ELSE /\ Goto(t, IF op'[t] = "wait_timed" THEN "clock" ELSE "futex")
         /\ seen' = [seen EXCEPT ![t] = count]
         /\ UNCHANGED result

\* Starts a wait with the first load of the group.
BeginWait(t, o) ==
  /\ Called(t)
  /\ op' = [op EXCEPT ![t] = o]
  /\ before' = [before EXCEPT ![t] = wakes]
  /\ expired' = expired \ {t}
  /\ zero' = IF count <= 0 THEN zero \cup {t} ELSE zero \ {t}
  /\ Test(t, wakes)
  /\ UNCHANGED group

Load(t) ==
  /\ pc[t] = "load"
  /\ UNCHANGED op
  /\ Test(t, before[t])
  /\ UNCHANGED <<group, calls, before, expired, zero>>

\* The timeout passes, wherever the waiter is.
Expire(t) ==
  /\ InWait(t) /\ op[t] = "wait_timed" /\ t \notin expired
  /\ expired' = expired \cup {t}
  /\ UNCHANGED <<group, pc, calls, op, before, seen, result, zero>>

\* Never gives up.
MutantClock(t) ==
  /\ pc[t] = "clock"
  /\ Goto(t, "futex")
  /\ UNCHANGED <<group, calls, waiter, zero>>

Clock(t) ==
  /\ pc[t] = "clock"
  /\ IF t \in expired
       THEN /\ Goto(t, "idle")
            /\ result' = [result EXCEPT ![t] = "false"]
       ELSE /\ Goto(t, "futex")
            /\ UNCHANGED result
  /\ UNCHANGED <<group, calls, op, before, seen, expired, zero>>

\* wait.wait(wg, curr.count, timeout): sleeps if the count is still the same.
Futex(t) ==
  /\ pc[t] = "futex"
  /\ Goto(t, IF count = seen[t] THEN "asleep" ELSE "load")
  /\ UNCHANGED <<group, calls, waiter, zero>>

\* The futex gives up at the end of its time.
TimeOut(t) ==
  /\ pc[t] = "asleep" /\ t \in expired
  /\ Goto(t, "load")
  /\ UNCHANGED <<group, calls, waiter, zero>>

-----------------------------------------------------------------------------
WorkerStep(t) ==
  \/ \E n \in Counts : push(t, n) \/ pop(t, n)
  \/ PopWakes(t) \/ PopWake(t)

WaiterStep(t) ==
  \/ \E o \in WaitOps : BeginWait(t, o)
  \/ Load(t) \/ Clock(t) \/ Futex(t) \/ TimeOut(t) \/ Expire(t)

Next ==
  \/ \E t \in Workers : WorkerStep(t)
  \/ \E t \in Waiters : WaiterStep(t)

Spec == Init /\ [][Next]_vars

\* A thread inside a call runs on and time passes; nobody has to call anything.
FairSpec ==
  /\ Spec
  /\ \A t \in Workers : WF_vars(PopWakes(t) \/ PopWake(t))
  /\ \A t \in Waiters : WF_vars(Load(t) \/ Clock(t) \/ Futex(t) \/ TimeOut(t))
  /\ \A t \in Waiters : WF_vars(Expire(t))

-----------------------------------------------------------------------------
(* Properties.                                                             *)

\* The two counters, the threads' places and the waiters' variables.
TypeOK ==
  /\ count \in -MaxCount .. MaxCount /\ wakes \in Nat /\ crossings \in Nat
  /\ pc \in [Threads -> {"idle", "pop_wakes", "pop_wake", "load", "clock", "futex", "asleep"}]
  /\ calls \in [Threads -> 0 .. MaxCalls]
  /\ op \in [Waiters -> {"wait", "wait_timed"}]
  /\ before \in [Waiters -> Nat] /\ seen \in [Waiters -> Int]
  /\ expired \subseteq Waiters /\ zero \subseteq Waiters /\ result \in [Waiters -> {"none", "true", "false"}]

\* A wait that succeeds returns only if the count was zero or less at some
\* moment of the call: it "waits for it to hit zero".
WaitedForZero == \A t \in Waiters : result[t] = "true" => InWait(t) \/ t \in zero

\* The wakes counter prevents the ABA problem: a waiter that sleeps although
\* the count has come down to zero since its call began is about to be woken.
NoMissedWake ==
  \A t \in Waiters :
    pc[t] = "asleep" /\ (t \in zero \/ wakes # before[t]) =>
      \E u \in Workers : pc[u] \in {"pop_wakes", "pop_wake"}

\* Once the count is down to zero for good, every waiter returns.
ZeroReleases == \A t \in Waiters : (InWait(t) /\ count <= 0) ~> ~InWait(t)

\* A timed wait returns, whether or not anybody pops.
TimedReturns == \A t \in Waiters : (InWait(t) /\ op[t] = "wait_timed") ~> ~InWait(t)

=============================================================================
