------------------------------ MODULE Channel ------------------------------
(***************************************************************************)
(* The bounded multi-producer multi-consumer channel of src/channel.h.     *)
(*                                                                         *)
(* Every atomic operation of the code (load, store, fetch-and-add,         *)
(* compare-and-swap, exchange) and every futex call is one step; local     *)
(* computation belongs to the step before it.  All atomics of channel.h    *)
(* are sequentially consistent, so steps simply interleave.                *)
(*                                                                         *)
(* head and tail hold ticket*4 with two closed bits in the code; here they *)
(* are records.  An id holds (round*2 + filled)*4 with the waiting and the *)
(* notify bits; here it is a record whose field n is the id without its    *)
(* two low bits.                                                           *)
(***************************************************************************)
EXTENDS Integers, Sequences, FiniteSets

CONSTANTS
  Threads,          \* threads that share the channel
  Capacity,         \* number of slots
  Blocking,         \* info.wait and info.wake are futex calls; else spinning
  Allowed,          \* Allowed[t]: the functions thread t calls
  MaxCalls,         \* bound: MaxCalls[t] calls by thread t
  ExclusiveReopen   \* the caller reopens only while nobody else is inside

PushOps  == {"push", "try_push", "try_push_weak"}
PopOps   == {"pop", "try_pop", "try_pop_weak"}
TryOps   == {"try_push", "try_push_weak", "try_pop", "try_pop_weak"}
CloseOps == {"close_push", "close_soft", "close_hard", "reopen"}
Ops      == PushOps \cup PopOps \cup CloseOps \cup {"count"}

ASSUME ChannelAssumption ==
  /\ Capacity \in Nat \ {0}
  /\ Blocking \in BOOLEAN
  /\ ExclusiveReopen \in BOOLEAN
  /\ MaxCalls \in [Threads -> Nat]
  /\ Allowed \in [Threads -> SUBSET Ops]

VARIABLES
  head, tail,                  \* the two ticket counters with their closed bits
  head_barrier, tail_barrier,
  head_cancel_count, tail_cancel_count,
  ids, items,                  \* per slot: its ticket lock and its item
  closing_state,
  closing_lock_requested, closing_lock_completed,
  pc, op, res,                 \* per thread: control, function, last result
  loc,                         \* per thread: the local variables of the call
  calls,                       \* bound: calls made so far
  sent, got                    \* history: items pushed, items each thread popped

cursors  == <<head, tail>>
barriers == <<head_barrier, tail_barrier, head_cancel_count, tail_cancel_count>>
slots    == <<ids, items>>
closers  == <<closing_state, closing_lock_requested, closing_lock_completed>>
thread   == <<pc, res, loc>>
caller   == <<op, calls>>
history  == <<sent, got>>
vars     == <<cursors, barriers, slots, closers, thread, caller, history>>

Slots    == 0 .. Capacity - 1
Cursor   == [t : Int, push_closed : BOOLEAN, pop_closed : BOOLEAN]
Id       == [n : Int, waiting : BOOLEAN, notify : BOOLEAN]
Start    == [t |-> 0, push_closed |-> FALSE, pop_closed |-> FALSE]
ZeroId   == [n |-> 0, waiting |-> FALSE, notify |-> FALSE]
NoItem   == <<"none", 0>>

\* ticket: of the operation, or of the closing lock; curr: the slot id last
\* loaded; tail and head: as last loaded; k and side: where a loop has got to;
\* out: the result so far.
Locals   == [ticket : Int, curr : Id, tail : Cursor, head : Cursor, k : Int,
             side : {"head", "tail"}, out : BOOLEAN]
NoLocals == [ticket |-> 0, curr |-> ZeroId, tail |-> Start, head |-> Start, k |-> 0,
             side |-> "head", out |-> FALSE]

----------------------------------------------------------------------------
(* The pure helpers.                                                       *)

channel_get_target(tk) == tk % Capacity

\* _channel_get_id, with the filled bit that pop adds.
channel_get_id(tk, is_pop) == 2 * (tk \div Capacity) + (IF is_pop THEN 1 ELSE 0)

\* Mutant: only the filled bit is compared, not the round.
MutantIdEquals(id, n) == id.n % 2 = n % 2

channel_id_equals(id, n) == id.n = n

channel_is_closed == closing_state # {}

channel_is_hard_closed == "HARD" \in closing_state

IsPop(t)   == op[t] \in PopOps
IsTry(t)   == op[t] \in TryOps
Target(t)  == channel_get_target(loc[t].ticket)
MyId(t)    == channel_get_id(loc[t].ticket, IsPop(t))
MyItem(t)  == <<t, calls[t]>>
Matches(t) == channel_id_equals(loc[t].curr, MyId(t))

\* A step to a label inside the function, with new local variables or the old.
Step(t, label, l) ==
  /\ pc' = [pc EXCEPT ![t] = label]
  /\ loc' = [loc EXCEPT ![t] = l]
  /\ UNCHANGED res

Goto(t, label) == Step(t, label, loc[t])

Return(t, r) ==
  /\ pc' = [pc EXCEPT ![t] = "idle"]
  /\ loc' = [loc EXCEPT ![t] = NoLocals]
  /\ res' = [res EXCEPT ![t] = r]

\* The caller's side: which thread may enter which function.
Enter(t, o) ==
  /\ pc[t] = "idle"
  /\ o \in Allowed[t]
  /\ calls[t] < MaxCalls[t]
  /\ ExclusiveReopen =>
       \A u \in Threads : pc[u] # "idle" => (o # "reopen" /\ op[u] # "reopen")
  /\ op' = [op EXCEPT ![t] = o]
  /\ calls' = [calls EXCEPT ![t] = @ + 1]

\* chan_futex_wake_all on the id of a slot, and on closing_lock_completed:
\* the control of all threads after the waking thread t went to label.
WokenSlot(t, slot, label) ==
  [u \in Threads |->
     IF u = t THEN label
     ELSE IF pc[u] = "asleep" /\ Target(u) = slot THEN "load_id"
     ELSE pc[u]]

WokenLock(t, label) ==
  [u \in Threads |->
     IF u = t THEN label
     ELSE IF pc[u] = "lock_asleep" THEN "lock_load"
     ELSE pc[u]]

----------------------------------------------------------------------------
(* channel_ticket_push, channel_ticket_pop and the try variants.           *)

PushBegin(t) ==
  /\ Enter(t, "push")
  /\ Step(t, "load_id", [NoLocals EXCEPT !.ticket = tail.t])
  /\ tail' = [tail EXCEPT !.t = @ + 1]
  /\ UNCHANGED <<head, barriers, slots, closers, history>>

PopBegin(t) ==
  /\ Enter(t, "pop")
  /\ Step(t, "load_id", [NoLocals EXCEPT !.ticket = head.t])
  /\ head' = [head EXCEPT !.t = @ + 1]
  /\ UNCHANGED <<tail, barriers, slots, closers, history>>

\* The try variants only look at their counter, here and when they retry.
TryLoadTail(t) ==
  Step(t, "load_id", [NoLocals EXCEPT !.ticket = tail.t, !.tail = tail])

TryLoadHead(t) ==
  Step(t, "load_id", [NoLocals EXCEPT !.ticket = head.t, !.head = head])

TryPushBegin(t) ==
  /\ \E o \in TryOps \cap PushOps : Enter(t, o)
  /\ TryLoadTail(t)
  /\ UNCHANGED <<cursors, barriers, slots, closers, history>>

TryPopBegin(t) ==
  /\ \E o \in TryOps \cap PopOps : Enter(t, o)
  /\ TryLoadHead(t)
  /\ UNCHANGED <<cursors, barriers, slots, closers, history>>

TryRetry(t) ==
  /\ pc[t] = "retry"
  /\ IF IsPop(t) THEN TryLoadHead(t) ELSE TryLoadTail(t)
  /\ UNCHANGED <<cursors, barriers, slots, closers, caller, history>>

LoadId(t) ==
  /\ pc[t] = "load_id"
  /\ Step(t, "load_closing", [loc[t] EXCEPT !.curr = ids[Target(t)]])
  /\ UNCHANGED <<cursors, barriers, slots, closers, caller, history>>

\* Mutant: a pop does not check that its slot is filled.
MutantProceed(t) ==
  IF Matches(t) \/ IsPop(t) THEN Goto(t, IF IsTry(t) THEN "cas" ELSE "data")
  ELSE IF IsTry(t) THEN Return(t, "full")
  ELSE Goto(t, IF Blocking THEN "set_waiting" ELSE "load_id")

\* What follows once the operation is known not to be cancelled.
Proceed(t) ==
  IF Matches(t) THEN Goto(t, IF IsTry(t) THEN "cas" ELSE "data")
  ELSE IF IsTry(t) THEN Return(t, IF IsPop(t) THEN "empty" ELSE "full")
  ELSE Goto(t, IF Blocking THEN "set_waiting" ELSE "load_id")

Cancel(t) == IF IsTry(t) THEN Return(t, "closed") ELSE Goto(t, "cancel")

LoadClosing(t) ==
  /\ pc[t] = "load_closing"
  /\ IF ~channel_is_closed THEN Proceed(t)
     ELSE IF channel_is_hard_closed THEN Cancel(t)
     ELSE Goto(t, IF IsPop(t) THEN "load_head" ELSE "load_tail")
  /\ UNCHANGED <<cursors, barriers, slots, closers, caller, history>>

\* A bit found set leads to the barrier; with the bits clear the barrier is
\* loaded but not used, so that load is left out.
LoadTailBit(t) ==
  /\ pc[t] = "load_tail"
  /\ Goto(t, IF tail.push_closed THEN "load_barrier" ELSE "load_head")
  /\ UNCHANGED <<cursors, barriers, slots, closers, caller, history>>

LoadHeadBit(t) ==
  /\ pc[t] = "load_head"
  /\ IF IF IsPop(t) THEN head.pop_closed ELSE head.push_closed
     THEN Goto(t, "load_barrier")
     ELSE Proceed(t)
  /\ UNCHANGED <<cursors, barriers, slots, closers, caller, history>>

LoadBarrier(t) ==
  /\ pc[t] = "load_barrier"
  /\ IF (IF IsPop(t) THEN head_barrier ELSE tail_barrier) <= loc[t].ticket
     THEN Cancel(t)
     ELSE Proceed(t)
  /\ UNCHANGED <<cursors, barriers, slots, closers, caller, history>>

\* Mutant: the cancel counters go down, as head and tail do.
MutantCancelCount(t) ==
  /\ pc[t] = "cancel"
  /\ IF IsPop(t)
     THEN head_cancel_count' = head_cancel_count - 1 /\ UNCHANGED tail_cancel_count
     ELSE tail_cancel_count' = tail_cancel_count - 1 /\ UNCHANGED head_cancel_count
  /\ Goto(t, "back_off")
  /\ UNCHANGED <<cursors, head_barrier, tail_barrier, slots, closers, caller, history>>

CancelCount(t) ==
  /\ pc[t] = "cancel"
  /\ IF IsPop(t)
     THEN head_cancel_count' = head_cancel_count + 1 /\ UNCHANGED tail_cancel_count
     ELSE tail_cancel_count' = tail_cancel_count + 1 /\ UNCHANGED head_cancel_count
  /\ Goto(t, "back_off")
  /\ UNCHANGED <<cursors, head_barrier, tail_barrier, slots, closers, caller, history>>

\* Mutant: a cancelled pop keeps its ticket.
MutantCancelBackOff(t) ==
  /\ pc[t] = "back_off"
  /\ IF IsPop(t) THEN UNCHANGED cursors
                 ELSE tail' = [tail EXCEPT !.t = @ - 1] /\ UNCHANGED head
  /\ Return(t, "closed")
  /\ UNCHANGED <<barriers, slots, closers, caller, history>>

CancelBackOff(t) ==
  /\ pc[t] = "back_off"
  /\ IF IsPop(t) THEN head' = [head EXCEPT !.t = @ - 1] /\ UNCHANGED tail
                 ELSE tail' = [tail EXCEPT !.t = @ - 1] /\ UNCHANGED head
  /\ Return(t, "closed")
  /\ UNCHANGED <<barriers, slots, closers, caller, history>>

SetWaiting(t) ==
  /\ pc[t] = "set_waiting"
  /\ ids' = [ids EXCEPT ![Target(t)].waiting = TRUE]
  /\ Step(t, "wait", [loc[t] EXCEPT !.curr.waiting = TRUE])
  /\ UNCHANGED <<cursors, barriers, items, closers, caller, history>>

\* Mutant: the thread goes to sleep without comparing the id again.
MutantFutexWait(t) ==
  /\ pc[t] = "wait"
  /\ Goto(t, "asleep")
  /\ UNCHANGED <<cursors, barriers, slots, closers, caller, history>>

\* chan_futex_wait compares and falls asleep in one step.
FutexWait(t) ==
  /\ pc[t] = "wait"
  /\ Goto(t, IF ids[Target(t)] = loc[t].curr THEN "asleep" ELSE "load_id")
  /\ UNCHANGED <<cursors, barriers, slots, closers, caller, history>>

\* Mutant: the counter is stored to, not compared and swapped.
MutantTryCas(t) ==
  /\ pc[t] = "cas"
  /\ \/ /\ IsPop(t)
        /\ head' = [loc[t].head EXCEPT !.t = @ + 1]
        /\ UNCHANGED tail
     \/ /\ ~IsPop(t)
        /\ tail' = [loc[t].tail EXCEPT !.t = @ + 1]
        /\ UNCHANGED head
  /\ Goto(t, "data")
  /\ UNCHANGED <<barriers, slots, closers, caller, history>>

TryCas(t) ==
  /\ pc[t] = "cas"
  /\ \/ /\ IsPop(t) /\ head = loc[t].head
        /\ head' = [head EXCEPT !.t = @ + 1]
        /\ UNCHANGED tail
        /\ Goto(t, "data")
     \/ /\ ~IsPop(t) /\ tail = loc[t].tail
        /\ tail' = [tail EXCEPT !.t = @ + 1]
        /\ UNCHANGED head
        /\ Goto(t, "data")
     \/ /\ IF IsPop(t) THEN head # loc[t].head ELSE tail # loc[t].tail
        /\ UNCHANGED cursors
        /\ IF op[t] \in {"try_push", "try_pop"} THEN Goto(t, "retry")
                                                ELSE Return(t, "lost_race")
  /\ UNCHANGED <<barriers, slots, closers, caller, history>>

\* Mutant: push copies into the slot after its own.
MutantCopyItem(t) ==
  /\ pc[t] = "data"
  /\ IF IsPop(t)
     THEN got' = [got EXCEPT ![t] = Append(@, items[Target(t)])] /\ UNCHANGED items
     ELSE items' = [items EXCEPT ![(Target(t) + 1) % Capacity] = MyItem(t)] /\ UNCHANGED got
  /\ Goto(t, "advance")
  /\ UNCHANGED <<cursors, barriers, ids, closers, caller, sent>>

\* memcpy into or out of the slot.
CopyItem(t) ==
  /\ pc[t] = "data"
  /\ IF IsPop(t)
     THEN got' = [got EXCEPT ![t] = Append(@, items[Target(t)])] /\ UNCHANGED items
     ELSE items' = [items EXCEPT ![Target(t)] = MyItem(t)] /\ UNCHANGED got
  /\ Goto(t, "advance")
  /\ UNCHANGED <<cursors, barriers, ids, closers, caller, sent>>

\* _channel_advance_id: the exchange, then the wake if somebody waits.
AdvanceId(t) ==
  /\ pc[t] = "advance"
  /\ ids' = [ids EXCEPT ![Target(t)] =
               [n |-> MyId(t) + 1, waiting |-> FALSE, notify |-> FALSE]]
  /\ IF Blocking /\ ids[Target(t)].waiting THEN Goto(t, "wake") ELSE Return(t, "ok")
  /\ sent' = IF IsPop(t) THEN sent ELSE sent \cup {MyItem(t)}
  /\ UNCHANGED <<cursors, barriers, items, closers, caller, got>>

AdvanceWake(t) ==
  /\ pc[t] = "wake"
  /\ pc' = WokenSlot(t, Target(t), "idle")
  /\ loc' = [loc EXCEPT ![t] = NoLocals]
  /\ res' = [res EXCEPT ![t] = "ok"]
  /\ UNCHANGED <<cursors, barriers, slots, closers, caller, history>>

\* Steps the functions have in common.
Attempt(t) ==
  LoadId(t) \/ LoadClosing(t) \/ LoadTailBit(t) \/ LoadHeadBit(t) \/ LoadBarrier(t)

Finish(t) == CopyItem(t) \/ AdvanceId(t) \/ AdvanceWake(t)

potentially_cancel(t) == CancelCount(t) \/ CancelBackOff(t)

Await(t) == SetWaiting(t) \/ FutexWait(t)

InPush(t) ==
  /\ op[t] = "push"
  /\ Attempt(t) \/ potentially_cancel(t) \/ Await(t) \/ Finish(t)

InPop(t) ==
  /\ op[t] = "pop"
  /\ Attempt(t) \/ potentially_cancel(t) \/ Await(t) \/ Finish(t)

InTryPush(t) ==
  /\ op[t] \in TryOps \cap PushOps
  /\ Attempt(t) \/ TryCas(t) \/ TryRetry(t) \/ Finish(t)

InTryPop(t) ==
  /\ op[t] \in TryOps \cap PopOps
  /\ Attempt(t) \/ TryCas(t) \/ TryRetry(t) \/ Finish(t)

----------------------------------------------------------------------------
(* _channel_close_soft_custom, channel_reopen and channel_close_hard.      *)

CloseBegin(t) ==
  /\ \E o \in {"close_push", "close_soft"} : Enter(t, o)
  /\ IF channel_is_closed THEN Return(t, "false") ELSE Step(t, "lock_request", NoLocals)
  /\ UNCHANGED <<cursors, barriers, slots, closers, history>>

ReopenBegin(t) ==
  /\ Enter(t, "reopen")
  /\ IF channel_is_closed THEN Step(t, "lock_request", NoLocals) ELSE Return(t, "false")
  /\ UNCHANGED <<cursors, barriers, slots, closers, history>>

\* Mutant: the lock ticket is read but not taken.
MutantLockRequest(t) ==
  /\ pc[t] = "lock_request"
  /\ Step(t, "lock_load", [loc[t] EXCEPT !.ticket = closing_lock_requested])
  /\ UNCHANGED <<cursors, barriers, slots, closers, caller, history>>

LockRequest(t) ==
  /\ pc[t] = "lock_request"
  /\ Step(t, "lock_load", [loc[t] EXCEPT !.ticket = closing_lock_requested])
  /\ closing_lock_requested' = closing_lock_requested + 1
  /\ UNCHANGED <<cursors, barriers, slots, closing_state, closing_lock_completed,
                 caller, history>>

LockLoad(t) ==
  /\ pc[t] = "lock_load"
  /\ IF closing_lock_completed = loc[t].ticket
     THEN Step(t, "locked", [loc[t] EXCEPT !.k = 0])
     ELSE Step(t, IF Blocking THEN "lock_wait" ELSE "lock_load",
               [loc[t] EXCEPT !.k = closing_lock_completed])
  /\ UNCHANGED <<cursors, barriers, slots, closers, caller, history>>

LockWait(t) ==
  /\ pc[t] = "lock_wait"
  /\ Goto(t, IF closing_lock_completed = loc[t].k THEN "lock_asleep" ELSE "lock_load")
  /\ UNCHANGED <<cursors, barriers, slots, closers, caller, history>>

Unlock(t) ==
  /\ pc[t] = "unlock"
  /\ closing_lock_completed' = closing_lock_completed + 1
  /\ IF Blocking THEN Goto(t, "unlock_wake")
     ELSE Return(t, IF loc[t].out THEN "true" ELSE "false")
  /\ UNCHANGED <<cursors, barriers, slots, closing_state, closing_lock_requested,
                 caller, history>>

UnlockWake(t) ==
  /\ pc[t] = "unlock_wake"
  /\ pc' = WokenLock(t, "idle")
  /\ loc' = [loc EXCEPT ![t] = NoLocals]
  /\ res' = [res EXCEPT ![t] = IF loc[t].out THEN "true" ELSE "false"]
  /\ UNCHANGED <<cursors, barriers, slots, closers, caller, history>>

channel_close_lock(t) == LockRequest(t) \/ LockLoad(t) \/ LockWait(t)

channel_close_unlock(t) == Unlock(t) \/ UnlockWake(t)

SetClosing(t, bit, label) ==
  /\ closing_state' = closing_state \cup {bit}
  /\ Goto(t, label)
  /\ UNCHANGED <<cursors, barriers, slots, closing_lock_requested,
                 closing_lock_completed, caller, history>>

CloseRecheck(t) ==
  /\ pc[t] = "locked" /\ op[t] # "reopen"
  /\ IF channel_is_closed THEN Goto(t, "unlock")
     ELSE Step(t, "set_push", [loc[t] EXCEPT !.out = TRUE])
  /\ UNCHANGED <<cursors, barriers, slots, closers, caller, history>>

CloseSetPush(t) == pc[t] = "set_push" /\ SetClosing(t, "PUSH", "close_tail")

CloseLoadTail(t) ==
  /\ pc[t] = "close_tail"
  /\ Step(t, "close_head", [loc[t] EXCEPT !.tail = tail])
  /\ UNCHANGED <<cursors, barriers, slots, closers, caller, history>>

CloseLoadHead(t) ==
  /\ pc[t] = "close_head"
  /\ Step(t, "tail_barrier", [loc[t] EXCEPT !.head = head])
  /\ UNCHANGED <<cursors, barriers, slots, closers, caller, history>>

\* More pushes are under way than there are slots for: the barrier is the
\* first ticket without a slot.  Otherwise it is the next ticket.
Overfull(t) == loc[t].head.t + Capacity < loc[t].tail.t

StoreTailBarrier(t) ==
  /\ pc[t] = "tail_barrier"
  /\ tail_barrier' = IF Overfull(t) THEN loc[t].head.t + Capacity ELSE loc[t].tail.t
  /\ Goto(t, "push_cas")
  /\ UNCHANGED <<cursors, head_barrier, head_cancel_count, tail_cancel_count, slots,
                 closers, caller, history>>

\* The compare-and-swap that makes the barrier count.  A spurious failure of
\* the weak form is the same as one more turn of the loop.
PushClosedCas(t) ==
  /\ pc[t] = "push_cas"
  /\ \/ /\ Overfull(t) /\ head = loc[t].head
        /\ head' = [head EXCEPT !.push_closed = TRUE]
        /\ UNCHANGED tail
        /\ Goto(t, "tail_again")
     \/ /\ ~Overfull(t) /\ tail = loc[t].tail
        /\ tail' = [tail EXCEPT !.push_closed = TRUE]
        /\ UNCHANGED head
        /\ Goto(t, "set_pop")
     \/ /\ IF Overfull(t) THEN head # loc[t].head ELSE tail # loc[t].tail
        /\ UNCHANGED cursors
        /\ Goto(t, "close_tail")
  /\ UNCHANGED <<barriers, slots, closers, caller, history>>

TailAgain(t) ==
  /\ pc[t] = "tail_again"
  /\ Step(t, "add_cancels", [loc[t] EXCEPT !.tail = tail])
  /\ UNCHANGED <<cursors, barriers, slots, closers, caller, history>>

\* Mutant: the tail after the back-offs is taken for the tail before them.
MutantAddCancels(t) ==
  /\ pc[t] = "add_cancels"
  /\ Goto(t, "set_pop")
  /\ UNCHANGED <<cursors, barriers, slots, closers, caller, history>>

AddCancels(t) ==
  /\ pc[t] = "add_cancels"
  /\ Step(t, "set_pop", [loc[t] EXCEPT !.tail.t = @ + tail_cancel_count])
  /\ UNCHANGED <<cursors, barriers, slots, closers, caller, history>>

CloseSetPop(t) == pc[t] = "set_pop" /\
  SetClosing(t, "POP", IF op[t] = "close_push" THEN "head_barrier" ELSE "pop_head")

PopLoadHead(t) ==
  /\ pc[t] = "pop_head"
  /\ Step(t, "head_barrier", [loc[t] EXCEPT !.head = head])
  /\ UNCHANGED <<cursors, barriers, slots, closers, caller, history>>

\* Mutants: the barrier of the pops ignores that of the pushes, and close_push
\* chooses it like close_soft.
MutantHeadBarrierUnlimited(t) ==
  /\ pc[t] = "head_barrier"
  /\ head_barrier' = IF op[t] = "close_soft" THEN loc[t].head.t ELSE tail_barrier
  /\ Goto(t, "pop_cas")
  /\ UNCHANGED <<cursors, tail_barrier, head_cancel_count, tail_cancel_count, slots,
                 closers, caller, history>>

MutantHeadBarrierSoft(t) ==
  /\ pc[t] = "head_barrier"
  /\ head_barrier' = IF loc[t].head.t < tail_barrier THEN loc[t].head.t ELSE tail_barrier
  /\ Goto(t, "pop_cas")
  /\ UNCHANGED <<cursors, tail_barrier, head_cancel_count, tail_cancel_count, slots,
                 closers, caller, history>>

StoreHeadBarrier(t) ==
  /\ pc[t] = "head_barrier"
  /\ head_barrier' = IF op[t] = "close_soft" /\ loc[t].head.t < tail_barrier
                     THEN loc[t].head.t ELSE tail_barrier
  /\ Goto(t, "pop_cas")
  /\ UNCHANGED <<cursors, tail_barrier, head_cancel_count, tail_cancel_count, slots,
                 closers, caller, history>>

\* _channel_close_wakeup_ticket_range over the pops and then over the pushes
\* past their barrier, no slot twice.
RangeEnd(from, to) == IF from + Capacity < to THEN from + Capacity ELSE to

HeadRangeDone(l) == l.side = "head" /\ l.k >= RangeEnd(head_barrier, l.head.t)

RangeLocals(l) ==
  IF HeadRangeDone(l) THEN [l EXCEPT !.side = "tail", !.k = tail_barrier] ELSE l

RangeLabel(l) ==
  LET r == RangeLocals(l) IN
  IF r.side = "tail" /\ r.k >= RangeEnd(tail_barrier, r.tail.t) THEN "set_closed"
                                                               ELSE "notify"

NextInRange(t, l) == Step(t, RangeLabel(l), RangeLocals(l))

\* close_push sets the bit with a fetch-or, close_soft with a compare-and-swap.
PopClosedCas(t) ==
  /\ pc[t] = "pop_cas"
  /\ IF op[t] = "close_push" \/ head = loc[t].head
     THEN /\ head' = [head EXCEPT !.pop_closed = TRUE]
          /\ NextInRange(t, [loc[t] EXCEPT !.head = head, !.k = head_barrier])
     ELSE UNCHANGED head /\ Goto(t, "pop_head")
  /\ UNCHANGED <<tail, barriers, slots, closers, caller, history>>

RangeSlot(t) == channel_get_target(loc[t].k)

NextTicket(t) == [loc[t] EXCEPT !.k = @ + 1]

\* Mutant: the id is left as it is, so a thread about to sleep does not notice.
MutantNotifySlot(t) ==
  /\ pc[t] = "notify"
  /\ Goto(t, "notify_load")
  /\ UNCHANGED <<cursors, barriers, slots, closers, caller, history>>

NotifySlot(t) ==
  /\ pc[t] = "notify"
  /\ ids' = [ids EXCEPT ![RangeSlot(t)].notify = TRUE]
  /\ Goto(t, "notify_load")
  /\ UNCHANGED <<cursors, barriers, items, closers, caller, history>>

NotifyLoad(t) ==
  /\ pc[t] = "notify_load"
  /\ IF Blocking /\ ids[RangeSlot(t)].waiting THEN Goto(t, "notify_clear")
     ELSE NextInRange(t, NextTicket(t))
  /\ UNCHANGED <<cursors, barriers, slots, closers, caller, history>>

NotifyClear(t) ==
  /\ pc[t] = "notify_clear"
  /\ ids' = [ids EXCEPT ![RangeSlot(t)].waiting = FALSE]
  /\ Goto(t, "notify_wake")
  /\ UNCHANGED <<cursors, barriers, items, closers, caller, history>>

\* Mutant: the waiting bit is cleared but nobody is woken.
MutantNotifyWake(t) ==
  /\ pc[t] = "notify_wake"
  /\ NextInRange(t, NextTicket(t))
  /\ UNCHANGED <<cursors, barriers, slots, closers, caller, history>>

NotifyWake(t) ==
  /\ pc[t] = "notify_wake"
  /\ pc' = WokenSlot(t, RangeSlot(t), RangeLabel(NextTicket(t)))
  /\ loc' = [loc EXCEPT ![t] = RangeLocals(NextTicket(t))]
  /\ UNCHANGED <<cursors, barriers, slots, closers, res, caller, history>>

channel_close_wakeup_ticket_range(t) ==
  NotifySlot(t) \/ NotifyLoad(t) \/ NotifyClear(t) \/ NotifyWake(t)

CloseSetClosed(t) == pc[t] = "set_closed" /\ SetClosing(t, "CLOSED", "unlock")

CloseTail(t) ==
  \/ CloseRecheck(t) \/ CloseSetPush(t) \/ CloseLoadTail(t) \/ CloseLoadHead(t)
  \/ StoreTailBarrier(t) \/ PushClosedCas(t) \/ TailAgain(t) \/ AddCancels(t)

CloseHead(t) ==
  \/ CloseSetPop(t) \/ PopLoadHead(t) \/ StoreHeadBarrier(t) \/ PopClosedCas(t)

\* Mutant: a hard closed channel is reopened too.
MutantReopenRecheck(t) ==
  /\ pc[t] = "locked" /\ op[t] = "reopen"
  /\ Goto(t, IF channel_is_closed THEN "open" ELSE "unlock")
  /\ UNCHANGED <<cursors, barriers, slots, closers, caller, history>>

ReopenRecheck(t) ==
  /\ \/ pc[t] = "locked" /\ op[t] = "reopen"
        /\ Goto(t, IF channel_is_closed THEN "check_hard" ELSE "unlock")
     \/ pc[t] = "check_hard"
        /\ Goto(t, IF channel_is_hard_closed THEN "unlock" ELSE "open")
  /\ UNCHANGED <<cursors, barriers, slots, closers, caller, history>>

ReopenStore(t) ==
  /\ pc[t] = "open"
  /\ closing_state' = {}
  /\ Goto(t, "clear_ids")
  /\ UNCHANGED <<cursors, barriers, slots, closing_lock_requested,
                 closing_lock_completed, caller, history>>

ReopenClearIds(t) ==
  /\ pc[t] = "clear_ids"
  /\ ids' = [ids EXCEPT ![loc[t].k].notify = FALSE]
  /\ Step(t, IF loc[t].k = Capacity - 1 THEN "clear_head" ELSE "clear_ids", NextTicket(t))
  /\ UNCHANGED <<cursors, barriers, items, closers, caller, history>>

Unclosed(cursor) == [cursor EXCEPT !.push_closed = FALSE, !.pop_closed = FALSE]

\* Mutant: the closed bits of tail stay set.
MutantReopenClearCursors(t) ==
  /\ \/ /\ pc[t] = "clear_head" /\ Goto(t, "clear_tail")
        /\ head' = Unclosed(head) /\ UNCHANGED tail
     \/ /\ pc[t] = "clear_tail" /\ Goto(t, "zero_head_barrier")
        /\ UNCHANGED cursors
  /\ UNCHANGED <<barriers, slots, closers, caller, history>>

ReopenClearCursors(t) ==
  /\ \/ /\ pc[t] = "clear_head" /\ Goto(t, "clear_tail")
        /\ head' = Unclosed(head) /\ UNCHANGED tail
     \/ /\ pc[t] = "clear_tail" /\ Goto(t, "zero_head_barrier")
        /\ tail' = Unclosed(tail) /\ UNCHANGED head
  /\ UNCHANGED <<barriers, slots, closers, caller, history>>

ReopenZero(t) ==
  /\ \/ /\ pc[t] = "zero_head_barrier" /\ Goto(t, "zero_head_count")
        /\ head_barrier' = 0
        /\ UNCHANGED <<tail_barrier, head_cancel_count, tail_cancel_count>>
     \/ /\ pc[t] = "zero_head_count" /\ Goto(t, "zero_tail_barrier")
        /\ head_cancel_count' = 0
        /\ UNCHANGED <<tail_barrier, head_barrier, tail_cancel_count>>
     \/ /\ pc[t] = "zero_tail_barrier" /\ Goto(t, "zero_tail_count")
        /\ tail_barrier' = 0
        /\ UNCHANGED <<head_barrier, head_cancel_count, tail_cancel_count>>
     \/ /\ pc[t] = "zero_tail_count" /\ Step(t, "unlock", [loc[t] EXCEPT !.out = TRUE])
        /\ tail_cancel_count' = 0
        /\ UNCHANGED <<tail_barrier, head_barrier, head_cancel_count>>
  /\ UNCHANGED <<cursors, slots, closers, caller, history>>

channel_close_hard(t) ==
  /\ Enter(t, "close_hard")
  /\ Return(t, IF channel_is_hard_closed THEN "false" ELSE "true")
  /\ closing_state' = closing_state \cup {"HARD"}
  /\ UNCHANGED <<cursors, barriers, slots, closing_lock_requested,
                 closing_lock_completed, history>>

InClose(t) ==
  \/ channel_close_lock(t) \/ CloseTail(t) \/ CloseHead(t)
  \/ channel_close_wakeup_ticket_range(t) \/ CloseSetClosed(t) \/ channel_close_unlock(t)

InReopen(t) ==
  \/ ReopenRecheck(t) \/ ReopenStore(t) \/ ReopenClearIds(t)
  \/ ReopenClearCursors(t) \/ ReopenZero(t)

----------------------------------------------------------------------------
(* channel_count: two loads.                                               *)

\* Mutant: the head that was loaded is counted as claimed once more.
MutantSignedDistance(h, tl) == tl.t - h.t - 1

channel_signed_distance(h, tl) == tl.t - h.t

channel_count(h, tl) ==
  LET dist == channel_signed_distance(h, tl) IN
  IF dist <= 0 THEN 0 ELSE IF dist >= Capacity THEN Capacity ELSE dist

CountBegin(t) ==
  /\ Enter(t, "count")
  /\ Step(t, "count_tail", [NoLocals EXCEPT !.head = head])
  /\ UNCHANGED <<cursors, barriers, slots, closers, history>>

CountEnd(t) ==
  /\ pc[t] = "count_tail"
  /\ Return(t, "counted")
  /\ UNCHANGED <<cursors, barriers, slots, closers, caller, history>>

----------------------------------------------------------------------------
(* channel_init, and the system.                                           *)

Init ==
  /\ head = Start /\ tail = Start
  /\ head_barrier = 0 /\ tail_barrier = 0
  /\ head_cancel_count = 0 /\ tail_cancel_count = 0
  /\ ids = [s \in Slots |-> ZeroId]
  /\ items = [s \in Slots |-> NoItem]
  /\ closing_state = {}
  /\ closing_lock_requested = 0 /\ closing_lock_completed = 0
  /\ pc = [t \in Threads |-> "idle"]
  /\ op = [t \in Threads |-> "none"]
  /\ res = [t \in Threads |-> "none"]
  /\ loc = [t \in Threads |-> NoLocals]
  /\ calls = [t \in Threads |-> 0]
  /\ sent = {}
  /\ got = [t \in Threads |-> <<>>]

\* A thread outside the channel calls one of its functions.
Begin(t) ==
  \/ PushBegin(t) \/ PopBegin(t) \/ TryPushBegin(t) \/ TryPopBegin(t)
  \/ CloseBegin(t) \/ ReopenBegin(t) \/ channel_close_hard(t) \/ CountBegin(t)

\* A thread inside a function executes its next atomic operation.
Inside(t) ==
  \/ InPush(t) \/ InPop(t) \/ InTryPush(t) \/ InTryPop(t)
  \/ InClose(t) \/ InReopen(t) \/ CountEnd(t)

Quiet == \A t \in Threads : pc[t] = "idle"

\* Threads are not obliged to call anything.
Rest == Quiet /\ UNCHANGED vars

Next == (\E t \in Threads : Begin(t) \/ Inside(t)) \/ Rest

Spec == Init /\ [][Next]_vars

\* The operating system keeps scheduling a thread that can run.
FairSpec == Spec /\ \A t \in Threads : WF_vars(Inside(t))

----------------------------------------------------------------------------
(* Properties.                                                             *)

Labels ==
  {"idle", "load_id", "load_closing", "load_tail", "load_head", "load_barrier",
   "cancel", "back_off", "set_waiting", "wait", "asleep", "cas", "retry", "data",
   "advance", "wake", "lock_request", "lock_load", "lock_wait", "lock_asleep",
   "locked", "set_push", "close_tail", "close_head", "tail_barrier", "push_cas",
   "tail_again", "add_cancels", "set_pop", "pop_head", "head_barrier", "pop_cas",
   "notify", "notify_load", "notify_clear", "notify_wake", "set_closed", "unlock",
   "unlock_wake", "check_hard", "open", "clear_ids", "clear_head", "clear_tail",
   "zero_head_barrier", "zero_head_count", "zero_tail_barrier", "zero_tail_count",
   "count_tail"}

Results == {"none", "ok", "closed", "full", "empty", "lost_race", "true", "false",
            "counted"}

Item == Threads \X Nat

ThreadOK ==
  /\ pc \in [Threads -> Labels]
  /\ res \in [Threads -> Results]
  /\ loc \in [Threads -> Locals]

SharedOK ==
  /\ head \in Cursor /\ tail \in Cursor
  /\ head_barrier \in Int /\ tail_barrier \in Int
  /\ head_cancel_count \in Nat /\ tail_cancel_count \in Nat
  /\ ids \in [Slots -> Id]
  /\ items \in [Slots -> Item \cup {NoItem}]
  /\ closing_state \in SUBSET {"PUSH", "POP", "CLOSED", "HARD"}
  /\ closing_lock_requested \in Nat /\ closing_lock_completed \in Nat
  /\ op \in [Threads -> Ops \cup {"none"}]
  /\ calls \in [Threads -> Nat]
  /\ sent \in SUBSET Item
  /\ got \in [Threads -> Seq(Item \cup {NoItem})]

\* Every variable has its type; the closing lock and the cancel counters only
\* ever count up from zero.
TypeOK == ThreadOK /\ SharedOK

\* Between matching the id of its slot and advancing it an operation is alone
\* in that slot, and the id is still the one it matched: the ASSERT of
\* _channel_advance_id, and no two memcpy on one item race.
SlotExclusion ==
  \A t \in Threads : pc[t] \in {"data", "advance"} =>
    /\ channel_id_equals(ids[Target(t)], MyId(t))
    /\ \A u \in Threads \ {t} :
         pc[u] \in {"data", "advance"} => Target(u) # Target(t)

Got == UNION {{got[t][i] : i \in DOMAIN got[t]} : t \in Threads}

\* Only published items are popped, and each at most once, whichever threads
\* pop and however closing interferes.
ExactlyOnce ==
  /\ Got \subseteq sent
  /\ \A t, u \in Threads : \A i \in DOMAIN got[t], j \in DOMAIN got[u] :
       got[t][i] = got[u][j] => t = u /\ i = j

\* Each consumer sees the items of one producer in the order they were pushed,
\* what the linearization test of the repository looks for.
ProducerOrder ==
  \A t \in Threads : \A i, j \in DOMAIN got[t] :
    i < j /\ got[t][i][1] = got[t][j][1] => got[t][i][2] < got[t][j][2]

\* A thread is on its way to wake the sleepers of a slot.
Waking(slot) ==
  \E u \in Threads :
    \/ pc[u] = "wake" /\ Target(u) = slot
    \/ pc[u] \in {"notify_clear", "notify_wake"} /\ RangeSlot(u) = slot
    \/ pc[u] = "notify_load" /\ RangeSlot(u) = slot /\ ids[slot].waiting

\* No wakeup is lost: when a slot comes round to the id that a sleeper waits
\* for, or a completed close has put the sleeper past its barrier, somebody is
\* on the way to wake it.
NoLostWakeup ==
  \A t \in Threads :
    /\ pc[t] = "asleep"
    /\ \/ channel_id_equals(ids[Target(t)], MyId(t))
       \/ /\ "CLOSED" \in closing_state
          /\ loc[t].ticket >= (IF IsPop(t) THEN head_barrier ELSE tail_barrier)
    => Waking(Target(t))

HoldLabels ==
  {"locked", "set_push", "close_tail", "close_head", "tail_barrier", "push_cas",
   "tail_again", "add_cancels", "set_pop", "pop_head", "head_barrier", "pop_cas",
   "notify", "notify_load", "notify_clear", "notify_wake", "set_closed", "unlock",
   "check_hard", "open", "clear_ids", "clear_head", "clear_tail", "zero_head_barrier",
   "zero_head_count", "zero_tail_barrier", "zero_tail_count"}

Holding(t) == pc[t] \in HoldLabels

\* At most one thread is between taking and releasing the closing lock.
LockExclusion ==
  \A t, u \in Threads : Holding(t) /\ Holding(u) => t = u

\* The ASSERTs of _channel_close_soft_custom on the barriers it has chosen.
CloseAsserts ==
  \A t \in Threads :
    pc[t] \in {"notify", "notify_load", "notify_clear", "notify_wake", "set_closed"} =>
      /\ head_barrier <= tail_barrier
      /\ tail_barrier <= loc[t].tail.t
      /\ op[t] = "close_soft" => head_barrier <= loc[t].head.t

\* channel_is_consistent_converged_state.
MaxFilled == IF tail.t < head.t + Capacity THEN tail.t ELSE head.t + Capacity

consistent_converged_state ==
  /\ IF "CLOSED" \in closing_state
     THEN /\ tail_barrier - head_barrier \in 0 .. Capacity
          /\ tail.push_closed \/ head.push_closed
          /\ head.pop_closed
     ELSE /\ ~tail.push_closed /\ ~tail.pop_closed
          /\ ~head.push_closed /\ ~head.pop_closed
          /\ tail_barrier = 0 /\ head_barrier = 0
  /\ \A tk \in head.t .. MaxFilled - 1 :
       channel_id_equals(ids[channel_get_target(tk)], channel_get_id(tk, TRUE))
  /\ \A tk \in MaxFilled .. head.t + Capacity - 1 :
       channel_id_equals(ids[channel_get_target(tk)], channel_get_id(tk, FALSE))

\* With nobody inside and no hard close the channel is in the state that the
\* repository's tests demand at their quiet points, closed or open.
Converged == Quiet /\ ~channel_is_hard_closed => consistent_converged_state

\* Closing and reopening lose nothing: once all calls have returned, the items
\* pushed and not popped are those of the tickets between the two counters.
NothingLost ==
  Quiet /\ ~channel_is_hard_closed => Cardinality(sent \ Got) = MaxFilled - head.t

\* After channel_close_push a pop reports closed only once every item that was
\* pushed has been popped, or belongs to a pop that is still under way.
PushCloseDrains ==
  /\ "CLOSED" \in closing_state /\ ~channel_is_hard_closed
  /\ \E t \in Threads : op[t] = "close_push" /\ res[t] = "true"
  /\ \E t \in Threads : pc[t] = "idle" /\ op[t] \in PopOps /\ res[t] = "closed"
  => Cardinality(sent \ Got) <=
       Cardinality({t \in Threads : pc[t] # "idle" /\ op[t] \in PopOps})

\* The items that are in the channel and that no pop has claimed.
Unclaimed ==
  {tk \in head.t .. tail.t - 1 :
     channel_id_equals(ids[channel_get_target(tk)], channel_get_id(tk, TRUE))}

\* channel_count is an upper bound on the items in the channel at the moment of
\* its second load, although pushes and pops went on since the first.
CountUpperBound ==
  \A t \in Threads :
    pc[t] = "count_tail" => channel_count(loc[t].head, tail) >= Cardinality(Unclaimed)

\* No reopening undoes a hard close, as long as the two are not concurrent.
HardStays == [][channel_is_hard_closed => channel_is_hard_closed']_vars

\* Once a close is complete every thread inside the channel gets out.
ClosedReleases ==
  \A t \in Threads : ("CLOSED" \in closing_state /\ pc[t] # "idle") ~> (pc[t] = "idle")

====
