--------------------------- MODULE ChannelProofs ---------------------------
(***************************************************************************)
(* Proofs about Channel, for any set of threads, any capacity and any      *)
(* number of calls: its types, and mutual exclusion of the closing lock.   *)
(***************************************************************************)
EXTENDS Channel, TLAPS

\* The initial locals are locals.
LEMMA NoLocalsType == NoLocals \in Locals /\ Start \in Cursor /\ ZeroId \in Id
BY DEF NoLocals, Locals, Start, Cursor, ZeroId, Id

\* Moving a cursor, and setting or clearing its closed bits.
LEMMA CursorUpdate ==
  ASSUME NEW c \in Cursor
  PROVE  /\ c.t \in Int
         /\ [c EXCEPT !.t = @ + 1] \in Cursor
         /\ [c EXCEPT !.t = @ - 1] \in Cursor
         /\ [c EXCEPT !.push_closed = TRUE] \in Cursor
         /\ [c EXCEPT !.pop_closed = TRUE] \in Cursor
         /\ Unclosed(c) \in Cursor
<1>1. c.t \in Int
  BY DEF Cursor
<1>2. \A n \in Int : [c EXCEPT !.t = n] \in Cursor
  BY DEF Cursor
<1>3. /\ [c EXCEPT !.push_closed = TRUE] \in Cursor
      /\ [c EXCEPT !.pop_closed = TRUE] \in Cursor
  BY DEF Cursor
<1>4. Unclosed(c) \in Cursor
  BY DEF Cursor, Unclosed
<1>5. c.t + 1 \in Int /\ c.t - 1 \in Int
  BY <1>1
<1> QED BY <1>1, <1>2, <1>3, <1>4, <1>5

\* A step inside a function keeps the types of the thread's variables.
LEMMA StepType ==
  ASSUME ThreadOK, NEW t \in Threads, NEW label \in Labels, NEW l \in Locals,
         Step(t, label, l)
  PROVE  ThreadOK'
BY DEF ThreadOK, Step

\* Moving a thread to another label keeps the type of pc.
LEMMA GotoType ==
  ASSUME ThreadOK, NEW t \in Threads, NEW label \in Labels, Goto(t, label)
  PROVE  ThreadOK'
BY DEF ThreadOK, Step, Goto

\* Returning from a call keeps the types of the caller's variables.
LEMMA ReturnType ==
  ASSUME ThreadOK, NEW t \in Threads, NEW r \in Results, Return(t, r)
  PROVE  ThreadOK'
BY NoLocalsType DEF ThreadOK, Return, Labels

\* A ticket always names a slot.
LEMMA TargetType == \A tk \in Int : channel_get_target(tk) \in Slots
BY ChannelAssumption DEF channel_get_target, Slots

\* _channel_get_id is an integer, whatever the ticket.
LEMMA IdType == \A tk \in Int, b \in BOOLEAN : channel_get_id(tk, b) \in Int
BY ChannelAssumption DEF channel_get_id

\* Entering a call keeps the types of the caller's variables.
LEMMA EnterType ==
  ASSUME TypeOK, NEW t \in Threads, NEW o \in Ops, Enter(t, o)
  PROVE  /\ op' \in [Threads -> Ops \cup {"none"}]
         /\ calls' \in [Threads -> Nat]
BY DEF TypeOK, SharedOK, Enter

\* Writing one local keeps the locals well typed.
LEMMA LocalsUpdate ==
  ASSUME NEW l \in Locals
  PROVE  /\ \A n \in Int : /\ [l EXCEPT !.ticket = n] \in Locals
                           /\ [l EXCEPT !.k = n] \in Locals
                           /\ [l EXCEPT !.tail.t = n] \in Locals
         /\ \A id \in Id : [l EXCEPT !.curr = id] \in Locals
         /\ \A c \in Cursor : /\ [l EXCEPT !.tail = c] \in Locals
                              /\ [l EXCEPT !.head = c] \in Locals
         /\ \A b \in BOOLEAN : /\ [l EXCEPT !.curr.waiting = b] \in Locals
                               /\ [l EXCEPT !.out = b] \in Locals
         /\ \A n \in Int, c \in Cursor :
              /\ [l EXCEPT !.ticket = n, !.tail = c] \in Locals
              /\ [l EXCEPT !.ticket = n, !.head = c] \in Locals
              /\ [l EXCEPT !.head = c, !.k = n] \in Locals
         /\ \A n \in Int, side \in {"head", "tail"} :
              [l EXCEPT !.side = side, !.k = n] \in Locals
BY DEF Locals, Id, Cursor

\* The fields of a thread's locals have their types.
LEMMA LocalsFields ==
  ASSUME NEW l \in Locals
  PROVE  /\ l.ticket \in Int /\ l.k \in Int /\ l.curr \in Id
         /\ l.tail \in Cursor /\ l.tail.t \in Int
         /\ l.head \in Cursor /\ l.head.t \in Int
BY DEF Locals, Cursor

\* Steps that write no shared variable.
LEMMA SharedSame ==
  ASSUME SharedOK, UNCHANGED <<cursors, barriers, slots, closers, caller, history>>
  PROVE  SharedOK'
BY DEF SharedOK, cursors, barriers, slots, closers, caller, history

\* Where a push or pop attempt goes next keeps the types.
LEMMA AttemptType ==
  ASSUME TypeOK, NEW t \in Threads, Attempt(t)
  PROVE  TypeOK'
<1> USE DEF TypeOK
<1>0. loc[t] \in Locals
  BY DEF ThreadOK
<1>p. Proceed(t) => ThreadOK'
  BY GotoType, ReturnType DEF Proceed, Labels, Results
<1>c. Cancel(t) => ThreadOK'
  BY GotoType, ReturnType DEF Cancel, Labels, Results
<1>1. ASSUME LoadId(t) PROVE ThreadOK'
  <2>1. ids[Target(t)] \in Id
    BY <1>0, LocalsFields, TargetType DEF SharedOK, Target
  <2>2. [loc[t] EXCEPT !.curr = ids[Target(t)]] \in Locals
    BY <1>0, <2>1, LocalsUpdate
  <2> QED BY <1>1, <2>2, StepType DEF LoadId, Labels
<1>2. ASSUME LoadClosing(t) PROVE ThreadOK'
  BY <1>2, <1>p, <1>c, GotoType DEF LoadClosing, Labels
<1>3. ASSUME LoadTailBit(t) PROVE ThreadOK'
  BY <1>3, GotoType DEF LoadTailBit, Labels
<1>4. ASSUME LoadHeadBit(t) PROVE ThreadOK'
  BY <1>4, <1>p, GotoType DEF LoadHeadBit, Labels
<1>5. ASSUME LoadBarrier(t) PROVE ThreadOK'
  BY <1>5, <1>p, <1>c DEF LoadBarrier
<1>6. SharedOK'
  BY SharedSame DEF Attempt, LoadId, LoadClosing, LoadTailBit, LoadHeadBit, LoadBarrier
<1> QED BY <1>1, <1>2, <1>3, <1>4, <1>5, <1>6 DEF Attempt

\* The steps that begin a call keep the types.
LEMMA BeginType ==
  ASSUME TypeOK, NEW t \in Threads, Begin(t)
  PROVE  TypeOK'
<1> USE NoLocalsType DEF TypeOK
<1>0. head.t \in Int /\ tail.t \in Int
  BY DEF SharedOK, Cursor
<1>1. CASE PushBegin(t)
  <2>1. op' \in [Threads -> Ops \cup {"none"}] /\ calls' \in [Threads -> Nat]
    BY <1>1, EnterType DEF PushBegin, Ops, PushOps
  <2>2. ThreadOK'
    <3>1. [NoLocals EXCEPT !.ticket = tail.t] \in Locals
      BY <1>0, LocalsUpdate
    <3> QED BY <1>1, <3>1, StepType DEF PushBegin, Labels
  <2>3. SharedOK'
    BY <1>1, <2>1, CursorUpdate DEF PushBegin, SharedOK, barriers, slots, closers, history
  <2> QED BY <2>2, <2>3
<1>2. CASE PopBegin(t)
  <2>1. op' \in [Threads -> Ops \cup {"none"}] /\ calls' \in [Threads -> Nat]
    BY <1>2, EnterType DEF PopBegin, Ops, PopOps
  <2>2. ThreadOK'
    <3>1. [NoLocals EXCEPT !.ticket = head.t] \in Locals
      BY <1>0, LocalsUpdate
    <3> QED BY <1>2, <3>1, StepType DEF PopBegin, Labels
  <2>3. SharedOK'
    BY <1>2, <2>1, CursorUpdate DEF PopBegin, SharedOK, barriers, slots, closers, history
  <2> QED BY <2>2, <2>3
\* The other functions begin without writing to the channel.
<1>3. ASSUME op' \in [Threads -> Ops \cup {"none"}], calls' \in [Threads -> Nat],
             UNCHANGED <<cursors, barriers, slots, closers, history>>
      PROVE  SharedOK'
  BY <1>3 DEF SharedOK, cursors, barriers, slots, closers, history
<1>4. CASE TryPushBegin(t) \/ TryPopBegin(t)
  <2>1. op' \in [Threads -> Ops \cup {"none"}] /\ calls' \in [Threads -> Nat]
    BY <1>4, EnterType DEF TryPushBegin, TryPopBegin, Ops, TryOps, PushOps, PopOps
  <2>2. ThreadOK'
    BY <1>0, <1>4, LocalsUpdate, StepType
      DEF TryPushBegin, TryPopBegin, TryLoadTail, TryLoadHead, Labels, SharedOK
  <2>3. SharedOK'
    BY <1>3, <1>4, <2>1 DEF TryPushBegin, TryPopBegin
  <2> QED BY <2>2, <2>3
<1>5. CASE CloseBegin(t) \/ ReopenBegin(t)
  <2>1. op' \in [Threads -> Ops \cup {"none"}] /\ calls' \in [Threads -> Nat]
    BY <1>5, EnterType DEF CloseBegin, ReopenBegin, Ops, CloseOps
  <2>2. ThreadOK'
    BY <1>5, StepType, ReturnType DEF CloseBegin, ReopenBegin, Labels, Results
  <2>3. SharedOK'
    BY <1>3, <1>5, <2>1 DEF CloseBegin, ReopenBegin
  <2> QED BY <2>2, <2>3
<1>6. CASE channel_close_hard(t)
  <2>1. op' \in [Threads -> Ops \cup {"none"}] /\ calls' \in [Threads -> Nat]
    BY <1>6, EnterType DEF channel_close_hard, Ops, CloseOps
  <2>2. ThreadOK'
    BY <1>6, ReturnType DEF channel_close_hard, Results
  <2>3. SharedOK'
    BY <1>6, <2>1 DEF channel_close_hard, SharedOK, cursors, barriers, slots, history
  <2> QED BY <2>2, <2>3
<1>7. CASE CountBegin(t)
  <2>1. op' \in [Threads -> Ops \cup {"none"}] /\ calls' \in [Threads -> Nat]
    BY <1>7, EnterType DEF CountBegin, Ops
  <2>2. ThreadOK'
    BY <1>7, LocalsUpdate, StepType DEF CountBegin, Labels, SharedOK
  <2>3. SharedOK'
    BY <1>3, <1>7, <2>1 DEF CountBegin
  <2> QED BY <2>2, <2>3
<1> QED BY <1>1, <1>2, <1>4, <1>5, <1>6, <1>7 DEF Begin

\* Threads that are woken go to a label of their own function.
LEMMA WokenSlotType ==
  ASSUME ThreadOK, NEW t \in Threads, NEW slot, NEW label \in Labels
  PROVE  WokenSlot(t, slot, label) \in [Threads -> Labels]
BY DEF ThreadOK, WokenSlot, Labels

\* Waking the sleepers of the closing lock keeps the type of pc.
LEMMA WokenLockType ==
  ASSUME ThreadOK, NEW t \in Threads, NEW label \in Labels
  PROVE  WokenLock(t, label) \in [Threads -> Labels]
BY DEF ThreadOK, WokenLock, Labels

\* Setting and clearing the low bits of an id.
LEMMA IdBitType ==
  ASSUME SharedOK, NEW s, NEW b \in BOOLEAN
  PROVE  /\ [ids EXCEPT ![s].waiting = b] \in [Slots -> Id]
         /\ [ids EXCEPT ![s].notify = b] \in [Slots -> Id]
<1>1. [ids EXCEPT ![s].waiting = b] \in [Slots -> Id]
  BY DEF SharedOK, Id
<1>2. [ids EXCEPT ![s].notify = b] \in [Slots -> Id]
  BY DEF SharedOK, Id
<1> QED BY <1>1, <1>2

\* Copying the item, advancing the slot and waking keep the types.
LEMMA FinishType ==
  ASSUME TypeOK, NEW t \in Threads, Finish(t)
  PROVE  TypeOK'
<1> USE DEF TypeOK
<1>0. Target(t) \in Slots /\ MyId(t) \in Int /\ MyItem(t) \in Item
  <2>1. loc[t].ticket \in Int
    BY LocalsFields DEF ThreadOK
  <2>2. IsPop(t) \in BOOLEAN
    BY DEF IsPop
  <2> QED BY <2>1, <2>2, TargetType, IdType DEF Target, MyId, MyItem, Item, SharedOK
<1>1. CASE CopyItem(t)
  <2>1. ThreadOK'
    BY <1>1, GotoType DEF CopyItem, Labels
  <2>2. items' \in [Slots -> Item \cup {NoItem}]
    BY <1>0, <1>1 DEF CopyItem, SharedOK
  <2>3. got' \in [Threads -> Seq(Item \cup {NoItem})]
    <3>1. items[Target(t)] \in Item \cup {NoItem}
      BY <1>0 DEF SharedOK
    <3>2. Append(got[t], items[Target(t)]) \in Seq(Item \cup {NoItem})
      BY <3>1 DEF SharedOK
    <3> QED BY <1>1, <3>2 DEF CopyItem, SharedOK
  <2>4. SharedOK'
    BY <1>1, <2>2, <2>3 DEF CopyItem, SharedOK, cursors, barriers, closers, caller
  <2> QED BY <2>1, <2>4
<1>2. CASE AdvanceId(t)
  <2>1. ThreadOK'
    BY <1>2, GotoType, ReturnType DEF AdvanceId, Labels, Results
  <2>2. ids' \in [Slots -> Id]
    BY <1>0, <1>2 DEF AdvanceId, SharedOK, Id
  <2>3. sent' \in SUBSET Item
    BY <1>0, <1>2 DEF AdvanceId, SharedOK
  <2>4. SharedOK'
    BY <1>2, <2>2, <2>3 DEF AdvanceId, SharedOK, cursors, barriers, closers, caller
  <2> QED BY <2>1, <2>4
<1>3. CASE AdvanceWake(t)
  <2>1. pc' \in [Threads -> Labels]
    <3>1. "idle" \in Labels
      BY DEF Labels
    <3> QED BY <1>3, <3>1, WokenSlotType DEF AdvanceWake
  <2>2. ThreadOK'
    BY <1>3, <2>1, NoLocalsType DEF AdvanceWake, ThreadOK, Results
  <2>3. SharedOK'
    BY <1>3, SharedSame DEF AdvanceWake
  <2> QED BY <2>2, <2>3
<1> QED BY <1>1, <1>2, <1>3 DEF Finish

\* Counting a cancelled call and taking its ticket back keep the types.
LEMMA CancelType ==
  ASSUME TypeOK, NEW t \in Threads, potentially_cancel(t)
  PROVE  TypeOK'
<1> USE DEF TypeOK
<1>1. CASE CancelCount(t)
  <2>1. ThreadOK'
    BY <1>1, GotoType DEF CancelCount, Labels
  <2>2. SharedOK'
    BY <1>1 DEF CancelCount, SharedOK, cursors, slots, closers, caller, history
  <2> QED BY <2>1, <2>2
<1>2. CASE CancelBackOff(t)
  <2>1. ThreadOK'
    BY <1>2, ReturnType DEF CancelBackOff, Results
  <2>2. SharedOK'
    BY <1>2, CursorUpdate DEF CancelBackOff, SharedOK, barriers, slots, closers, caller, history
  <2> QED BY <2>1, <2>2
<1> QED BY <1>1, <1>2 DEF potentially_cancel

\* Waiting on a slot keeps the types.
LEMMA AwaitType ==
  ASSUME TypeOK, NEW t \in Threads, Await(t)
  PROVE  TypeOK'
<1> USE DEF TypeOK
<1>1. CASE SetWaiting(t)
  <2>1. [loc[t] EXCEPT !.curr.waiting = TRUE] \in Locals
    BY LocalsUpdate DEF ThreadOK
  <2>2. ThreadOK'
    BY <1>1, <2>1, StepType DEF SetWaiting, Labels
  <2>3. ids' \in [Slots -> Id]
    BY <1>1, IdBitType DEF SetWaiting
  <2>4. SharedOK'
    BY <1>1, <2>3 DEF SetWaiting, SharedOK, cursors, barriers, closers, caller, history
  <2> QED BY <2>2, <2>4
<1>2. CASE FutexWait(t)
  <2>1. ThreadOK'
    BY <1>2, GotoType DEF FutexWait, Labels
  <2>2. SharedOK'
    BY <1>2, SharedSame DEF FutexWait
  <2> QED BY <2>1, <2>2
<1> QED BY <1>1, <1>2 DEF Await

\* The non-blocking variants keep the types.
LEMMA TryType ==
  ASSUME TypeOK, NEW t \in Threads, TryCas(t) \/ TryRetry(t)
  PROVE  TypeOK'
<1> USE DEF TypeOK
<1>1. CASE TryCas(t)
  <2>1. ThreadOK'
    BY <1>1, GotoType, ReturnType DEF TryCas, Labels, Results
  <2>2. head' \in Cursor /\ tail' \in Cursor
    BY <1>1, CursorUpdate DEF TryCas, SharedOK, cursors
  <2>3. SharedOK'
    BY <1>1, <2>2 DEF TryCas, SharedOK, barriers, slots, closers, caller, history
  <2> QED BY <2>1, <2>3
<1>2. CASE TryRetry(t)
  <2>1. head.t \in Int /\ tail.t \in Int
    BY DEF SharedOK, Cursor
  <2>2. ThreadOK'
    BY <1>2, <2>1, NoLocalsType, LocalsUpdate, StepType
      DEF TryRetry, TryLoadTail, TryLoadHead, Labels, SharedOK
  <2>3. SharedOK'
    BY <1>2, SharedSame DEF TryRetry
  <2> QED BY <2>2, <2>3
<1> QED BY <1>1, <1>2

\* The closing lock.
LEMMA LockType ==
  ASSUME TypeOK, NEW t \in Threads, channel_close_lock(t) \/ channel_close_unlock(t)
  PROVE  TypeOK'
<1> USE DEF TypeOK
<1>0. /\ loc[t] \in Locals
      /\ closing_lock_requested \in Int /\ closing_lock_completed \in Int
  BY DEF ThreadOK, SharedOK
<1>1. CASE LockRequest(t)
  <2>1. ThreadOK'
    BY <1>0, <1>1, LocalsUpdate, StepType DEF LockRequest, Labels
  <2>2. SharedOK'
    BY <1>1 DEF LockRequest, SharedOK, cursors, barriers, slots, caller, history
  <2> QED BY <2>1, <2>2
<1>2. CASE LockLoad(t)
  <2>1. ThreadOK'
    <3>1. \A n \in Int : [loc[t] EXCEPT !.k = n] \in Locals
      BY <1>0, LocalsUpdate
    <3> QED BY <1>0, <1>2, <3>1, StepType DEF LockLoad, Labels
  <2>2. SharedOK'
    BY <1>2, SharedSame DEF LockLoad
  <2> QED BY <2>1, <2>2
<1>3. CASE LockWait(t)
  <2>1. ThreadOK'
    BY <1>3, GotoType DEF LockWait, Labels
  <2>2. SharedOK'
    BY <1>3, SharedSame DEF LockWait
  <2> QED BY <2>1, <2>2
<1>4. CASE Unlock(t)
  <2>1. ThreadOK'
    BY <1>4, GotoType, ReturnType DEF Unlock, Labels, Results
  <2>2. SharedOK'
    BY <1>4 DEF Unlock, SharedOK, cursors, barriers, slots, caller, history
  <2> QED BY <2>1, <2>2
<1>5. CASE UnlockWake(t)
  <2>1. pc' \in [Threads -> Labels]
    <3>1. "idle" \in Labels
      BY DEF Labels
    <3> QED BY <1>5, <3>1, WokenLockType DEF UnlockWake
  <2>2. ThreadOK'
    BY <1>5, <2>1, NoLocalsType DEF UnlockWake, ThreadOK, Results
  <2>3. SharedOK'
    BY <1>5, SharedSame DEF UnlockWake
  <2> QED BY <2>2, <2>3
<1> QED BY <1>1, <1>2, <1>3, <1>4, <1>5 DEF channel_close_lock, channel_close_unlock

\* Setting a bit of the closing state keeps the types.
LEMMA SetClosingType ==
  ASSUME TypeOK, NEW t \in Threads, NEW bit \in {"PUSH", "POP", "CLOSED"},
         NEW label \in Labels, SetClosing(t, bit, label)
  PROVE  TypeOK'
<1> USE DEF TypeOK
<1>1. ThreadOK'
  BY GotoType DEF SetClosing
<1>2. SharedOK'
  BY DEF SetClosing, SharedOK, cursors, barriers, slots, caller, history
<1> QED BY <1>1, <1>2

\* The part of a close that works on tail keeps the types.
LEMMA CloseTailType ==
  ASSUME TypeOK, NEW t \in Threads, CloseTail(t)
  PROVE  TypeOK'
<1> USE DEF TypeOK
<1>0. loc[t] \in Locals
  BY DEF ThreadOK
<1>1. CASE CloseRecheck(t)
  <2>1. ThreadOK'
    BY <1>0, <1>1, LocalsUpdate, StepType, GotoType DEF CloseRecheck, Labels
  <2>2. SharedOK'
    BY <1>1, SharedSame DEF CloseRecheck
  <2> QED BY <2>1, <2>2
<1>2. CASE CloseSetPush(t)
  BY <1>2, SetClosingType DEF CloseSetPush, Labels
<1>3. CASE CloseLoadTail(t) \/ TailAgain(t)
  <2>1. [loc[t] EXCEPT !.tail = tail] \in Locals
    BY <1>0, LocalsUpdate DEF SharedOK
  <2>2. ThreadOK'
    BY <1>3, <2>1, StepType DEF CloseLoadTail, TailAgain, Labels
  <2>3. SharedOK'
    BY <1>3, SharedSame DEF CloseLoadTail, TailAgain
  <2> QED BY <2>2, <2>3
<1>4. CASE CloseLoadHead(t)
  <2>1. [loc[t] EXCEPT !.head = head] \in Locals
    BY <1>0, LocalsUpdate DEF SharedOK
  <2>2. ThreadOK'
    BY <1>4, <2>1, StepType DEF CloseLoadHead, Labels
  <2>3. SharedOK'
    BY <1>4, SharedSame DEF CloseLoadHead
  <2> QED BY <2>2, <2>3
<1>5. CASE StoreTailBarrier(t)
  <2>1. ThreadOK'
    BY <1>5, GotoType DEF StoreTailBarrier, Labels
  <2>2. tail_barrier' \in Int
    BY <1>0, <1>5, LocalsFields, ChannelAssumption DEF StoreTailBarrier
  <2>3. SharedOK'
    BY <1>5, <2>2 DEF StoreTailBarrier, SharedOK, cursors, slots, closers, caller, history
  <2> QED BY <2>1, <2>3
<1>6. CASE PushClosedCas(t)
  <2>1. ThreadOK'
    BY <1>6, GotoType DEF PushClosedCas, Labels
  <2>2. head' \in Cursor /\ tail' \in Cursor
    BY <1>6, CursorUpdate DEF PushClosedCas, SharedOK, cursors
  <2>3. SharedOK'
    BY <1>6, <2>2 DEF PushClosedCas, SharedOK, barriers, slots, closers, caller, history
  <2> QED BY <2>1, <2>3
<1>7. CASE AddCancels(t)
  <2>1. loc[t].tail.t + tail_cancel_count \in Int
    BY <1>0, LocalsFields DEF SharedOK
  <2>2. [loc[t] EXCEPT !.tail.t = @ + tail_cancel_count] \in Locals
    BY <1>0, <2>1, LocalsUpdate
  <2>3. ThreadOK'
    BY <1>7, <2>2, StepType DEF AddCancels, Labels
  <2>4. SharedOK'
    BY <1>7, SharedSame DEF AddCancels
  <2> QED BY <2>3, <2>4
<1> QED BY <1>1, <1>2, <1>3, <1>4, <1>5, <1>6, <1>7 DEF CloseTail

\* Where the wake-up loop goes next is a label, with well typed locals.
LEMMA RangeType ==
  ASSUME SharedOK, NEW l \in Locals
  PROVE  RangeLabel(l) \in Labels /\ RangeLocals(l) \in Locals
<1>1. RangeLabel(l) \in Labels
  BY DEF RangeLabel, Labels
<1>2. [l EXCEPT !.side = "tail", !.k = tail_barrier] \in Locals
  BY LocalsUpdate DEF SharedOK
<1> QED BY <1>1, <1>2 DEF RangeLocals

\* The part of a close that works on head keeps the types.
LEMMA CloseHeadType ==
  ASSUME TypeOK, NEW t \in Threads, CloseHead(t)
  PROVE  TypeOK'
<1> USE DEF TypeOK
<1>0. loc[t] \in Locals
  BY DEF ThreadOK
<1>1. CASE CloseSetPop(t)
  BY <1>1, SetClosingType DEF CloseSetPop, Labels
<1>2. CASE PopLoadHead(t)
  <2>1. [loc[t] EXCEPT !.head = head] \in Locals
    BY <1>0, LocalsUpdate DEF SharedOK
  <2>2. ThreadOK'
    BY <1>2, <2>1, StepType DEF PopLoadHead, Labels
  <2>3. SharedOK'
    BY <1>2, SharedSame DEF PopLoadHead
  <2> QED BY <2>2, <2>3
<1>3. CASE StoreHeadBarrier(t)
  <2>1. ThreadOK'
    BY <1>3, GotoType DEF StoreHeadBarrier, Labels
  <2>2. head_barrier' \in Int
    BY <1>0, <1>3, LocalsFields DEF StoreHeadBarrier, SharedOK
  <2>3. SharedOK'
    BY <1>3, <2>2 DEF StoreHeadBarrier, SharedOK, cursors, slots, closers, caller, history
  <2> QED BY <2>1, <2>3
<1>4. CASE PopClosedCas(t)
  <2>1. [loc[t] EXCEPT !.head = head, !.k = head_barrier] \in Locals
    BY <1>0, LocalsUpdate DEF SharedOK
  <2>2. ThreadOK'
    BY <1>4, <2>1, RangeType, StepType, GotoType DEF PopClosedCas, NextInRange, Labels
  <2>3. head' \in Cursor
    BY <1>4, CursorUpdate DEF PopClosedCas, SharedOK
  <2>4. SharedOK'
    BY <1>4, <2>3 DEF PopClosedCas, SharedOK, barriers, slots, closers, caller, history
  <2> QED BY <2>2, <2>4
<1> QED BY <1>1, <1>2, <1>3, <1>4 DEF CloseHead

\* The wakeup of a range of tickets keeps the types.
LEMMA NotifyType ==
  ASSUME TypeOK, NEW t \in Threads, channel_close_wakeup_ticket_range(t)
  PROVE  TypeOK'
<1> USE DEF TypeOK
<1>0. loc[t] \in Locals
  BY DEF ThreadOK
<1>n. NextTicket(t) \in Locals
  <2>1. loc[t].k + 1 \in Int
    BY <1>0, LocalsFields
  <2> QED BY <1>0, <2>1, LocalsUpdate DEF NextTicket
<1>1. CASE NotifySlot(t) \/ NotifyClear(t)
  <2>1. ThreadOK'
    BY <1>1, GotoType DEF NotifySlot, NotifyClear, Labels
  <2>2. ids' \in [Slots -> Id]
    <3>1. CASE NotifySlot(t)
      BY <3>1, IdBitType DEF NotifySlot
    <3>2. CASE NotifyClear(t)
      BY <3>2, IdBitType DEF NotifyClear
    <3> QED BY <1>1, <3>1, <3>2
  <2>3. SharedOK'
    BY <1>1, <2>2
      DEF NotifySlot, NotifyClear, SharedOK, cursors, barriers, closers, caller, history
  <2> QED BY <2>1, <2>3
<1>2. CASE NotifyLoad(t)
  <2>1. ThreadOK'
    BY <1>n, <1>2, RangeType, StepType, GotoType DEF NotifyLoad, NextInRange, Labels
  <2>2. SharedOK'
    BY <1>2, SharedSame DEF NotifyLoad
  <2> QED BY <2>1, <2>2
<1>3. CASE NotifyWake(t)
  <2>1. pc' \in [Threads -> Labels]
    BY <1>n, <1>3, RangeType, WokenSlotType DEF NotifyWake
  <2>2. ThreadOK'
    BY <1>n, <1>3, <2>1, RangeType DEF NotifyWake, ThreadOK
  <2>3. SharedOK'
    BY <1>3 DEF NotifyWake, SharedOK, cursors, barriers, slots, closers, caller, history
  <2> QED BY <2>2, <2>3
<1> QED BY <1>1, <1>2, <1>3 DEF channel_close_wakeup_ticket_range

\* Reopening keeps the types.
LEMMA ReopenType ==
  ASSUME TypeOK, NEW t \in Threads, InReopen(t)
  PROVE  TypeOK'
<1> USE DEF TypeOK
<1>0. loc[t] \in Locals
  BY DEF ThreadOK
<1>1. CASE ReopenRecheck(t)
  <2>1. ThreadOK'
    BY <1>1, GotoType DEF ReopenRecheck, Labels
  <2>2. SharedOK'
    BY <1>1, SharedSame DEF ReopenRecheck
  <2> QED BY <2>1, <2>2
<1>2. CASE ReopenStore(t)
  <2>1. ThreadOK'
    BY <1>2, GotoType DEF ReopenStore, Labels
  <2>2. SharedOK'
    BY <1>2 DEF ReopenStore, SharedOK, cursors, barriers, slots, caller, history
  <2> QED BY <2>1, <2>2
<1>3. CASE ReopenClearIds(t)
  <2>1. NextTicket(t) \in Locals
    <3>1. loc[t].k + 1 \in Int
      BY <1>0, LocalsFields
    <3> QED BY <1>0, <3>1, LocalsUpdate DEF NextTicket
  <2>2. ThreadOK'
    BY <1>3, <2>1, StepType DEF ReopenClearIds, Labels
  <2>3. ids' \in [Slots -> Id]
    BY <1>3, IdBitType DEF ReopenClearIds
  <2>4. SharedOK'
    BY <1>3, <2>3 DEF ReopenClearIds, SharedOK, cursors, barriers, closers, caller, history
  <2> QED BY <2>2, <2>4
<1>4. CASE ReopenClearCursors(t)
  <2>1. ThreadOK'
    BY <1>4, GotoType DEF ReopenClearCursors, Labels
  <2>2. head' \in Cursor /\ tail' \in Cursor
    BY <1>4, CursorUpdate DEF ReopenClearCursors, SharedOK
  <2>3. SharedOK'
    BY <1>4, <2>2 DEF ReopenClearCursors, SharedOK, barriers, slots, closers, caller, history
  <2> QED BY <2>1, <2>3
<1>5. CASE ReopenZero(t)
  <2>1. [loc[t] EXCEPT !.out = TRUE] \in Locals
    BY <1>0, LocalsUpdate
  <2>2. ThreadOK'
    BY <1>5, <2>1, StepType, GotoType DEF ReopenZero, Labels
  <2>3. SharedOK'
    BY <1>5 DEF ReopenZero, SharedOK, cursors, slots, closers, caller, history
  <2> QED BY <2>2, <2>3
<1> QED BY <1>1, <1>2, <1>3, <1>4, <1>5 DEF InReopen

\* Every step of a thread inside a call keeps the types.
LEMMA InsideType ==
  ASSUME TypeOK, NEW t \in Threads, Inside(t)
  PROVE  TypeOK'
<1>1. CASE InPush(t) \/ InPop(t) \/ InTryPush(t) \/ InTryPop(t)
  BY <1>1, AttemptType, CancelType, AwaitType, FinishType, TryType
    DEF InPush, InPop, InTryPush, InTryPop
<1>2. CASE InClose(t)
  <2>1. CASE CloseSetClosed(t)
    BY <2>1, SetClosingType DEF CloseSetClosed, Labels
  <2> QED BY <1>2, <2>1, LockType, CloseTailType, CloseHeadType, NotifyType DEF InClose
<1>3. CASE InReopen(t)
  BY <1>3, ReopenType
<1>4. CASE CountEnd(t)
  <2>1. ThreadOK'
    BY <1>4, ReturnType DEF CountEnd, Results, TypeOK
  <2>2. SharedOK'
    BY <1>4, SharedSame DEF CountEnd, TypeOK
  <2> QED BY <2>1, <2>2 DEF TypeOK
<1> QED BY <1>1, <1>2, <1>3, <1>4 DEF Inside

\* Every step keeps the types.
LEMMA NextType == TypeOK /\ [Next]_vars => TypeOK'
<1> SUFFICES ASSUME TypeOK, [Next]_vars PROVE TypeOK'
  OBVIOUS
<1>1. CASE \E t \in Threads : Begin(t) \/ Inside(t)
  BY <1>1, BeginType, InsideType
<1>2. CASE UNCHANGED vars
  BY <1>2 DEF vars, cursors, barriers, slots, closers, thread, caller, history,
    TypeOK, ThreadOK, SharedOK
<1> QED BY <1>1, <1>2 DEF Next, Rest

\* Every variable of the channel and every local of the threads inside keeps
\* its type, however many threads call however often; in particular the cancel
\* counters and the two counters of the closing lock never fall below zero.
THEOREM ChannelTypes == Spec => []TypeOK
<1>1. Init => TypeOK
  BY NoLocalsType, ChannelAssumption
    DEF Init, TypeOK, ThreadOK, SharedOK, Labels, Results, Item
<1> QED BY <1>1, NextType, PTL DEF Spec

----------------------------------------------------------------------------
(* The closing lock is a ticket lock: a thread that waits for it or holds   *)
(* it has a ticket of its own between the completed and the requested       *)
(* counter, and the holder has the one that comes next.                     *)

WaitLabels == {"lock_load", "lock_wait", "lock_asleep"}

InLock(t) == pc[t] \in WaitLabels \cup HoldLabels

LockInv ==
  /\ closing_lock_completed <= closing_lock_requested
  /\ \A t \in Threads : InLock(t) =>
       /\ closing_lock_completed <= loc[t].ticket
       /\ loc[t].ticket < closing_lock_requested
  /\ \A t \in Threads : Holding(t) => loc[t].ticket = closing_lock_completed
  /\ \A t, u \in Threads :
       InLock(t) /\ InLock(u) /\ loc[t].ticket = loc[u].ticket => t = u

\* Steps that take nobody into the lock keep the invariant.
LEMMA LockFrame ==
  ASSUME LockInv,
         UNCHANGED <<closing_lock_requested, closing_lock_completed>>,
         \A u \in Threads : InLock(u)' => InLock(u) /\ loc'[u].ticket = loc[u].ticket,
         \A u \in Threads : Holding(u)' => Holding(u)
  PROVE  LockInv'
<1>1. (closing_lock_completed <= closing_lock_requested)'
  BY DEF LockInv
<1>2. (\A t \in Threads : InLock(t) =>
        /\ closing_lock_completed <= loc[t].ticket
        /\ loc[t].ticket < closing_lock_requested)'
  <2> SUFFICES ASSUME NEW t \in Threads, InLock(t)'
               PROVE  /\ closing_lock_completed' <= loc'[t].ticket
                      /\ loc'[t].ticket < closing_lock_requested'
    OBVIOUS
  <2> QED BY DEF LockInv
<1>3. (\A t \in Threads : Holding(t) => loc[t].ticket = closing_lock_completed)'
  <2> SUFFICES ASSUME NEW t \in Threads, Holding(t)'
               PROVE  loc'[t].ticket = closing_lock_completed'
    OBVIOUS
  <2>1. InLock(t)'
    BY DEF Holding, InLock
  <2> QED BY <2>1 DEF LockInv
<1>4. (\A t, u \in Threads :
        InLock(t) /\ InLock(u) /\ loc[t].ticket = loc[u].ticket => t = u)'
  BY DEF LockInv
<1> QED BY <1>1, <1>2, <1>3, <1>4 DEF LockInv

\* A step of one thread that does not newly wait for or hold the closing lock, and
\* keeps its ticket while it does, keeps LockInv.
LEMMA LockStep ==
  ASSUME TypeOK, LockInv, NEW t \in Threads, NEW label, NEW l, Step(t, label, l),
         UNCHANGED <<closing_lock_requested, closing_lock_completed>>,
         label \in HoldLabels => Holding(t),
         label \in WaitLabels => InLock(t),
         label \in WaitLabels \cup HoldLabels => l.ticket = loc[t].ticket
  PROVE  LockInv'
<1>1. \A u \in Threads : InLock(u)' => InLock(u) /\ loc'[u].ticket = loc[u].ticket
  BY DEF Step, InLock, Holding, TypeOK, ThreadOK
<1>2. \A u \in Threads : Holding(u)' => Holding(u)
  BY DEF Step, Holding, TypeOK, ThreadOK
<1> QED BY <1>1, <1>2, LockFrame

\* The labels of the functions that do not close.
LEMMA LockLeave ==
  ASSUME TypeOK, LockInv, NEW t \in Threads, NEW label, NEW l, Step(t, label, l),
         UNCHANGED <<closing_lock_requested, closing_lock_completed>>,
         label \notin WaitLabels \cup HoldLabels
  PROVE  LockInv'
BY LockStep

\* Returning from a call with the lock counters unchanged keeps LockInv.
LEMMA LockReturn ==
  ASSUME TypeOK, LockInv, NEW t \in Threads, NEW r, Return(t, r),
         UNCHANGED <<closing_lock_requested, closing_lock_completed>>
  PROVE  LockInv'
<1>1. \A u \in Threads : InLock(u)' => InLock(u) /\ loc'[u].ticket = loc[u].ticket
  BY DEF Return, InLock, TypeOK, ThreadOK, WaitLabels, HoldLabels
<1>2. \A u \in Threads : Holding(u)' => Holding(u)
  BY DEF Return, Holding, TypeOK, ThreadOK, HoldLabels
<1> QED BY <1>1, <1>2, LockFrame

\* Beginning a call keeps LockInv: nobody enters the closing lock.
LEMMA BeginLock ==
  ASSUME TypeOK, LockInv, NEW t \in Threads, Begin(t)
  PROVE  LockInv'
<1>1. UNCHANGED <<closing_lock_requested, closing_lock_completed>>
  BY DEF Begin, PushBegin, PopBegin, TryPushBegin, TryPopBegin, CloseBegin, ReopenBegin,
    channel_close_hard, CountBegin, closers
<1>2. \A label \in {"load_id", "lock_request", "count_tail"} :
        label \notin WaitLabels \cup HoldLabels
  BY DEF WaitLabels, HoldLabels
<1>3. CASE PushBegin(t) \/ PopBegin(t)
  BY <1>1, <1>2, <1>3, LockLeave DEF PushBegin, PopBegin
<1>4. CASE TryPushBegin(t) \/ TryPopBegin(t)
  BY <1>1, <1>2, <1>4, LockLeave DEF TryPushBegin, TryPopBegin, TryLoadTail, TryLoadHead
<1>5. CASE CloseBegin(t) \/ ReopenBegin(t)
  BY <1>1, <1>2, <1>5, LockLeave, LockReturn DEF CloseBegin, ReopenBegin
<1>6. CASE channel_close_hard(t) \/ CountBegin(t)
  BY <1>1, <1>2, <1>6, LockLeave, LockReturn DEF channel_close_hard, CountBegin
<1> QED BY <1>3, <1>4, <1>5, <1>6 DEF Begin

\* Pushes, pops and their variants keep LockInv: they stay outside the lock.
LEMMA PassLock ==
  ASSUME TypeOK, LockInv, NEW t \in Threads,
         InPush(t) \/ InPop(t) \/ InTryPush(t) \/ InTryPop(t)
  PROVE  LockInv'
<1>1. UNCHANGED <<closing_lock_requested, closing_lock_completed>>
  BY DEF InPush, InPop, InTryPush, InTryPop, Attempt, potentially_cancel, Await, Finish,
    LoadId, LoadClosing, LoadTailBit, LoadHeadBit, LoadBarrier, CancelCount, CancelBackOff,
    SetWaiting, FutexWait, TryCas, TryRetry, CopyItem, AdvanceId, AdvanceWake, closers
<1>2. \A label \in {"load_id", "load_closing", "load_tail", "load_head", "load_barrier",
                    "cas", "data", "set_waiting", "cancel", "back_off", "wait", "asleep",
                    "retry", "advance", "wake"} : label \notin WaitLabels \cup HoldLabels
  BY DEF WaitLabels, HoldLabels
<1>g. \A label : Goto(t, label) /\ label \notin WaitLabels \cup HoldLabels => LockInv'
  BY <1>1, LockLeave DEF Goto
<1>p. Proceed(t) \/ Cancel(t) => LockInv'
  BY <1>1, <1>2, <1>g, LockReturn DEF Proceed, Cancel
<1>3. CASE Attempt(t)
  <2>1. CASE LoadId(t)
    BY <1>1, <1>2, <2>1, LockLeave DEF LoadId
  <2>2. CASE LoadClosing(t) \/ LoadTailBit(t) \/ LoadHeadBit(t) \/ LoadBarrier(t)
    BY <1>2, <1>g, <1>p, <2>2 DEF LoadClosing, LoadTailBit, LoadHeadBit, LoadBarrier
  <2> QED BY <1>3, <2>1, <2>2 DEF Attempt
<1>4. CASE potentially_cancel(t)
  BY <1>1, <1>2, <1>4, <1>g, LockReturn DEF potentially_cancel, CancelCount, CancelBackOff
<1>5. CASE Await(t)
  BY <1>1, <1>2, <1>5, <1>g, LockLeave DEF Await, SetWaiting, FutexWait
<1>6. CASE TryCas(t) \/ TryRetry(t)
  <2>1. CASE TryCas(t)
    BY <1>1, <1>2, <1>g, <2>1, LockReturn DEF TryCas
  <2>2. CASE TryRetry(t)
    BY <1>1, <1>2, <2>2, LockLeave DEF TryRetry, TryLoadTail, TryLoadHead
  <2> QED BY <1>6, <2>1, <2>2
<1>7. CASE CopyItem(t) \/ AdvanceId(t)
  BY <1>1, <1>2, <1>7, <1>g, LockReturn DEF CopyItem, AdvanceId
<1>8. CASE AdvanceWake(t)
  <2>1. \A u \in Threads : InLock(u)' => InLock(u) /\ loc'[u].ticket = loc[u].ticket
    BY <1>8 DEF AdvanceWake, WokenSlot, InLock, TypeOK, ThreadOK, WaitLabels, HoldLabels
  <2>2. \A u \in Threads : Holding(u)' => Holding(u)
    BY <1>8 DEF AdvanceWake, WokenSlot, Holding, TypeOK, ThreadOK, HoldLabels
  <2> QED BY <1>1, <2>1, <2>2, LockFrame
<1> QED BY <1>3, <1>4, <1>5, <1>6, <1>7, <1>8
  DEF InPush, InPop, InTryPush, InTryPop, Finish

\* Releasing the closing lock keeps LockInv: the next ticket is another's.
LEMMA ReleaseLock ==
  ASSUME TypeOK, LockInv, NEW t \in Threads, Unlock(t)
  PROVE  LockInv'
<1>1. Holding(t) /\ InLock(t)
  BY DEF Unlock, Holding, InLock, HoldLabels
<1>2. closing_lock_requested' = closing_lock_requested
  BY DEF Unlock
<1>3. closing_lock_completed' = closing_lock_completed + 1
  BY DEF Unlock
<1>4. ~InLock(t)'
  BY DEF Unlock, Goto, Step, Return, InLock, WaitLabels, HoldLabels, TypeOK, ThreadOK
<1>5. \A u \in Threads \ {t} : pc'[u] = pc[u] /\ loc'[u] = loc[u]
  BY DEF Unlock, Goto, Step, Return, TypeOK, ThreadOK
<1>6. \A u \in Threads : loc[u].ticket \in Int
  BY LocalsFields DEF TypeOK, ThreadOK
<1>7. closing_lock_completed \in Int /\ closing_lock_requested \in Int
  BY DEF TypeOK, SharedOK
<1>8. loc[t].ticket = closing_lock_completed /\ closing_lock_completed < closing_lock_requested
  BY <1>1 DEF LockInv
\* Whoever else is in the lock has a later ticket.
<1>9. \A u \in Threads : InLock(u)' =>
        /\ u # t /\ InLock(u) /\ ~Holding(u) /\ loc'[u] = loc[u]
        /\ closing_lock_completed < loc[u].ticket
  <2> SUFFICES ASSUME NEW u \in Threads, InLock(u)'
               PROVE  /\ u # t /\ InLock(u) /\ ~Holding(u) /\ loc'[u] = loc[u]
                      /\ closing_lock_completed < loc[u].ticket
    OBVIOUS
  <2>1. u # t
    BY <1>4
  <2>2. InLock(u) /\ loc'[u] = loc[u]
    BY <1>5, <2>1 DEF InLock
  <2>3. loc[u].ticket # loc[t].ticket
    BY <1>1, <2>1, <2>2 DEF LockInv
  <2>4. ~Holding(u)
    BY <1>8, <2>3 DEF LockInv
  <2>5. closing_lock_completed <= loc[u].ticket
    BY <2>2 DEF LockInv
  <2> QED BY <1>6, <1>7, <1>8, <2>1, <2>2, <2>3, <2>4, <2>5
<1>10. \A u \in Threads : ~Holding(u)'
  <2> SUFFICES ASSUME NEW u \in Threads, Holding(u)' PROVE FALSE
    OBVIOUS
  <2>1. InLock(u)'
    BY DEF Holding, InLock
  <2> QED BY <1>5, <1>9, <2>1 DEF Holding
<1>11. (closing_lock_completed <= closing_lock_requested)'
  BY <1>2, <1>3, <1>7, <1>8
<1>12. (\A u \in Threads : InLock(u) =>
        /\ closing_lock_completed <= loc[u].ticket
        /\ loc[u].ticket < closing_lock_requested)'
  BY <1>2, <1>3, <1>6, <1>7, <1>9 DEF LockInv
<1>13. (\A u, v \in Threads :
        InLock(u) /\ InLock(v) /\ loc[u].ticket = loc[v].ticket => u = v)'
  BY <1>9 DEF LockInv
<1> QED BY <1>10, <1>11, <1>12, <1>13 DEF LockInv

\* Taking a ticket of the closing lock keeps LockInv: the ticket is new.
LEMMA RequestLock ==
  ASSUME TypeOK, LockInv, NEW t \in Threads, LockRequest(t)
  PROVE  LockInv'
<1>1. ~InLock(t)
  BY DEF LockRequest, InLock, WaitLabels, HoldLabels
<1>2. /\ closing_lock_requested' = closing_lock_requested + 1
      /\ closing_lock_completed' = closing_lock_completed
  BY DEF LockRequest
<1>3. \A u \in Threads \ {t} : pc'[u] = pc[u] /\ loc'[u] = loc[u]
  BY DEF LockRequest, Step, TypeOK, ThreadOK
<1>4. pc'[t] = "lock_load" /\ loc'[t].ticket = closing_lock_requested
  BY DEF LockRequest, Step, TypeOK, ThreadOK, Locals
<1>5. \A u \in Threads : loc[u].ticket \in Int
  BY LocalsFields DEF TypeOK, ThreadOK
<1>6. closing_lock_completed \in Int /\ closing_lock_requested \in Int
  BY DEF TypeOK, SharedOK
<1>7. \A u \in Threads : InLock(u)' /\ u # t => InLock(u)
  BY <1>3 DEF InLock
<1>8. \A u \in Threads : Holding(u)' => Holding(u) /\ u # t
  BY <1>3, <1>4 DEF Holding, HoldLabels
<1>9. (closing_lock_completed <= closing_lock_requested)'
  BY <1>2, <1>6 DEF LockInv
<1>10. (\A u \in Threads : InLock(u) =>
        /\ closing_lock_completed <= loc[u].ticket
        /\ loc[u].ticket < closing_lock_requested)'
  BY <1>2, <1>3, <1>4, <1>5, <1>6, <1>7 DEF LockInv
<1>11. (\A u \in Threads : Holding(u) => loc[u].ticket = closing_lock_completed)'
  BY <1>2, <1>3, <1>8 DEF LockInv
<1>12. \A u \in Threads : InLock(u)' /\ u # t => loc'[u].ticket < closing_lock_requested
  BY <1>3, <1>7 DEF LockInv
<1>13. (\A u, v \in Threads :
        InLock(u) /\ InLock(v) /\ loc[u].ticket = loc[v].ticket => u = v)'
  BY <1>3, <1>4, <1>5, <1>6, <1>7, <1>12 DEF LockInv
<1> QED BY <1>9, <1>10, <1>11, <1>13 DEF LockInv

\* The steps of the holder of the closing lock keep LockInv.
LEMMA HolderLock ==
  ASSUME TypeOK, LockInv, NEW t \in Threads,
         \/ CloseTail(t) \/ CloseHead(t) \/ channel_close_wakeup_ticket_range(t)
         \/ CloseSetClosed(t) \/ InReopen(t)
  PROVE  LockInv'
<1>1. UNCHANGED <<closing_lock_requested, closing_lock_completed>>
  BY DEF CloseTail, CloseHead, channel_close_wakeup_ticket_range, CloseSetClosed, InReopen,
    CloseRecheck, CloseSetPush, CloseLoadTail, CloseLoadHead, StoreTailBarrier,
    PushClosedCas, TailAgain, AddCancels, CloseSetPop, PopLoadHead, StoreHeadBarrier,
    PopClosedCas, NotifySlot, NotifyLoad, NotifyClear, NotifyWake, ReopenRecheck,
    ReopenStore, ReopenClearIds, ReopenClearCursors, ReopenZero, SetClosing, closers
<1>2. Holding(t)
  BY DEF CloseTail, CloseHead, channel_close_wakeup_ticket_range, CloseSetClosed, InReopen,
    CloseRecheck, CloseSetPush, CloseLoadTail, CloseLoadHead, StoreTailBarrier,
    PushClosedCas, TailAgain, AddCancels, CloseSetPop, PopLoadHead, StoreHeadBarrier,
    PopClosedCas, NotifySlot, NotifyLoad, NotifyClear, NotifyWake, ReopenRecheck,
    ReopenStore, ReopenClearIds, ReopenClearCursors, ReopenZero, Holding, HoldLabels
<1>3. InLock(t) /\ loc[t] \in Locals
  BY <1>2 DEF InLock, Holding, TypeOK, ThreadOK
<1>s. \A label, l : Step(t, label, l) /\ l.ticket = loc[t].ticket => LockInv'
  BY <1>1, <1>2, <1>3, LockStep
<1>g. \A label : Goto(t, label) => LockInv'
  BY <1>s DEF Goto
<1>4. CASE CloseTail(t)
  <2>1. \A c : [loc[t] EXCEPT !.tail = c].ticket = loc[t].ticket
    BY <1>3 DEF Locals
  <2>2. \A c : [loc[t] EXCEPT !.head = c].ticket = loc[t].ticket
    BY <1>3 DEF Locals
  <2>3. [loc[t] EXCEPT !.out = TRUE].ticket = loc[t].ticket
    BY <1>3 DEF Locals
  <2>4. [loc[t] EXCEPT !.tail.t = @ + tail_cancel_count].ticket = loc[t].ticket
    BY <1>3 DEF Locals
  <2>5. CASE CloseRecheck(t)
    BY <1>s, <1>g, <2>3, <2>5 DEF CloseRecheck
  <2>6. CASE CloseSetPush(t) \/ StoreTailBarrier(t) \/ PushClosedCas(t)
    BY <1>g, <2>6 DEF CloseSetPush, SetClosing, StoreTailBarrier, PushClosedCas
  <2>7. CASE CloseLoadTail(t) \/ CloseLoadHead(t) \/ TailAgain(t)
    BY <1>s, <2>1, <2>2, <2>7 DEF CloseLoadTail, CloseLoadHead, TailAgain
  <2>8. CASE AddCancels(t)
    BY <1>s, <2>4, <2>8 DEF AddCancels
  <2> QED BY <1>4, <2>5, <2>6, <2>7, <2>8 DEF CloseTail
<1>r. \A l \in Locals : RangeLocals(l).ticket = l.ticket
  BY DEF RangeLocals, Locals
<1>n. NextTicket(t) \in Locals /\ NextTicket(t).ticket = loc[t].ticket
  BY <1>3 DEF NextTicket, Locals
<1>m. \A l \in Locals : NextInRange(t, l) /\ l.ticket = loc[t].ticket => LockInv'
  BY <1>s, <1>r DEF NextInRange
<1>5. CASE CloseHead(t)
  <2>1. CASE CloseSetPop(t) \/ StoreHeadBarrier(t)
    BY <1>g, <2>1 DEF CloseSetPop, SetClosing, StoreHeadBarrier
  <2>2. CASE PopLoadHead(t)
    <3>1. [loc[t] EXCEPT !.head = head].ticket = loc[t].ticket
      BY <1>3 DEF Locals
    <3> QED BY <1>s, <2>2, <3>1 DEF PopLoadHead
  <2>3. CASE PopClosedCas(t)
    <3>1. /\ [loc[t] EXCEPT !.head = head, !.k = head_barrier] \in Locals
          /\ [loc[t] EXCEPT !.head = head, !.k = head_barrier].ticket = loc[t].ticket
      BY <1>3 DEF Locals, TypeOK, SharedOK
    <3> QED BY <1>g, <1>m, <2>3, <3>1 DEF PopClosedCas
  <2> QED BY <1>5, <2>1, <2>2, <2>3 DEF CloseHead
<1>6. CASE channel_close_wakeup_ticket_range(t)
  <2>1. CASE NotifySlot(t) \/ NotifyClear(t)
    BY <1>g, <2>1 DEF NotifySlot, NotifyClear
  <2>2. CASE NotifyLoad(t)
    BY <1>g, <1>m, <1>n, <2>2 DEF NotifyLoad
  <2>3. CASE NotifyWake(t)
    <3>1. loc'[t].ticket = loc[t].ticket /\ \A u \in Threads \ {t} : loc'[u] = loc[u]
      BY <1>r, <1>n, <2>3 DEF NotifyWake, TypeOK, ThreadOK
    <3>2. \A u \in Threads \ {t} : pc'[u] = pc[u] \/ pc'[u] = "load_id"
      BY <2>3 DEF NotifyWake, WokenSlot
    <3>3. \A u \in Threads : InLock(u)' => InLock(u) /\ loc'[u].ticket = loc[u].ticket
      BY <1>3, <3>1, <3>2 DEF InLock, WaitLabels, HoldLabels
    <3>4. \A u \in Threads : Holding(u)' => Holding(u)
      BY <1>2, <3>2 DEF Holding, HoldLabels
    <3> QED BY <1>1, <3>3, <3>4, LockFrame
  <2> QED BY <1>6, <2>1, <2>2, <2>3 DEF channel_close_wakeup_ticket_range
<1>7. CASE CloseSetClosed(t)
  BY <1>g, <1>7 DEF CloseSetClosed, SetClosing
<1>8. CASE InReopen(t)
  <2>1. CASE ReopenRecheck(t) \/ ReopenStore(t) \/ ReopenClearCursors(t)
    BY <1>g, <2>1 DEF ReopenRecheck, ReopenStore, ReopenClearCursors
  <2>2. CASE ReopenClearIds(t)
    BY <1>s, <1>n, <2>2 DEF ReopenClearIds
  <2>3. CASE ReopenZero(t)
    <3>1. [loc[t] EXCEPT !.out = TRUE].ticket = loc[t].ticket
      BY <1>3 DEF Locals
    <3> QED BY <1>s, <1>g, <2>3, <3>1 DEF ReopenZero
  <2> QED BY <1>8, <2>1, <2>2, <2>3 DEF InReopen
<1> QED BY <1>4, <1>5, <1>6, <1>7, <1>8

\* Waiting for the closing lock keeps LockInv: who stops waiting has the turn.
LEMMA WaitLock ==
  ASSUME TypeOK, LockInv, NEW t \in Threads,
         LockLoad(t) \/ LockWait(t) \/ UnlockWake(t)
  PROVE  LockInv'
<1>1. UNCHANGED <<closing_lock_requested, closing_lock_completed>>
  BY DEF LockLoad, LockWait, UnlockWake, closers
<1>2. loc[t] \in Locals
  BY DEF TypeOK, ThreadOK
<1>3. \A n : [loc[t] EXCEPT !.k = n].ticket = loc[t].ticket
  BY <1>2 DEF Locals
<1>4. CASE LockLoad(t) /\ closing_lock_completed = loc[t].ticket
  <2>1. pc[t] \in WaitLabels /\ InLock(t)
    BY <1>4 DEF LockLoad, InLock, WaitLabels
  <2>2. loc'[t].ticket = closing_lock_completed
    <3>1. loc'[t] = [loc[t] EXCEPT !.k = 0]
      BY <1>4 DEF LockLoad, Step, TypeOK, ThreadOK
    <3> QED BY <1>3, <1>4, <3>1
  <2>3. \A u \in Threads \ {t} : pc'[u] = pc[u] /\ loc'[u] = loc[u]
    BY <1>4 DEF LockLoad, Step, TypeOK, ThreadOK
  <2>4. \A u \in Threads : InLock(u)' => InLock(u) /\ loc'[u].ticket = loc[u].ticket
    BY <1>4, <2>1, <2>2, <2>3 DEF InLock
  <2>5. (\A u \in Threads : Holding(u) => loc[u].ticket = closing_lock_completed)'
    BY <1>1, <2>2, <2>3 DEF LockInv, Holding
  <2>6. (closing_lock_completed <= closing_lock_requested)'
    BY <1>1 DEF LockInv
  <2>7. (\A u \in Threads : InLock(u) =>
          /\ closing_lock_completed <= loc[u].ticket
          /\ loc[u].ticket < closing_lock_requested)'
    BY <1>1, <2>4 DEF LockInv
  <2>8. (\A u, v \in Threads :
          InLock(u) /\ InLock(v) /\ loc[u].ticket = loc[v].ticket => u = v)'
    BY <2>4 DEF LockInv
  <2> QED BY <2>5, <2>6, <2>7, <2>8 DEF LockInv
<1>5. CASE LockLoad(t) /\ closing_lock_completed # loc[t].ticket
  <2>1. InLock(t)
    BY <1>5 DEF LockLoad, InLock, WaitLabels
  <2>2. "lock_load" \notin HoldLabels /\ "lock_wait" \notin HoldLabels
    BY DEF HoldLabels
  <2> QED BY <1>1, <1>3, <1>5, <2>1, <2>2, LockStep DEF LockLoad
<1>6. CASE LockWait(t)
  <2>1. InLock(t)
    BY <1>6 DEF LockWait, InLock, WaitLabels
  <2>2. "lock_load" \notin HoldLabels /\ "lock_asleep" \notin HoldLabels
    BY DEF HoldLabels
  <2> QED BY <1>1, <1>6, <2>1, <2>2, LockStep DEF LockWait, Goto
<1>7. CASE UnlockWake(t)
  <2>1. \A u \in Threads : InLock(u)' => InLock(u) /\ loc'[u].ticket = loc[u].ticket
    BY <1>7 DEF UnlockWake, WokenLock, InLock, TypeOK, ThreadOK, WaitLabels, HoldLabels
  <2>2. \A u \in Threads : Holding(u)' => Holding(u)
    BY <1>7 DEF UnlockWake, WokenLock, Holding, TypeOK, ThreadOK, HoldLabels
  <2> QED BY <1>1, <2>1, <2>2, LockFrame
<1> QED BY <1>4, <1>5, <1>6, <1>7

\* Every step keeps LockInv.
LEMMA NextLock == TypeOK /\ LockInv /\ [Next]_vars => LockInv'
<1> SUFFICES ASSUME TypeOK, LockInv, [Next]_vars PROVE LockInv'
  OBVIOUS
<1>1. ASSUME NEW t \in Threads, Inside(t) PROVE LockInv'
  <2>1. CASE CountEnd(t)
    BY <2>1, LockReturn DEF CountEnd, closers
  <2> QED BY <1>1, <2>1, PassLock, ReleaseLock, RequestLock, HolderLock, WaitLock
    DEF Inside, InClose, channel_close_lock, channel_close_unlock
<1>2. CASE UNCHANGED vars
  BY <1>2, LockFrame DEF vars, closers, thread, InLock, Holding
<1> QED BY <1>1, <1>2, BeginLock DEF Next, Rest

\* At most one thread is inside the critical section that the closing lock of
\* channel.h protects, whatever the number of threads that close and reopen.
THEOREM ClosingLockExclusion == Spec => []LockExclusion
<1>1. Init => LockInv
  BY DEF Init, LockInv, InLock, Holding, WaitLabels, HoldLabels
<1>2. LockInv => LockExclusion
  BY DEF LockInv, LockExclusion, Holding, InLock
<1> QED BY <1>1, <1>2, NextLock, ChannelTypes, PTL DEF Spec

====
