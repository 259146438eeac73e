----------------------------- MODULE SpmcQueue -----------------------------
(***************************************************************************)
(* The growing single-producer multiple-consumer queue of                  *)
(* src/spmc_queue.h.                                                       *)
(*                                                                         *)
(* One step is one access to a field another thread may touch: head, tail, *)
(* estimate_tail, pop.block, or one item of a block.  Fields only the      *)
(* producer touches (push.block, estimate_head) and a block that is not    *)
(* yet published are local to the producer.  The steps interleave, which   *)
(* is the x86 reading of the memory orders the code's comment asks for.    *)
(*                                                                         *)
(* The i-th item ever pushed is the number i, which is also the ticket it  *)
(* is stored under; NoItem is the zeroed memory of a new block.            *)
(***************************************************************************)
EXTENDS Integers, Sequences, FiniteSets, FiniteSetsExt

CONSTANTS
  Producer, Consumers, Observers,   \* the threads
  PushCounts, PopCounts, ReserveTo, \* arguments: count, count, to_size
  PopOps,                           \* the pop functions the consumers call
  MinCapacity,                      \* capacity of the first block, 64 in the code
  MaxCapacity,                      \* push.max_capacity
  MayFail,                          \* calloc may return NULL
  MaxCalls,                         \* bound: MaxCalls[t] calls by thread t
  MaxInits                          \* bound: calls of spmc_queue_init

Threads == {Producer} \cup Consumers \cup Observers
Queries == {"count_upper", "count_lower", "state"}

ASSUME SpmcAssumption ==
  /\ Producer \notin Consumers \cup Observers
  /\ Consumers \cap Observers = {}
  /\ MinCapacity \in Nat \ {0} /\ MaxCapacity \in Int /\ MayFail \in BOOLEAN
  /\ PushCounts \subseteq Nat \ {0} /\ PopCounts \subseteq Nat \ {0}
  /\ ReserveTo \subseteq Nat
  /\ PopOps \subseteq {"pop", "pop_weak", "pop_st"}
  /\ MaxCalls \in [Threads -> Nat] /\ MaxInits \in Nat

VARIABLES
  pop,      \* the consumers' fields: block, head, estimate_tail
  push,     \* the producer's fields: block, estimate_head, tail
  blocks,   \* the blocks allocated so far, oldest first; 0 is NULL
  pc, loc,  \* per thread: control and local variables
  res,      \* per thread: what its last call returned
  calls, inits,  \* bounds
  got       \* history: the items the pops handed out, in the order of head

vars == <<pop, push, blocks, pc, loc, res, calls, inits, got>>

NoItem == -1

Null == 0

NoLocals ==
  [op |-> "none", n |-> 0, block |-> Null, head |-> 0, tail |-> 0, i |-> 0,
   items |-> <<>>, actual |-> 0]

NoResult == [op |-> "none", error |-> "OK", success |-> 0, head |-> 0, count |-> 0,
             capacity |-> 0, items |-> <<>>, actual |-> 0]

\* block ? block->mask + 1 : 0
Cap(b) == IF b = Null THEN 0 ELSE blocks[b].cap

\* data + (i & mask)*item_size; the capacity is a power of two times MinCapacity
Slot(b, i) == i % Cap(b)

\* What is really in the queue: ghost, no thread can compute it in one step.
Actual == push.tail - pop.head

Init ==
  /\ pop = [block |-> Null, head |-> 0, estimate_tail |-> 0]
  /\ push = [block |-> Null, estimate_head |-> 0, tail |-> 0]
  /\ blocks = <<>>
  /\ pc = [t \in Threads |-> "idle"]
  /\ loc = [t \in Threads |-> NoLocals]
  /\ res = [t \in Threads |-> NoResult]
  /\ calls = [t \in Threads |-> 0]
  /\ inits = 0
  /\ got = <<>>

-----------------------------------------------------------------------------
(* Control.                                                                *)

Goto(t, label, l) ==
  /\ pc' = [pc EXCEPT ![t] = label]
  /\ loc' = [loc EXCEPT ![t] = l]
  /\ UNCHANGED <<res, calls, inits>>

Call(t, label, l) ==
  /\ pc[t] = "idle" /\ calls[t] < MaxCalls[t]
  /\ calls' = [calls EXCEPT ![t] = @ + 1]
  /\ pc' = [pc EXCEPT ![t] = label]
  /\ loc' = [loc EXCEPT ![t] = l]
  /\ res' = [res EXCEPT ![t] = NoResult]
  /\ UNCHANGED inits

Return(t, r) ==
  /\ pc' = [pc EXCEPT ![t] = "idle"]
  /\ loc' = [loc EXCEPT ![t] = NoLocals]
  /\ res' = [res EXCEPT ![t] = r]
  /\ UNCHANGED <<calls, inits>>

Result(l, error, success) ==
  [NoResult EXCEPT !.op = l.op, !.error = error, !.success = success, !.head = l.head,
                   !.items = IF error = "OK" THEN l.items ELSE <<>>, !.actual = l.actual]

-----------------------------------------------------------------------------
(* The producer: spmc_queue_push_st and spmc_queue_reserve.                *)

\* Off by one.
MutantNoRoom(l) == l.block = Null \/ l.tail - l.head + l.n > Cap(l.block) + 1

\* (tail - head) + count > capacity: the block has no room for the items.
NoRoom(l) == l.block = Null \/ l.tail - l.head + l.n > Cap(l.block)

PushCall(n) ==
  LET l == [NoLocals EXCEPT !.op = "push", !.n = n, !.block = push.block,
                            !.tail = push.tail, !.head = push.estimate_head]
  IN  /\ Call(Producer, IF NoRoom(l) THEN "push_head" ELSE "push_copy", l)
      /\ UNCHANGED <<pop, push, blocks, got>>

\* Nearly full by the estimate: load the consumers' head and look again.
PushHead ==
  LET l == [loc[Producer] EXCEPT !.head = pop.head]
  IN  /\ pc[Producer] = "push_head"
      /\ push' = [push EXCEPT !.estimate_head = pop.head]
      /\ Goto(Producer, IF NoRoom(l) THEN "grow" ELSE "push_copy", l)
      /\ UNCHANGED <<pop, blocks, got>>

ReserveCall(n) ==
  /\ Call(Producer, "grow", [NoLocals EXCEPT !.op = "reserve", !.n = n])
  /\ UNCHANGED <<pop, push, blocks, got>>

\* The to_size handed to _spmc_queue_reserve.
ToSize(l) == IF l.op = "push" THEN l.tail - l.head + l.n ELSE l.n

\* The smallest doubling of the first capacity that holds to_size items.
NewCapacity(to) == Min({c \in {MinCapacity * 2^k : k \in 0 .. to} : c >= to})

\* The condition under which _spmc_queue_reserve allocates.
MayGrow(to) ==
  /\ Cap(push.block) < to
  /\ MaxCapacity >= 0 => to <= MaxCapacity

\* Copies by the place in the old block: wrong once the items have wrapped.
MutantGrownBlock(b, cap) ==
  [cap  |-> cap,
   data |-> [s \in 0 .. cap - 1 |->
               IF b = Null \/ s >= Cap(b) THEN NoItem ELSE blocks[b].data[s]]]

\* A block holding the items head .. tail-1 of block b, zero elsewhere.
GrownBlock(b, cap) ==
  [cap  |-> cap,
   data |-> [s \in 0 .. cap - 1 |->
               LET moved == {i \in pop.head .. push.tail - 1 : i % cap = s}
               IN  IF b = Null \/ moved = {} THEN NoItem
                   ELSE blocks[b].data[Slot(b, Max(moved))]]]

\* Too large, or no memory: push reports a full queue, reserve returns quietly.
GrowFails ==
  LET l == loc[Producer]
  IN  /\ pc[Producer] = "grow"
      /\ MayGrow(ToSize(l)) => MayFail
      /\ Return(Producer, Result(l, IF l.op = "push" THEN "FULL" ELSE "OK", 0))
      /\ UNCHANGED <<pop, push, blocks, got>>

\* Loads head and copies what is between it and tail into a fresh block.
Grow ==
  LET l == loc[Producer]
      new == GrownBlock(push.block, NewCapacity(ToSize(l)))
  IN  /\ pc[Producer] = "grow"
      /\ MayGrow(ToSize(l))
      /\ blocks' = Append(blocks, new)
      /\ push' = [push EXCEPT !.block = Len(blocks) + 1]
      /\ Goto(Producer, "publish", [l EXCEPT !.block = Len(blocks) + 1])
      /\ UNCHANGED <<pop, got>>

Publish ==
  LET l == loc[Producer]
  IN  /\ pc[Producer] = "publish"
      /\ pop' = [pop EXCEPT !.block = l.block]
      /\ IF l.op = "push" THEN Goto(Producer, "push_copy", l)
                          ELSE Return(Producer, Result(l, "OK", 0))
      /\ UNCHANGED <<push, blocks, got>>

\* One memcpy of the loop, while the consumers may be reading the block.
PushCopy ==
  LET l == loc[Producer]
  IN  /\ pc[Producer] = "push_copy"
      /\ blocks' = [blocks EXCEPT ![l.block].data[Slot(l.block, l.tail + l.i)] = l.tail + l.i]
      /\ Goto(Producer, IF l.i + 1 = l.n THEN "push_tail" ELSE "push_copy",
              [l EXCEPT !.i = @ + 1])
      /\ UNCHANGED <<pop, push, got>>

PushTail ==
  LET l == loc[Producer]
  IN  /\ pc[Producer] = "push_tail"
      /\ push' = [push EXCEPT !.tail = l.tail + l.n]
      /\ Return(Producer, Result(l, "OK", l.n))
      /\ UNCHANGED <<pop, blocks, got>>

ProducerStep ==
  \/ \E n \in PushCounts : PushCall(n)
  \/ \E n \in ReserveTo : ReserveCall(n)
  \/ PushHead \/ GrowFails \/ Grow \/ Publish \/ PushCopy \/ PushTail

-----------------------------------------------------------------------------
(* The consumers: spmc_queue_pop_weak, and spmc_queue_pop and              *)
(* spmc_queue_pop_st that call it.                                         *)

\* "should be called from a single thread at a time": no other pop is under way
\* during a spmc_queue_pop_st.  The queue does not enforce it; its callers must.
SingleThread(t, o) ==
  \A u \in Consumers \ {t} : pc[u] # "idle" => "pop_st" \notin {o, loc[u].op}

PopCall(t, o, n) ==
  /\ SingleThread(t, o)
  /\ Call(t, "pop_head", [NoLocals EXCEPT !.op = o, !.n = n])
  /\ UNCHANGED <<pop, push, blocks, got>>

PopHead(t) ==
  /\ pc[t] = "pop_head"
  /\ Goto(t, "pop_estimate", [loc[t] EXCEPT !.head = pop.head, !.i = 0])
  /\ UNCHANGED <<pop, push, blocks, got>>

\* Takes the estimate for the truth: an empty estimate is an empty queue.
MutantPopEstimate(t) ==
  LET l == [loc[t] EXCEPT !.tail = pop.estimate_tail, !.actual = Actual]
  IN  /\ pc[t] = "pop_estimate"
      /\ IF l.tail - l.head <= 0 /\ l.tail # 0
           THEN Return(t, Result(l, "EMPTY", 0))
           ELSE Goto(t, IF l.tail - l.head <= 0 THEN "pop_tail" ELSE "pop_block", l)
      /\ UNCHANGED <<pop, push, blocks, got>>

PopEstimate(t) ==
  LET l == [loc[t] EXCEPT !.tail = pop.estimate_tail]
  IN  /\ pc[t] = "pop_estimate"
      /\ Goto(t, IF l.tail - l.head <= 0 THEN "pop_tail" ELSE "pop_block", l)
      /\ UNCHANGED <<pop, push, blocks, got>>

\* Empty by the estimate: load the producer's tail ...
PopTail(t) ==
  /\ pc[t] = "pop_tail"
  /\ Goto(t, "pop_store", [loc[t] EXCEPT !.tail = push.tail, !.actual = Actual])
  /\ UNCHANGED <<pop, push, blocks, got>>

\* ... and make it the estimate, even if another consumer stored a newer one.
PopStore(t) ==
  LET l == loc[t]
  IN  /\ pc[t] = "pop_store"
      /\ pop' = [pop EXCEPT !.estimate_tail = l.tail]
      /\ IF l.tail - l.head <= 0 THEN Return(t, Result(l, "EMPTY", 0))
                                 ELSE Goto(t, "pop_block", [l EXCEPT !.actual = 0])
      /\ UNCHANGED <<push, blocks, got>>

PopBlock(t) ==
  /\ pc[t] = "pop_block"
  /\ Goto(t, "pop_copy", [loc[t] EXCEPT !.block = pop.block])
  /\ UNCHANGED <<pop, push, blocks, got>>

Popped(l) == Min({l.n, l.tail - l.head})

\* One memcpy(items, slot, item_size): the destination is always the first
\* item of the caller's buffer; the other items of the buffer stay unwritten.
CopyOut(item, count) == [k \in 1 .. count |-> IF k = 1 THEN item ELSE NoItem]

PopCopy(t) ==
  LET l == loc[t]
      item == blocks[l.block].data[Slot(l.block, l.head + l.i)]
  IN  /\ pc[t] = "pop_copy"
      /\ Goto(t, IF l.i + 1 = Popped(l) THEN "pop_commit" ELSE "pop_copy",
              [l EXCEPT !.i = @ + 1, !.items = CopyOut(item, Popped(l))])
      /\ UNCHANGED <<pop, push, blocks, got>>

\* The compare-and-swap is a plain store for every consumer.
MutantPopCommitStore(t) ==
  LET l == loc[t]
  IN  /\ pc[t] = "pop_commit"
      /\ pop' = [pop EXCEPT !.head = l.head + Popped(l)]
      /\ got' = got \o l.items
      /\ Return(t, Result(l, "OK", Popped(l)))
      /\ UNCHANGED <<push, blocks>>

\* After a lost race pop retries with the head it already has.
MutantPopCommitRetry(t) ==
  LET l == loc[t]
  IN  /\ pc[t] = "pop_commit"
      /\ IF pop.head = l.head
           THEN /\ pop' = [pop EXCEPT !.head = l.head + Popped(l)]
                /\ got' = got \o l.items
                /\ Return(t, Result(l, "OK", Popped(l)))
           ELSE /\ Goto(t, "pop_block", [l EXCEPT !.i = 0])
                /\ UNCHANGED <<pop, got>>
      /\ UNCHANGED <<push, blocks>>

\* The compare-and-swap of head, or the plain store of the single consumer.
PopCommit(t) ==
  LET l == loc[t]
      won == l.op = "pop_st" \/ pop.head = l.head
  IN  /\ pc[t] = "pop_commit"
      /\ \/ /\ won
            /\ pop' = [pop EXCEPT !.head = l.head + Popped(l)]
            /\ got' = got \o l.items
            /\ Return(t, Result(l, "OK", Popped(l)))
         \/ /\ ~won /\ l.op = "pop_weak"
            /\ Return(t, Result(l, "FAILED_RACE", 0))
            /\ UNCHANGED <<pop, got>>
         \/ /\ ~won /\ l.op = "pop"
            /\ Goto(t, "pop_head", l)
            /\ UNCHANGED <<pop, got>>
      /\ UNCHANGED <<push, blocks>>

ConsumerStep(t) ==
  \/ \E o \in PopOps, n \in PopCounts : PopCall(t, o, n)
  \/ PopHead(t) \/ PopEstimate(t) \/ PopTail(t) \/ PopStore(t)
  \/ PopBlock(t) \/ PopCopy(t) \/ PopCommit(t)

-----------------------------------------------------------------------------
(* The queries: spmc_queue_count_upper, spmc_queue_count_lower and         *)
(* spmc_queue_state, from any thread that does nothing else.               *)

FirstLoad == [count_upper |-> "upper_head", count_lower |-> "lower_tail",
              state |-> "state_tail"]

QueryCall(t, o) ==
  /\ Call(t, FirstLoad[o], [NoLocals EXCEPT !.op = o])
  /\ UNCHANGED <<pop, push, blocks, got>>

Counted(l, capacity) ==
  [NoResult EXCEPT !.op = l.op, !.count = Max({0, l.tail - l.head}),
                   !.capacity = capacity, !.actual = l.actual]

\* A step from one load to the next.
Load(t, from, to, l) ==
  /\ pc[t] = from
  /\ Goto(t, to, l)
  /\ UNCHANGED <<pop, push, blocks, got>>

count_upper(t) ==
  \/ Load(t, "upper_head", "upper_tail", [loc[t] EXCEPT !.head = pop.head])
  \/ /\ pc[t] = "upper_tail"
     /\ Return(t, Counted([loc[t] EXCEPT !.tail = push.tail, !.actual = Actual], 0))
     /\ UNCHANGED <<pop, push, blocks, got>>

MutantCountLower(t) ==
  \/ Load(t, "lower_tail", "lower_head", [loc[t] EXCEPT !.head = pop.head])
  \/ /\ pc[t] = "lower_head"
     /\ Return(t, Counted([loc[t] EXCEPT !.tail = push.tail, !.actual = Actual], 0))
     /\ UNCHANGED <<pop, push, blocks, got>>

count_lower(t) ==
  \/ Load(t, "lower_tail", "lower_head", [loc[t] EXCEPT !.tail = push.tail])
  \/ /\ pc[t] = "lower_head"
     /\ Return(t, Counted([loc[t] EXCEPT !.head = pop.head, !.actual = Actual], 0))
     /\ UNCHANGED <<pop, push, blocks, got>>

\* Leaves the loop whatever the second load of tail says.
MutantStateCheck(t) ==
  LET l == [loc[t] EXCEPT !.tail = push.tail]
  IN  /\ pc[t] = "state_check"
      /\ Return(t, Counted(l, Cap(l.block)))
      /\ UNCHANGED <<pop, push, blocks, got>>

\* tail again: unchanged, head and tail were true together; else once more.
StateCheck(t) ==
  LET l == [loc[t] EXCEPT !.tail = push.tail]
  IN  /\ pc[t] = "state_check"
      /\ IF push.tail = loc[t].tail THEN Return(t, Counted(l, Cap(l.block)))
                                    ELSE Goto(t, "state_block", l)
      /\ UNCHANGED <<pop, push, blocks, got>>

state(t) ==
  \/ Load(t, "state_tail", "state_block", [loc[t] EXCEPT !.tail = push.tail])
  \/ Load(t, "state_block", "state_head", [loc[t] EXCEPT !.block = pop.block])
  \/ Load(t, "state_head", "state_check", [loc[t] EXCEPT !.head = pop.head, !.actual = Actual])
  \/ StateCheck(t)

ObserverStep(t) ==
  \/ \E o \in Queries : QueryCall(t, o)
  \/ count_upper(t) \/ count_lower(t) \/ state(t)

-----------------------------------------------------------------------------
\* Leaves the consumers' estimate of tail from the queue's former life.
MutantInitQueue ==
  /\ \A t \in Threads : pc[t] = "idle"
  /\ inits < MaxInits
  /\ inits' = inits + 1
  /\ pop' = [pop EXCEPT !.block = Null, !.head = 0]
  /\ push' = [block |-> Null, estimate_head |-> 0, tail |-> 0]
  /\ blocks' = <<>>
  /\ got' = <<>>
  /\ res' = [t \in Threads |-> NoResult]
  /\ UNCHANGED <<pc, loc, calls>>

\* spmc_queue_init, which first calls spmc_queue_deinit: every block is freed
\* and every field zeroed.  The caller owns the queue alone.
InitQueue ==
  /\ \A t \in Threads : pc[t] = "idle"
  /\ inits < MaxInits
  /\ inits' = inits + 1
  /\ pop' = [block |-> Null, head |-> 0, estimate_tail |-> 0]
  /\ push' = [block |-> Null, estimate_head |-> 0, tail |-> 0]
  /\ blocks' = <<>>
  /\ got' = <<>>
  /\ res' = [t \in Threads |-> NoResult]
  /\ UNCHANGED <<pc, loc, calls>>

\* All calls made and returned.
Done ==
  /\ \A t \in Threads : pc[t] = "idle" /\ calls[t] = MaxCalls[t]
  /\ UNCHANGED vars

Next ==
  \/ ProducerStep
  \/ \E t \in Consumers : ConsumerStep(t)
  \/ \E t \in Observers : ObserverStep(t)
  \/ InitQueue
  \/ Done

Spec == Init /\ [][Next]_vars

\* Threads inside a call keep running; nobody has to make a call.
FairSpec ==
  /\ Spec
  /\ WF_vars(pc[Producer] # "idle" /\ ProducerStep)
  /\ \A t \in Consumers : WF_vars(pc[t] # "idle" /\ ConsumerStep(t))
  /\ \A t \in Observers : WF_vars(pc[t] # "idle" /\ ObserverStep(t))

-----------------------------------------------------------------------------
(* Properties.                                                             *)

\* The fields and the threads' variables have the types the code gives them;
\* every block a field or a local variable names has been allocated.
TypeOK ==
  /\ pop.head \in Nat /\ pop.estimate_tail \in Nat /\ pop.block \in 0 .. Len(blocks)
  /\ push.tail \in Nat /\ push.estimate_head \in Nat /\ push.block \in 0 .. Len(blocks)
  /\ \A b \in DOMAIN blocks : blocks[b].data \in [0 .. blocks[b].cap - 1 -> Nat \cup {NoItem}]
  /\ \A t \in Threads : loc[t].block \in 0 .. Len(blocks) /\ loc[t].i \in 0 .. loc[t].n
  /\ \A t \in Threads : pc[t] = "pop_copy" => loc[t].block # Null

\* An item that was pushed and not yet popped is in the block the consumers
\* will load, at its place, through overwriting by later pushes (which trust
\* a stale estimate of head), growth, and publication of the new block.
LiveItems ==
  \A i \in pop.head .. push.tail - 1 :
    pop.block # Null /\ blocks[pop.block].data[Slot(pop.block, i)] = i

\* The pops, ordered by the head they moved, hand out the items in the order
\* of the pushes, each once and none of them torn or from a stale block.
Fifo == \A k \in DOMAIN got : got[k] = k - 1

\* A pop reports an empty queue only if, at its load of tail, nothing was in
\* the queue: the estimates never hide an item for good.
EmptyIsEmpty == \A t \in Consumers : res[t].error = "EMPTY" => res[t].actual = 0

\* count_upper is never below, count_lower never above, the number of items
\* in the queue at the second of its two loads.
CountBounds ==
  \A t \in Observers :
    /\ res[t].op = "count_upper" => res[t].count >= res[t].actual
    /\ res[t].op = "count_lower" => res[t].count <= res[t].actual

\* spmc_queue_state returns a count that was exact at its load of head, and a
\* capacity of a block that holds that many items.
StateExact ==
  \A t \in Observers :
    res[t].op = "state" => res[t].count = res[t].actual /\ res[t].count <= res[t].capacity

\* head and tail never move back, so a compare-and-swap of head cannot succeed
\* on a value that returned; only spmc_queue_init starts again.
CursorsAdvance ==
  [][inits' = inits => pop.head <= pop'.head /\ push.tail <= push'.tail]_vars

\* Every call returns: a pop that lost a race tries again only because another
\* consumer got an item, and spmc_queue_state only because a push finished.
CallsReturn == \A t \in Threads : pc[t] # "idle" ~> pc[t] = "idle"

=============================================================================
