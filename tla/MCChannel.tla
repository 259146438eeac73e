----------------------------- MODULE MCChannel -----------------------------
(* Instances of Channel for TLC: the roles of the threads.                  *)
EXTENDS Channel, TLC

CONSTANTS
  Producers, ProducerOps, ProducerCalls,
  Consumers, ConsumerOps, ConsumerCalls,
  Closers, CloserOps, CloserCalls

Everyone == Producers \cup Consumers \cup Closers

ByRole(producer, consumer, closer) ==
  [t \in Everyone |->
     IF t \in Producers THEN producer ELSE IF t \in Consumers THEN consumer ELSE closer]

OpsByRole == ByRole(ProducerOps, ConsumerOps, CloserOps)

CallsByRole == ByRole(ProducerCalls, ConsumerCalls, CloserCalls)

\* Threads of one role are interchangeable.
Symmetry ==
  Permutations(Producers) \cup Permutations(Consumers) \cup Permutations(Closers)

===========================================================================
