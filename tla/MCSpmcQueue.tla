---------------------------- MODULE MCSpmcQueue ----------------------------
(* Instances of SpmcQueue for TLC: consumers are interchangeable.           *)
EXTENDS SpmcQueue, TLC

CONSTANTS ProducerCalls, ConsumerCalls, ObserverCalls

CallsByRole ==
  [t \in Threads |-> IF t = Producer THEN ProducerCalls
                     ELSE IF t \in Consumers THEN ConsumerCalls ELSE ObserverCalls]

\* max_capacity_or_negative_if_infinite
Unlimited == -1

Symmetry == Permutations(Consumers)

===========================================================================
