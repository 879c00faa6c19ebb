-------------------------- MODULE AtLeastOnceQueue --------------------------
(***************************************************************************)
(* What the outbox promises its consumers: an event that was enqueued is   *)
(* delivered any number of times, is settled only after it was delivered,  *)
(* and is not delivered again once it is settled.  How workers claim rows, *)
(* fail and die does not show.                                             *)
(***************************************************************************)
EXTENDS Integers

CONSTANT OutboxIds

VARIABLES state,        \* "ABSENT", "UNPUBLISHED" or "PUBLISHED" of each event
          deliveries    \* how often consumers received it

Init == /\ state = [o \in OutboxIds |-> "ABSENT"]
        /\ deliveries = [o \in OutboxIds |-> 0]

Enqueue(o) == /\ state[o] = "ABSENT"
              /\ state' = [state EXCEPT ![o] = "UNPUBLISHED"]
              /\ UNCHANGED deliveries

Deliver(o) == /\ state[o] = "UNPUBLISHED"
              /\ deliveries' = [deliveries EXCEPT ![o] = deliveries[o] + 1]
              /\ UNCHANGED state

Settle(o) == /\ state[o] = "UNPUBLISHED"
             /\ deliveries[o] > 0
             /\ state' = [state EXCEPT ![o] = "PUBLISHED"]
             /\ UNCHANGED deliveries

Next == \E o \in OutboxIds : Enqueue(o) \/ Deliver(o) \/ Settle(o)

Spec == Init /\ [][Next]_<<state, deliveries>>
=============================================================================
