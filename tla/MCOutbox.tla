------------------------------ MODULE MCOutbox ------------------------------
(***************************************************************************)
(* Outbox for TLC: three rows, two passes that share their worker id, one  *)
(* of them without a publisher.                                            *)
(***************************************************************************)
EXTENDS Outbox

CONSTANTS configuredPass, otherPass, worker

SharedWorkerId == [p \in Passes |-> worker]
=============================================================================
