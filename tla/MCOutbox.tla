------------------------------ MODULE MCOutbox ------------------------------
(* Two replicas, each with one tick at a time. *)
EXTENDS Outbox, TLC

CONSTANTS t1, t2, r1, r2

MCTwoReplicas == t1 :> r1 @@ t2 :> r2
=============================================================================
