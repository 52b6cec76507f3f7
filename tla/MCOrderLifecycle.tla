-------------------------- MODULE MCOrderLifecycle --------------------------
(* One order, since tasks of different orders share nothing but the two    *)
(* fault budgets: two deliveries of its message and up to three            *)
(* CancelOrder calls.                                                      *)
EXTENDS OrderLifecycle, TLC

CONSTANTS o1, f1, f2, owner, stranger, admin

MCKind == f1 :> "finalizer" @@ f2 :> "finalizer" @@ owner :> "owner"
          @@ stranger :> "stranger" @@ admin :> "admin"
MCKindOf == [t \in Tasks |-> MCKind[t]]
MCOrderOf == [t \in Tasks |-> o1]
MCPaid == o1 :> "paid"
=============================================================================
