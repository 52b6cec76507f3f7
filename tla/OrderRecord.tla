----------------------------- MODULE OrderRecord -----------------------------
(***************************************************************************)
(* What a reader of an order can rely on while cancellations and payments  *)
(* race: it leaves "pending" for good, it only ever shows "cancelled" or   *)
(* the one outcome its payment has, and once hidden by an admin it stays   *)
(* hidden.                                                                 *)
(***************************************************************************)

CONSTANTS Orders,
          Charge     \* the outcome of each order's payment, "paid" or "failed"

VARIABLES shown,     \* the status a reader sees
          hidden     \* whether the order is soft-deleted

recordVars == <<shown, hidden>>

Init == /\ shown = [o \in Orders |-> "pending"]
        /\ hidden = [o \in Orders |-> FALSE]

(* The payment's outcome is recorded; a late one can replace "cancelled".  *)
Settle(o) == /\ shown[o] \in {"pending", "cancelled"}
             /\ shown' = [shown EXCEPT ![o] = Charge[o]]
             /\ UNCHANGED hidden

(* A cancellation; a late one can replace the payment's outcome.           *)
Cancel(o) == /\ shown[o] # "cancelled"
             /\ shown' = [shown EXCEPT ![o] = "cancelled"]
             /\ hidden' \in {hidden, [hidden EXCEPT ![o] = TRUE]}

(* An admin hides an order that has left "pending".                        *)
Hide(o) == /\ shown[o] # "pending"
           /\ hidden' = [hidden EXCEPT ![o] = TRUE]
           /\ UNCHANGED shown

Next == \E o \in Orders : Settle(o) \/ Cancel(o) \/ Hide(o)

Spec == Init /\ [][Next]_recordVars
=============================================================================
