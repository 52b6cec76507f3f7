----------------------------- MODULE AtLeastOnce -----------------------------
(***************************************************************************)
(* What the outbox is for: every accepted order is handed to the finalizer *)
(* at least once, and nothing else is.                                     *)
(***************************************************************************)

CONSTANT Orders

VARIABLES accepted,  \* the orders that were committed
          handled    \* the orders the finalizer was run for

Init == accepted = {} /\ handled = {}

Accept(o) == /\ o \notin accepted
             /\ accepted' = accepted \cup {o}
             /\ UNCHANGED handled

Handle(o) == /\ o \in accepted
             /\ handled' = handled \cup {o}
             /\ UNCHANGED accepted

Next == \E o \in Orders : Accept(o) \/ Handle(o)

Spec == Init /\ [][Next]_<<accepted, handled>>
=============================================================================
