----------------------------- MODULE OncePerKey -----------------------------
(***************************************************************************)
(* What POST /orders promises a client that retries: an Idempotency-Key    *)
(* names at most one order, decided once, and every call that carries the  *)
(* key and is answered with an order is answered with that one.            *)
(*                                                                         *)
(* An order is named by the call that created it.                          *)
(***************************************************************************)

CONSTANTS Calls,   \* the PlaceOrder calls the service ever receives
          Keys,    \* Idempotency-Key values
          KeyOf,   \* the key each call carries
          None     \* no order

VARIABLES chosen,    \* the order a key stands for
          answered   \* the order each call has been answered with

onceVars == <<chosen, answered>>

Init == /\ chosen = [k \in Keys |-> None]
        /\ answered = [c \in Calls |-> None]

(* The first call of a key to commit decides the key's order. *)
Choose(c) == /\ chosen[KeyOf[c]] = None
             /\ chosen' = [chosen EXCEPT ![KeyOf[c]] = c]
             /\ UNCHANGED answered

(* A call is answered once, with the order of its key. *)
Answer(c) == /\ answered[c] = None
             /\ chosen[KeyOf[c]] # None
             /\ answered' = [answered EXCEPT ![c] = chosen[KeyOf[c]]]
             /\ UNCHANGED chosen

Next == \E c \in Calls : Choose(c) \/ Answer(c)

Spec == Init /\ [][Next]_onceVars
=============================================================================
