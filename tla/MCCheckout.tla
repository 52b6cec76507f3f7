----------------------------- MODULE MCCheckout -----------------------------
(* Three calls of one user: a call, its retry with the same key, and a     *)
(* call with another key.  Users meet in no lock, key or cart.             *)
EXTENDS Checkout, TLC

CONSTANTS c1, c2, c3, u1, k1, k2

MCUserOf == c1 :> u1 @@ c2 :> u1 @@ c3 :> u1
MCKeyOf == c1 :> k1 @@ c2 :> k1 @@ c3 :> k2
=============================================================================
