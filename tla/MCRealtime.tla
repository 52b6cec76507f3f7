----------------------------- MODULE MCRealtime -----------------------------
(* Four sockets of one user, three from the same address. *)
EXTENDS Realtime, TLC

CONSTANTS s1, s2, s3, s4, home, mobile

MCIpOf == s4 :> mobile @@ [s \in Sockets |-> home]
Symmetry == Permutations({s1, s2, s3})
=============================================================================
