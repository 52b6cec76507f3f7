--------------------------- MODULE MCOrderTracking ---------------------------
(* Two requests at a time, one refresh of the token, two changes.           *)
EXTENDS OrderTracking
=============================================================================
