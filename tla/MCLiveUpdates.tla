--------------------------- MODULE MCLiveUpdates ---------------------------
(* Finite instance of LiveUpdates. *)
EXTENDS LiveUpdates

CONSTANTS t1, t2, p1, p2
=============================================================================
