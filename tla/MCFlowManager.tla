---------------------------- MODULE MCFlowManager ----------------------------
(* Finite instances of FlowManager. *)
EXTENDS FlowManager

CONSTANTS k1, k2, s1, s2
=============================================================================
