-------------------------- MODULE MCCaptureService --------------------------
(* Finite instances of CaptureService. *)
EXTENDS CaptureService

CONSTANTS k1, s1, s2
=============================================================================
