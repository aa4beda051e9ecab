------------------------- MODULE MCDetectionPipeline -------------------------
(* Instances of DetectionPipeline for TLC. *)
EXTENDS DetectionPipeline

AllScopes    == {Scopes}
NoScopes     == {}
=============================================================================
