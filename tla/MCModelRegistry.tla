--------------------------- MODULE MCModelRegistry ---------------------------
(* Finite instances of ModelRegistry. *)
EXTENDS ModelRegistry

CONSTANTS d1, d2

Everything == {"info", "switch", "delete", "reset", "train", "cancel"}
=============================================================================
