--------------------------- MODULE MCSharedCopies ---------------------------
(* Finite instance of SharedCopies. *)
EXTENDS SharedCopies

CONSTANTS p1, p2, t1, t2

\* Both threads belong to the process whose capture finds the alerts.
MCOf == [t \in Threads |-> p1]
=============================================================================
