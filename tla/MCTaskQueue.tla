----------------------------- MODULE MCTaskQueue -----------------------------
(* Small instances of TaskQueue for TLC. *)
EXTENDS TaskQueue

CONSTANTS t1, t2, t3, t4

\* t1 and t2 have the highest priority, t3 and t4 the next one
MCRank == [t \in Tasks |-> IF t \in {t1, t2} THEN 0 ELSE 1]
=============================================================================
