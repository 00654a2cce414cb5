------------------------- MODULE MCDatabaseRestore -------------------------
EXTENDS DatabaseRestore, TLC

CONSTANTS p1, p2, w1, w2

\* The older window does everything; Blue only rolls back.
Older == (w1 :> {"restore", "rollback", "finalise"}) @@ (w2 :> {"rollback"})
=============================================================================
