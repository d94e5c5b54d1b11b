------------------------------ MODULE LostLease ------------------------------
(***************************************************************************)
(* The run archive when PostgreSQL ends the session of a retention pass     *)
(* whose process lives on (a failover, a terminated backend, a connection   *)
(* half open).  The exclusive lock is gone with the session; the pass       *)
(* learns it at its next statement, and removeObject makes none.            *)
(***************************************************************************)
EXTENDS RunArchive

LoseLease ==
  /\ exclusive
  /\ exclusive' = FALSE
  /\ UNCHANGED <<sharers, behind, rowVars, catalog, txVars, objects, workerVars, maintVars>>

LossySpec == Init /\ [][Next \/ LoseLease]_vars

\* What the rows say stays consistent when the session is lost: every relation
\* has its catalog row, and no row of a run in use is taken away (reclaim deletes
\* rows only through the session that held the lock).
RelationsCatalogued == \A r \in Runs : rel[r] \subseteq catalog
=============================================================================
