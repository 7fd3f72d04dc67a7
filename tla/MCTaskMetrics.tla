--------------------------- MODULE MCTaskMetrics ---------------------------
(***************************************************************************)
(* Instances of TaskMetrics for TLC.                                       *)
(***************************************************************************)
EXTENDS TaskMetrics, TLC

\* Deliveries are interchangeable.
WorkerSymmetry == Permutations(Worker)
=============================================================================
