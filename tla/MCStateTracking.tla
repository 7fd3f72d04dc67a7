-------------------------- MODULE MCStateTracking --------------------------
(***************************************************************************)
(* Instances of StateTracking for TLC.                                     *)
(***************************************************************************)
EXTENDS StateTracking, TLC

\* Deliveries are interchangeable; used by the runs that check no liveness.
WorkerSymmetry == Permutations(Worker)
=============================================================================
