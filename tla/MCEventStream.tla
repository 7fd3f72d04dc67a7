--------------------------- MODULE MCEventStream ---------------------------
(***************************************************************************)
(* Instances of EventStream for TLC.                                       *)
(***************************************************************************)
EXTENDS EventStream

\* Deliveries are interchangeable.
WorkerSymmetry == Permutations(Worker)
=============================================================================
