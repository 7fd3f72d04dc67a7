---------------------------- MODULE MCObservers ----------------------------
(***************************************************************************)
(* Instances of Observers for TLC.                                         *)
(***************************************************************************)
EXTENDS Observers

\* Deliveries are interchangeable.
WorkerSymmetry == Permutations(Worker)
=============================================================================
