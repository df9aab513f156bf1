---------------------------- MODULE MCScheduler ----------------------------
(* Scheduler on small instances, for TLC.                                  *)
EXTENDS Scheduler, TLC

(* Interchangeable threads and fibers; used by the safety runs only.       *)
Symmetry == Permutations(Pool) \cup Permutations(Fibers)
=============================================================================
