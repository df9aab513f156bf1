------------------------------- MODULE MCTimer ------------------------------
(* TimerManager on small instances, for TLC.                               *)
EXTENDS TimerManager, TLC

(* Threads are interchangeable.                                            *)
Symmetry == Permutations(Threads)
=============================================================================
