----------------------------- MODULE MCIOEvents -----------------------------
(* IOEvents on small instances, for TLC.                                   *)
EXTENDS IOEvents, TLC

(* Fibers, and idle threads, are interchangeable.                          *)
Symmetry == Permutations(Fibers) \cup Permutations(IdleThreads)
=============================================================================
