------------------------------ MODULE MCHookIO ------------------------------
(* HookIO on a small instance, for TLC.                                    *)
EXTENDS HookIO, TLC

(* Interchangeable fibers and Timer objects.                              *)
Symmetry == Permutations(Fibers) \cup Permutations(Timers)
=============================================================================
