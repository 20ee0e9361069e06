---------------------------- MODULE MCContainer ----------------------------
(* Container for TLC: the processes are interchangeable. *)
EXTENDS Container, TLC

ProcSymmetry == Permutations(Procs)
=============================================================================
