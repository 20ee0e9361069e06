------------------------------- MODULE MCShim -------------------------------
(* Shim for TLC.                                                            *)
EXTENDS Shim
=============================================================================
