----------------------------- MODULE MCHyperCtl -----------------------------
(* Clients sharing the control channel of one VM, for TLC. *)
EXTENDS HyperCtl
=============================================================================
