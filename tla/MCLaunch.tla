------------------------------ MODULE MCLaunch ------------------------------
(* Launch for TLC.                                                          *)
EXTENDS Launch
=============================================================================
