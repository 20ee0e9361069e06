------------------------------- MODULE MCVMIo -------------------------------
(* Two sessions of one VM object, for TLC. *)
EXTENDS VMIoRefines, TLC

SessionSymmetry == Permutations(Sessions)

\* Of the behaviours, those in which frames go in one direction only, and in
\* none if there is a console goroutine.
OneDirection ==
    LET idle == [s \in Sessions |-> 0]
    IN IF console = "off" THEN idle \in {sent', written'} ELSE idle = sent' /\ idle = written'
=============================================================================
