----------------------------- MODULE MCVMIoLive -----------------------------
(* Liveness of one VM object, for TLC: a behaviour either is about stdin, with *)
(* two streams per session, or about output, with one stream and a console.    *)
EXTENDS VMIoRefines

VARIABLE part  \* the direction the behaviour is about

MCInit ==
    /\ Init
    /\ \/ part = "stdin" /\ console = "off"
       \/ part = "output"

\* Only the environment is restricted: who writes, and what clients ask for.
Restricted ==
    \/ part = "stdin" /\ UNCHANGED sent /\ \A s \in Sessions : nStreams'[s] # 1
    \/ part = "output" /\ UNCHANGED written /\ \A s \in Sessions : nStreams'[s] # 2

MCNext == Next /\ Restricted /\ UNCHANGED part

MCSpec == MCInit /\ [][MCNext]_<<vars, part>> /\ Fairness
=============================================================================
