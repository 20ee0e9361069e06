------------------------------ MODULE IoRouter ------------------------------
(* What the proxy promises to the processes of a VM and to their clients:    *)
(* every session that was allocated is a pair of pipes of its own.  What a   *)
(* process writes is read by the client of its session, and what the client  *)
(* writes is read by the process: once, in order, from the first frame on,   *)
(* whatever the other sessions do.  Either pipe may stop at any point.       *)
EXTENDS Integers, Sequences

CONSTANT Sessions

VARIABLES
    sessions,   \* the sessions that have been allocated
    output,     \* [session -> frames its process has written]
    delivered,  \* [session -> what its client has read: <<session, rank>>]
    input,      \* [session -> frames its client has written]
    consumed    \* [session -> the ranks of those its process has read]

pipes == <<sessions, output, delivered, input, consumed>>

Init ==
    /\ sessions = {}
    /\ output = [s \in Sessions |-> 0]
    /\ delivered = [s \in Sessions |-> <<>>]
    /\ input = [s \in Sessions |-> 0]
    /\ consumed = [s \in Sessions |-> <<>>]

Allocate(s) ==
    /\ s \notin sessions
    /\ sessions' = sessions \cup {s}
    /\ UNCHANGED <<output, delivered, input, consumed>>

ProcessWrites(s) ==
    /\ s \in sessions
    /\ output' = [output EXCEPT ![s] = @ + 1]
    /\ UNCHANGED <<sessions, delivered, input, consumed>>

ClientReads(s) ==
    /\ Len(delivered[s]) < output[s]
    /\ delivered' = [delivered EXCEPT ![s] = Append(@, <<s, Len(@) + 1>>)]
    /\ UNCHANGED <<sessions, output, input, consumed>>

ClientWrites(s) ==
    /\ s \in sessions
    /\ input' = [input EXCEPT ![s] = @ + 1]
    /\ UNCHANGED <<sessions, output, delivered, consumed>>

ProcessReads(s) ==
    /\ Len(consumed[s]) < input[s]
    /\ consumed' = [consumed EXCEPT ![s] = Append(@, Len(@) + 1)]
    /\ UNCHANGED <<sessions, output, delivered, input>>

Next ==
    \E s \in Sessions :
        \/ Allocate(s) \/ ProcessWrites(s) \/ ClientReads(s)
        \/ ClientWrites(s) \/ ProcessReads(s)

Spec == Init /\ [][Next]_pipes
=============================================================================
