---------------------------- MODULE VMIoRefines ----------------------------
(* The goroutines of vm.go implement a pair of pipes per session.            *)
EXTENDS VMIo

DeliveredTo(s) == [i \in 1..Len(got[s]) |-> <<got[s][i].s, got[s][i].k>>]

Router ==
    INSTANCE IoRouter WITH
        sessions  <- {s \in Sessions : Allocated(s)},
        output    <- sent,
        delivered <- [s \in Sessions |-> DeliveredTo(s)],
        input     <- written,
        consumed  <- guestIn

\* One channel to the guest, one map of sessions and one routing goroutine
\* behave towards every client and every process as a pair of pipes of its own
\* (ioHyperToClients, ioClientToHyper, AllocateIo).
ImplementsPipes == Router!Spec
=============================================================================
