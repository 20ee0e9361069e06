------------------------------ MODULE MCClients ------------------------------
(* The two stream clients of the runtime, for TLC: a behaviour is either a  *)
(* conversation with the proxy or a set of processes that pause and resume. *)
EXTENDS ProxyClient, Qmp

VARIABLE part  \* the one of the two that runs

MCInit ==
  /\ Init /\ QInit
  /\ \/ part = "proxy" /\ vm = "running" /\ goal = [p \in Procs |-> "running"]
     \/ part = "qmp" /\ kind = "bye" /\ config = {}

ProxyPart(A) == part = "proxy" /\ A /\ UNCHANGED <<qvars, part>>
QmpPart(A) == part = "qmp" /\ A /\ UNCHANGED <<vars, part>>

MCNext == ProxyPart(Next) \/ QmpPart(QNext)

MCSpec ==
  /\ MCInit /\ [][MCNext]_<<vars, qvars, part>>
  /\ WF_vars(ProxyPart(Client)) /\ WF_vars(ProxyPart(Serve))
  /\ \A p \in Procs : WF_qvars(QmpPart(Toggle(p))) /\ WF_qvars(QmpPart(Monitor(p)))
=============================================================================
