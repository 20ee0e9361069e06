-------------------------------- MODULE Qmp --------------------------------
(***************************************************************************)
(* Pause and resume: processes of the runtime that stop or continue one    *)
(* hypervisor over its QMP monitor (src/network.c, called by               *)
(* cc_oci_toggle).  The monitor serves one connection at a time, sends a   *)
(* greeting, and answers the commands; its messages end in a separator and *)
(* arrive in portions of any size, and events come in between.             *)
(*                                                                         *)
(* A message is a body unit and an end unit, [m |-> ..., end |-> ...].     *)
(***************************************************************************)
EXTENDS Naturals, Sequences

CONSTANTS
  Procs,     \* processes that run pause or resume
  MaxEvents, \* bound: events that are not the effect of a command
  QFaults    \* a subset of {"exit"}: the hypervisor may end

ASSUME QmpAssumption == MaxEvents \in Nat /\ QFaults \subseteq {"exit"}

VARIABLES
  vm,       \* the hypervisor: "running", "paused" or "gone"
  saved,    \* the status in the state file
  serving,  \* the connections of the monitor; it serves the first
  events,   \* number of events so far
  goal,     \* the status a process is to reach
  qpc,      \* where it is
  toVm,     \* its commands
  sock,     \* what the monitor has sent it
  buf,      \* received
  msgs,     \* the messages it has taken off the buffer
  executed, \* history: its command has been executed
  noop      \* history: ... and changed nothing

vmVars == <<vm, serving, events>>
histVars == <<executed, noop>>
qvars == <<vmVars, saved, goal, qpc, toVm, sock, buf, msgs, histVars>>

Ends == {"ok", "failed", "aborted"}

QmpMessage(m) == <<[m |-> m, end |-> FALSE], [m |-> m, end |-> TRUE]>>

QInit ==
  /\ vm \in {"running", "paused"} /\ saved = vm
  /\ serving = <<>> /\ events = 0
  /\ goal \in [Procs -> {"paused", "running"}]
  /\ qpc = [p \in Procs |-> "start"]
  /\ toVm = [p \in Procs |-> <<>>]
  /\ sock = [p \in Procs |-> <<>>]
  /\ buf = [p \in Procs |-> <<>>]
  /\ msgs = [p \in Procs |-> <<>>]
  /\ executed = [p \in Procs |-> FALSE]
  /\ noop = [p \in Procs |-> FALSE]

Goto(p, l) == qpc' = [qpc EXCEPT ![p] = l]

\* cc_oci_toggle: nothing to do in the status that is asked for.
Start(p) ==
  /\ qpc[p] = "start"
  /\ \/ saved = goal[p] /\ Goto(p, "ok")
     \/ saved # goal[p] /\ Goto(p, "connect")
  /\ UNCHANGED <<vmVars, saved, goal, toVm, sock, buf, msgs, histVars>>

\* cc_oci_vm_conn_new, up to the greeting.
ConnNew(p) ==
  /\ qpc[p] = "connect"
  /\ \/ /\ vm # "gone" /\ serving' = Append(serving, p) /\ Goto(p, "welcome")
     \/ /\ vm = "gone" /\ Goto(p, "failed") /\ UNCHANGED serving
  /\ UNCHANGED <<vm, events, saved, goal, toVm, sock, buf, msgs, histVars>>

\* Mutant of ConnFree: the connection is leaked.
ConnFreeLeaks(p) == UNCHANGED serving

\* cc_oci_vm_conn_free, at the end of cc_oci_vm_pause and cc_oci_vm_resume.
ConnFree(p) == serving' = SelectSeq(serving, LAMBDA q : q # p)

\* The number of messages that are waited for: the greeting, the answer to
\* qmp_capabilities, and the event and the answer of a stop or cont.
Expected(p) == IF qpc[p] = "command" THEN 2 ELSE 1

\* The messages of a buffer up to its separators, and what follows the last of
\* them.  A buffer begins with a message, so that every second unit of it is a
\* separator and no other one (ControlProofs, FramingTheorem).
Complete(b) == [i \in 1..Len(b) \div 2 |-> b[2 * i].m]
Incomplete(b) == IF Len(b) % 2 = 1 THEN <<b[Len(b)]>> ELSE <<>>

\* cc_oci_qmp_msg_send after the message before: qmp_capabilities once, then the
\* command.  What a send that fails returns is left over from the message
\* before: nothing has been checked before qmp_capabilities, and success before
\* the command.
MsgSend(p, m, l) ==
  \/ /\ vm # "gone"
     /\ toVm' = [toVm EXCEPT ![p] = Append(@, m)]
     /\ Goto(p, l) /\ UNCHANGED serving
  \/ /\ vm = "gone" /\ UNCHANGED toVm
     /\ Goto(p, IF m = "caps" THEN "failed" ELSE "save") /\ ConnFree(p)

\* Mutant of CheckResult: the answer is not looked at.
CheckResultNot(m) == TRUE

\* cc_oci_qmp_check_result: an error has no member "return".
CheckResult(m) == m = "return"

\* What is done with the messages that have been waited for.
\* cc_oci_qmp_check_welcome accepts anything.
Check(p, ms) ==
  \/ qpc[p] = "welcome" /\ MsgSend(p, "caps", "caps")
  \/ qpc[p] = "caps" /\ CheckResult(ms[Expected(p)]) /\ MsgSend(p, goal[p], "command")
  \/ /\ qpc[p] = "command" /\ CheckResult(ms[Expected(p)])
     /\ Goto(p, "save") /\ ConnFree(p) /\ UNCHANGED toVm
  \/ /\ qpc[p] \in {"caps", "command"} /\ ~CheckResult(ms[Expected(p)])
     /\ Goto(p, "failed") /\ ConnFree(p) /\ UNCHANGED toVm

\* cc_oci_qmp_msg_recv: a portion is received, the complete messages are taken
\* off the buffer; the loop ends at exactly the expected number, and asserts that
\* nothing else has come.
MsgRecv(p) ==
  /\ qpc[p] \in {"welcome", "caps", "command"}
  /\ \E k \in 1..Len(sock[p]) :
        LET b == buf[p] \o SubSeq(sock[p], 1, k)
            ms == msgs[p] \o Complete(b)
            rest == Incomplete(b)
        IN /\ sock' = [sock EXCEPT ![p] = SubSeq(@, k + 1, Len(@))]
           /\ \/ /\ Len(ms) # Expected(p)
                 /\ buf' = [buf EXCEPT ![p] = rest]
                 /\ msgs' = [msgs EXCEPT ![p] = ms]
                 /\ UNCHANGED <<qpc, toVm, serving>>
              \/ /\ Len(ms) = Expected(p) /\ rest # <<>>
                 /\ Goto(p, "aborted") /\ ConnFree(p)
                 /\ UNCHANGED <<buf, msgs, toVm>>
              \/ /\ Len(ms) = Expected(p) /\ rest = <<>>
                 /\ Check(p, ms)
                 /\ buf' = [buf EXCEPT ![p] = <<>>]
                 /\ msgs' = [msgs EXCEPT ![p] = <<>>]
  /\ UNCHANGED <<vm, events, saved, goal, histVars>>

\* The end of the connection is no error, and has no message to print.  It is
\* reset instead, which is an error, if the monitor has not accepted it or has left
\* a command in it unread.
RecvEnd(p) ==
  /\ qpc[p] \in {"welcome", "caps", "command"}
  /\ sock[p] = <<>> /\ vm = "gone"
  /\ Goto(p, "aborted") \/ Goto(p, "failed")
  /\ ConnFree(p)
  /\ UNCHANGED <<vm, events, saved, goal, toVm, sock, buf, msgs, histVars>>

\* The rest of cc_oci_toggle.
Save(p) ==
  /\ qpc[p] = "save"
  /\ saved' = goal[p]
  /\ Goto(p, "ok")
  /\ UNCHANGED <<vmVars, goal, toVm, sock, buf, msgs, histVars>>

-----------------------------------------------------------------------------
(* The monitor of the hypervisor.                                           *)

Sends(p, s) == sock' = [sock EXCEPT ![p] = @ \o s]

First(p) == vm # "gone" /\ serving # <<>> /\ Head(serving) = p

\* The greeting is the first thing a connection gets.
Greet(p) ==
  /\ First(p) /\ qpc[p] = "welcome"
  /\ sock[p] = <<>> /\ buf[p] = <<>> /\ msgs[p] = <<>>
  /\ Sends(p, QmpMessage("greeting"))
  /\ UNCHANGED <<vmVars, saved, goal, qpc, toVm, buf, msgs, histVars>>

\* A command is answered; a stop or cont that has an effect is announced by an
\* event before.
Execute(p) ==
  /\ First(p) /\ toVm[p] # <<>>
  /\ toVm' = [toVm EXCEPT ![p] = Tail(@)]
  /\ LET m == Head(toVm[p])
         changes == m # "caps" /\ m # vm
     IN /\ vm' = IF changes THEN m ELSE vm
        /\ Sends(p, (IF changes THEN QmpMessage("event") ELSE <<>>) \o QmpMessage("return"))
        /\ executed' = [executed EXCEPT ![p] = @ \/ m # "caps"]
        /\ noop' = [noop EXCEPT ![p] = @ \/ (m # "caps" /\ ~changes)]
  /\ UNCHANGED <<serving, events, saved, goal, qpc, buf, msgs>>

\* Another event, once the capabilities have been negotiated.
Event(p) ==
  /\ First(p) /\ events < MaxEvents
  /\ qpc[p] \in {"caps", "command"} /\ toVm[p] # <<"caps">>
  /\ events' = events + 1
  /\ Sends(p, QmpMessage("event"))
  /\ UNCHANGED <<vm, serving, saved, goal, qpc, toVm, buf, msgs, histVars>>

VmExits ==
  /\ "exit" \in QFaults /\ vm # "gone" /\ vm' = "gone"
  /\ UNCHANGED <<serving, events, saved, goal, qpc, toVm, sock, buf, msgs, histVars>>

-----------------------------------------------------------------------------
Toggle(p) == Start(p) \/ ConnNew(p) \/ MsgRecv(p) \/ RecvEnd(p) \/ Save(p)
Monitor(p) == Greet(p) \/ Execute(p)

QNext == \/ \E p \in Procs : Toggle(p) \/ Monitor(p) \/ Event(p)
         \/ VmExits

QSpec == QInit /\ [][QNext]_qvars

\* The processes run, and the monitor serves.
QFairness == \A p \in Procs : WF_qvars(Toggle(p)) /\ WF_qvars(Monitor(p))

-----------------------------------------------------------------------------
\* A pause or a resume that reports success after having talked to the monitor
\* has been executed, whatever else the monitor has sent and however it came; or
\* the hypervisor is gone.
SuccessIsExecuted ==
  \A p \in Procs : qpc[p] = "save" => executed[p] \/ vm = "gone"

\* A pause or a resume returns; unless an event comes in between, the messages of
\* a command that changes nothing are waited for (the hypervisor already was as
\* asked for), or the hypervisor ends.
ToggleReturns ==
  \A p \in Procs :
     qpc[p] = "connect" ~> \/ qpc[p] \in Ends
                           \/ events > 0 \/ vm = "gone"
                           \/ \E q \in Procs : noop[q]

=============================================================================
