------------------------------ MODULE HyperCtl ------------------------------
(***************************************************************************)
(* The control channel of one VM: vm.Connect, run by the hello handler,    *)
(* and the hyper handlers of the clients attached to the VM (proxy/vm.go   *)
(* and the vendored hyperstart package).  A command is written and its     *)
(* answer read with ctlMutex held; WaitForReady reads the READY message of *)
(* a booting guest under the same mutex.                                   *)
(*                                                                         *)
(* The model starts when the hello handler has put the VM in proxy.vms:    *)
(* from then on attach finds it, connected or not.                         *)
(***************************************************************************)
EXTENDS Integers, Sequences

CONSTANTS
    Clients,      \* clients that send hyper commands
    EarlyAttach,  \* clients may attach before the hello has been answered
    MaxCmds       \* bound: commands of one client

Nobody == "nobody"

ASSUME ClientsAssumption == Clients \cap {"free", "hello", Nobody} = {}
ASSUME EarlyAssumption == EarlyAttach \in BOOLEAN
ASSUME MaxCmdsAssumption == MaxCmds \in Nat

VARIABLES
    hello,     \* where the hello handler is in vm.Connect
    ctl,       \* hyperHandler.ctl
    ctlMutex,  \* its holder
    pc,        \* where the hyper handler of a client is
    cmds,      \* number of commands a client has issued
    result,    \* the response of its last command
    toGuest,   \* commands on the control channel
    toProxy,   \* messages of the guest on the control channel
    guest,     \* hyperstart in the VM
    panicked   \* the proxy process has died

proxyVars == <<hello, ctl, ctlMutex>>
clientVars == <<pc, cmds, result>>
guestVars == <<toGuest, toProxy, guest>>
vars == <<proxyVars, clientVars, guestVars, panicked>>

\* A message of the guest: an answer belongs to the k-th command of client c,
\* READY, NEXT and the ERROR of a guest that fails to boot to nobody's.
Command == [c : Clients, k : 1..MaxCmds]
Message ==
    [code : {"READY", "NEXT", "ACK", "ERROR"}, c : Clients \cup {Nobody}, k : 0..MaxCmds]
Unsolicited(code) == [code |-> code, c |-> Nobody, k |-> 0]

\* The response to a hyper request, with the answer it is made from.
Response ==
    [status : {"none", "success", "error"}, c : Clients \cup {Nobody}, k : 0..MaxCmds]
Unanswered(status) == [status |-> status, c |-> Nobody, k |-> 0]

Init ==
    /\ hello = "dial-console"
    /\ ctl = "nil"
    /\ ctlMutex = "free"
    /\ pc = [c \in Clients |-> "idle"]
    /\ cmds = [c \in Clients |-> 0]
    /\ result = [c \in Clients |-> Unanswered("none")]
    /\ toGuest = <<>>
    /\ toProxy = <<>>
    /\ guest = "booting"
    /\ panicked = FALSE

-----------------------------------------------------------------------------
(***************************************************************************)
(* vm.Connect                                                              *)
(***************************************************************************)

\* net.Dial of the console socket, if the hello names one.
HelloDialConsole ==
    /\ ~ panicked /\ hello = "dial-console"
    /\ \/ hello' = "dial-ctl"
       \/ guest = "gone" /\ hello' = "failed"
    /\ UNCHANGED <<ctl, ctlMutex, clientVars, guestVars, panicked>>

\* net.Dial of the control socket; it fails when qemu is gone.
HelloDialCtl ==
    /\ ~ panicked /\ hello = "dial-ctl"
    /\ \/ guest # "gone" /\ ctl' = "open" /\ hello' = "dial-io"
       \/ guest = "gone" /\ hello' = "failed" /\ UNCHANGED ctl
    /\ UNCHANGED <<ctlMutex, clientVars, guestVars, panicked>>

\* net.Dial of the I/O socket; a failure closes the control socket.
HelloDialIo ==
    /\ ~ panicked /\ hello = "dial-io"
    /\ \/ guest # "gone" /\ hello' = "lock" /\ UNCHANGED ctl
       \/ guest = "gone" /\ hello' = "failed" /\ ctl' = "closed"
    /\ UNCHANGED <<ctlMutex, clientVars, guestVars, panicked>>

HelloLock ==
    /\ ~ panicked /\ hello = "lock"
    /\ ctlMutex = "free"
    /\ ctlMutex' = "hello"
    /\ hello' = "ready"
    /\ UNCHANGED <<ctl, clientVars, guestVars, panicked>>

\* expectReadingCmd, run by WaitForReady and by SendCtlMessage with ctlMutex
\* held, reads messages until it can return.  A read error makes it return no
\* message and no error.
ReadsMessage == ctl = "open" /\ toProxy # <<>>
ReadFails == ctl = "closed" \/ (toProxy = <<>> /\ guest = "gone")
Expecting(code) ==
    \/ code = "READY" /\ hello = "ready"
    \/ code = "ACK" /\ \E c \in Clients : pc[c] = "read"

\* A NEXT or a READY that is not the expected message is dropped.
SkipMessage ==
    /\ ~ panicked /\ ReadsMessage
    /\ Head(toProxy).code \in {"NEXT", "READY"}
    /\ \E code \in {"READY", "ACK"} \ {Head(toProxy).code} : Expecting(code)
    /\ toProxy' = Tail(toProxy)
    /\ UNCHANGED <<toGuest, guest, proxyVars, clientVars, panicked>>

\* Mutant of HelloRead: a read error is tried again.
HelloReadRetries ==
    /\ ~ panicked /\ hello = "ready"
    /\ \/ /\ ReadsMessage
          /\ toProxy' = Tail(toProxy)
          /\ \/ /\ Head(toProxy).code = "READY"
                /\ hello' = "ok" /\ ctlMutex' = "free"
             \/ /\ Head(toProxy).code \notin {"NEXT", "READY"}
                /\ hello' = "close" /\ ctlMutex' = "free"
       \/ /\ ReadFails
          /\ UNCHANGED <<hello, ctlMutex, toProxy>>
    /\ UNCHANGED <<ctl, toGuest, guest, clientVars, panicked>>

\* WaitForReady, which releases ctlMutex when it returns.
HelloRead ==
    /\ ~ panicked /\ hello = "ready"
    /\ \/ /\ ReadsMessage
          /\ toProxy' = Tail(toProxy)
          /\ \/ Head(toProxy).code = "READY" /\ hello' = "ok"
             \/ Head(toProxy).code \notin {"NEXT", "READY"} /\ hello' = "close"
       \/ ReadFails /\ hello' = "ok" /\ UNCHANGED toProxy
    /\ ctlMutex' = "free"
    /\ UNCHANGED <<ctl, toGuest, guest, clientVars, panicked>>

\* vm.Connect closes the sockets after an error of WaitForReady, without ctlMutex.
HelloClose ==
    /\ ~ panicked /\ hello = "close"
    /\ ctl' = "closed" /\ hello' = "failed"
    /\ UNCHANGED <<ctlMutex, clientVars, guestVars, panicked>>

\* vm.Close closes the sockets once the I/O channel reports the end of qemu.
CloseCtl ==
    /\ ~ panicked /\ hello = "ok" /\ guest = "gone" /\ ctl = "open"
    /\ ctl' = "closed"
    /\ UNCHANGED <<hello, ctlMutex, clientVars, guestVars, panicked>>

(***************************************************************************)
(* hyperHandler and SendCtlMessage                                         *)
(***************************************************************************)

\* A client attached to the VM sends a hyper request.
Hyper(c) ==
    /\ ~ panicked /\ pc[c] = "idle"
    /\ cmds[c] < MaxCmds
    /\ EarlyAttach \/ hello = "ok"
    /\ cmds' = [cmds EXCEPT ![c] = @ + 1]
    /\ result' = [result EXCEPT ![c] = Unanswered("none")]
    /\ pc' = [pc EXCEPT ![c] = "lock"]
    /\ UNCHANGED <<proxyVars, guestVars, panicked>>

\* Mutant of HyperLock: the mutex is not waited for.
HyperLockUnlocked(c) ==
    /\ ~ panicked /\ pc[c] = "lock"
    /\ ctlMutex' = c
    /\ pc' = [pc EXCEPT ![c] = "write"]
    /\ UNCHANGED <<hello, ctl, cmds, result, guestVars, panicked>>

HyperLock(c) ==
    /\ ~ panicked /\ pc[c] = "lock"
    /\ ctlMutex = "free"
    /\ ctlMutex' = c
    /\ pc' = [pc EXCEPT ![c] = "write"]
    /\ UNCHANGED <<hello, ctl, cmds, result, guestVars, panicked>>

\* Mutant of Return: the mutex is not released after an error.
ReturnLocked(c, r) ==
    /\ ctlMutex' = IF r.status = "error" THEN ctlMutex ELSE "free"
    /\ pc' = [pc EXCEPT ![c] = "idle"]
    /\ result' = [result EXCEPT ![c] = r]

\* The deferred unlock, and the response of the handler.
Return(c, r) ==
    /\ ctlMutex' = "free"
    /\ pc' = [pc EXCEPT ![c] = "idle"]
    /\ result' = [result EXCEPT ![c] = r]

\* Unknown command, or message longer than hyperstart's buffer.
HyperReject(c) ==
    /\ ~ panicked /\ pc[c] = "write"
    /\ Return(c, Unanswered("error"))
    /\ UNCHANGED <<hello, ctl, cmds, guestVars, panicked>>

\* h.ctl.Write: on a nil connection it is a nil dereference.
HyperWrite(c) ==
    /\ ~ panicked /\ pc[c] = "write"
    /\ \/ /\ ctl = "nil"
          /\ panicked' = TRUE
          /\ UNCHANGED <<toGuest, ctlMutex, pc, result>>
       \/ /\ ctl = "open" /\ guest # "gone"
          /\ toGuest' = Append(toGuest, [c |-> c, k |-> cmds[c]])
          /\ pc' = [pc EXCEPT ![c] = "read"]
          /\ UNCHANGED <<ctlMutex, result, panicked>>
       \/ /\ ctl = "closed" \/ (ctl = "open" /\ guest = "gone")
          /\ Return(c, Unanswered("error"))
          /\ UNCHANGED <<toGuest, panicked>>
    /\ UNCHANGED <<hello, ctl, cmds, toProxy, guest>>

\* expectReadingCmd(ACK).  The fields of the answer are kept as history.
HyperRead(c) ==
    /\ ~ panicked /\ pc[c] = "read"
    /\ \/ /\ ReadsMessage
          /\ toProxy' = Tail(toProxy)
          /\ LET m == Head(toProxy) IN
               \/ m.code = "ACK" /\ Return(c, [status |-> "success", c |-> m.c, k |-> m.k])
               \/ m.code = "ERROR" /\ Return(c, [status |-> "error", c |-> m.c, k |-> m.k])
       \/ /\ ReadFails
          /\ Return(c, Unanswered("success"))
          /\ UNCHANGED toProxy
    /\ UNCHANGED <<hello, ctl, cmds, toGuest, guest, panicked>>

(***************************************************************************)
(* hyperstart: READY once it has booted, then one ACK or ERROR per command *)
(***************************************************************************)

GuestBoot ==
    /\ guest = "booting" /\ ctl = "open"
    /\ guest' = "up"
    /\ toProxy' = Append(toProxy, Unsolicited("READY"))
    /\ UNCHANGED <<toGuest, proxyVars, clientVars, panicked>>

GuestBootFails ==
    /\ guest = "booting" /\ ctl = "open"
    /\ guest' = "gone"
    /\ toProxy' = Append(toProxy, Unsolicited("ERROR"))
    /\ UNCHANGED <<toGuest, proxyVars, clientVars, panicked>>

GuestNext ==
    /\ guest = "up" /\ toGuest # <<>>
    /\ guest' = "busy"
    /\ toProxy' = Append(toProxy, Unsolicited("NEXT"))
    /\ UNCHANGED <<toGuest, proxyVars, clientVars, panicked>>

GuestAnswer(code) ==
    /\ guest \in {"up", "busy"} /\ toGuest # <<>>
    /\ guest' = "up"
    /\ toGuest' = Tail(toGuest)
    /\ LET cmd == Head(toGuest) IN
         toProxy' = Append(toProxy, [code |-> code, c |-> cmd.c, k |-> cmd.k])
    /\ UNCHANGED <<proxyVars, clientVars, panicked>>

GuestExit ==
    /\ guest # "gone"
    /\ guest' = "gone"
    /\ UNCHANGED <<toGuest, toProxy, proxyVars, clientVars, panicked>>

-----------------------------------------------------------------------------
Hello ==
    \/ HelloDialConsole \/ HelloDialCtl \/ HelloDialIo
    \/ HelloLock \/ HelloRead \/ HelloClose
Handler(c) == HyperLock(c) \/ HyperReject(c) \/ HyperWrite(c) \/ HyperRead(c)
GuestWork == GuestBoot \/ GuestNext \/ GuestAnswer("ACK") \/ GuestAnswer("ERROR")

Next ==
    \/ Hello \/ SkipMessage \/ CloseCtl
    \/ \E c \in Clients : Hyper(c) \/ Handler(c)
    \/ GuestWork \/ GuestBootFails \/ GuestExit

Spec == Init /\ [][Next]_vars

\* The goroutines run when they can, and a guest that does not exit boots and
\* answers the commands it receives.
Fairness ==
    /\ WF_vars(Hello) /\ WF_vars(SkipMessage) /\ WF_vars(GuestWork)
    /\ \A c \in Clients : WF_vars(Handler(c))

FairSpec == Spec /\ Fairness

-----------------------------------------------------------------------------
\* The type invariant of the control channel and of the handlers using it.
TypeOK ==
    /\ hello \in {"dial-console", "dial-ctl", "dial-io", "lock", "ready", "close", "ok",
                 "failed"}
    /\ ctl \in {"nil", "open", "closed"}
    /\ ctlMutex \in Clients \cup {"free", "hello"}
    /\ pc \in [Clients -> {"idle", "lock", "write", "read"}]
    /\ cmds \in [Clients -> 0..MaxCmds]
    /\ result \in [Clients -> Response]
    /\ toGuest \in Seq(Command)
    /\ toProxy \in Seq(Message)
    /\ guest \in {"booting", "up", "busy", "gone"}
    /\ panicked \in BOOLEAN

Answers == {i \in DOMAIN toProxy : toProxy[i].c # Nobody}

\* "We can only allow a single transaction (write command + read answer) at a
\* time" (ctlMutex): as long as the guest lives, the channel holds one command
\* or one answer at most, and it belongs to the handler holding the mutex.
OneTransaction ==
    guest # "gone" =>
        /\ \A i \in DOMAIN toGuest :
              /\ i = 1 /\ Answers = {}
              /\ ctlMutex = toGuest[i].c /\ pc[ctlMutex] = "read"
        /\ \A i, j \in Answers :
              i = j /\ ctlMutex = toProxy[i].c /\ pc[ctlMutex] = "read"

\* The answer a hyper handler returns is the guest's answer to the command
\* that handler wrote, never the one to a command of another client.
AnswerMatches ==
    \A c \in Clients :
        result[c].c # Nobody => result[c].c = c /\ result[c].k = cmds[c]

\* No command is sent before the hello of the VM has been answered.
Orderly == [](\A c \in Clients : cmds[c] > 0 => hello \in {"ok", "failed"})

\* A hello is answered, whatever the guest and the attached clients do, if no
\* client attached early: its command may hold ctlMutex for ever.
HelloAnswered ==
    Orderly => (hello = "dial-console" ~> hello \in {"ok", "failed"} \/ panicked)

\* "requests being similar to a function call and responses encoding the result
\* of the call" (proxy/README.md): every hyper request is answered, under the same
\* condition.
HyperAnswered ==
    Orderly => \A c \in Clients : pc[c] = "lock" ~> pc[c] = "idle" \/ panicked

\* "the response has the result of a command, with success indicating if the
\* request has succeeded" (proxy/README.md): a hyper command that is reported
\* as successful has been acknowledged by the guest.
SuccessIsAcked ==
    \A c \in Clients : result[c].status = "success" => result[c].c = c
=============================================================================
