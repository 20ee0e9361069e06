------------------------------- MODULE Launch -------------------------------
(***************************************************************************)
(* How the runtime starts processes: the three functions that fork a shim  *)
(* child, hand it its descriptors over a pipe and a socket, and learn from *)
(* a pipe the child closes whether it started.                             *)
(*   "vm"    cc_oci_vm_launch: a standalone container or a pod sandbox; it *)
(*           forks the hypervisor too and runs the prestart hooks;         *)
(*   "pod"   cc_pod_container_create: a container of an existing pod;      *)
(*   "exec"  cc_oci_vm_connect with cc_oci_exec_shim: a further process.   *)
(* The three share most of their steps, so a command is the sequence todo  *)
(* of the steps it still has to take, and a step is one action.  `ret' is  *)
(* the C variable: a failed step that jumps to `out' without setting it    *)
(* returns whatever the last successful step left there.                   *)
(***************************************************************************)
EXTENDS Naturals, Sequences

CONSTANTS
  Kinds,     \* the commands: a subset of {"vm", "pod", "exec"}
  MaxHooks,  \* bound: the number of prestart hooks
  Faults     \* what may go wrong, see FaultNames

\* "syscall" a pipe, a socket or a fork; "proxy" the connection, or an answer
\* that is an error; "lost" the end of the connection, once there is one;
\* "file" the state or the pid file; "hook" a hook; "net" the network set-up;
\* "args" the hypervisor's command line; "setup" a child's own set-up;
\* "exec" execvp; "monitor" the file monitor; "vm" the hypervisor ends;
\* "crash" the runtime is killed.
FaultNames == {"syscall", "proxy", "lost", "file", "hook", "net", "args",
               "setup", "exec", "monitor", "vm", "crash"}

ASSUME LaunchAssumption ==
  /\ Kinds \subseteq {"vm", "pod", "exec"}
  /\ MaxHooks \in Nat
  /\ Faults \subseteq FaultNames

VARIABLES
  config,   \* the command and its options
  todo,     \* the steps the command still has to take
  ret,      \* the C variable ret
  result,   \* what the command has returned
  fds,      \* the parent's ends of the pipes and of the socket
  hyp,      \* the hypervisor child
  hypArgs,  \* hypervisor_args_pipe
  shim,     \* the shim child
  shimArgs, \* shim_args_pipe
  shimSock, \* shim_socket
  got,      \* what the shim child has read
  pid,      \* config->state.workload_pid
  signalled,\* the processes the command has sent a signal
  proxy,    \* the connection to the proxy, and what the proxy granted
  hooks,    \* the prestart hooks
  file,     \* the state file: "none", "first" or "full"
  pidfile   \* the pid file exists

vars == <<config, todo, ret, result, fds, hyp, hypArgs, shim, shimArgs,
          shimSock, got, pid, signalled, proxy, hooks, file, pidfile>>

\* What a step of the command itself leaves alone unless it says otherwise.
child == <<hyp, hypArgs, shim, shimArgs, shimSock, got>>
files == <<file, pidfile>>
parent == <<config, todo, ret, result, fds, pid, signalled, proxy, hooks,
            file, pidfile>>

kind == config.kind

-----------------------------------------------------------------------------
(* The order of the steps.                                                  *)

\* Mutant of VmSteps: the pid file is written before the shim is waited for.
VmStepsPidFirst ==
  <<"connect", "fork", "shim", "first", "hooks", "net", "args", "length",
    "argv", "hyperr", "ready", "startpod", "pidfile", "proxyfd", "allocate",
    "iobase", "iofd", "shimerr", "full", "disconnect", "out">>

VmSteps ==
  <<"connect", "fork", "shim", "first", "hooks", "net", "args", "length",
    "argv", "hyperr", "ready", "startpod", "proxyfd", "allocate", "iobase",
    "iofd", "shimerr", "full", "disconnect", "pidfile", "out">>

\* Mutant of PodSteps: the two numbers are sent in the wrong order.
PodStepsSwapped ==
  <<"connect", "attach", "shim", "pidfile", "allocate", "iobase", "proxyfd",
    "iofd", "shimerr", "full", "disconnect", "out">>

PodSteps ==
  <<"connect", "attach", "shim", "pidfile", "proxyfd", "allocate", "iobase",
    "iofd", "shimerr", "full", "disconnect", "out">>

ExecSteps ==
  <<"connect", "attach", "allocate", "execcmd", "shim", "proxyfd", "iobase",
    "iofd", "shimerr", "wait", "pidfile", "out">>

Steps(k) == CASE k = "vm" -> VmSteps [] k = "pod" -> PodSteps
              [] k = "exec" -> ExecSteps

\* The steps of cc_oci_exec_shim, whose failure signals workload_pid.
ExecShimSteps == {"shim", "proxyfd", "iobase", "iofd", "shimerr"}

At(s) == todo # <<>> /\ Head(todo) = s

May(f) == f \in Faults

\* Go on with the next step.
Advance == todo' = Tail(todo)

\* goto out: ret keeps the value it has.
GotoOut == todo' = IF kind = "exec" /\ Head(todo) \in ExecShimSteps
                   THEN <<"killout">> ELSE <<"out">>

Fail == GotoOut /\ ret' = FALSE

-----------------------------------------------------------------------------
(* The pipes.  A pipe reads as closed when nobody holds its write end.      *)

\* The shim child inherits the descriptors the parent holds when it forks, and
\* drops them when it runs the shim or ends.
ShimBlocked == {"proxyfd", "iobase", "iofd", "setup"}

\* Mutant of HypArgsEof: the hypervisor child keeps its own write end.
HypArgsEofNever == FALSE

\* Only the parent and the shim child, never the hypervisor child, have the
\* write end of the pipe with the hypervisor's arguments.
HypArgsEof == "hypArgs" \notin fds /\ shim \notin ShimBlocked

\* The shim child closes its own copy of the write end first thing.
ShimArgsEof == "shimArgs" \notin fds

ShimSockEof == "shimSock" \notin fds

\* Children that have ended: "failed" after writing "E" to the error pipe,
\* "aborted" with nothing written, "killed" by a signal.
Ended == {"failed", "aborted", "killed"}

\* The hypervisor child's end of the error pipe is closed by exec, by the end
\* of the process, and before both by cc_oci_close_fds unless detached.
HypErrClosed == /\ \/ hyp \in {"vm", "up", "gone"} \cup Ended
                   \/ hyp \in {"exec", "noexec"} /\ ~config.detached
                /\ "hypErrW" \notin fds

ShimErrClosed == shim \in {"exec", "shim", "done"} \cup Ended

-----------------------------------------------------------------------------
Options == [kind : Kinds, detached : BOOLEAN, pidfile : BOOLEAN, tty : BOOLEAN]

NoProxy == [up |-> FALSE, lost |-> FALSE, vm |-> FALSE, io |-> FALSE]

NoHooks == [n |-> 0, at |-> 0, wait |-> FALSE, status |-> <<>>,
            left |-> {}, failed |-> FALSE]

Init ==
  /\ config \in Options
  /\ todo = Steps(kind)
  /\ ret = FALSE
  /\ result = "none"
  /\ fds = {}
  /\ hyp = "none" /\ hypArgs = <<>>
  /\ shim = "none" /\ shimArgs = <<>> /\ shimSock = <<>>
  /\ got = [connected |-> FALSE, proxy |-> "none", base |-> "none", io |-> "none"]
  /\ pid = IF kind = "exec" THEN "container" ELSE "none"
  /\ signalled = {}
  /\ proxy = NoProxy
  /\ hooks \in {[NoHooks EXCEPT !.n = n] :
                   n \in IF kind = "vm" THEN 0..MaxHooks ELSE {0}}
  /\ file = "none" /\ pidfile = FALSE

-----------------------------------------------------------------------------
(* The command.                                                             *)

Connect ==
  /\ At("connect")
  /\ \/ Advance /\ proxy' = [proxy EXCEPT !.up = TRUE]
     \/ May("proxy") /\ GotoOut /\ UNCHANGED proxy
  /\ UNCHANGED <<config, ret, result, fds, pid, signalled, hooks, files, child>>

\* A request returns with the proxy's answer.  When the connection ends under
\* it, or has ended before, it does not return at all: the callbacks that fail
\* to write the request or to read the first bytes of the answer do not leave
\* the main loop, and the one that reads the rest takes the end of the
\* connection for an empty portion and goes on reading.
Answered == ~proxy.lost

Attach ==
  /\ At("attach") /\ Answered
  /\ \/ Advance /\ proxy' = [proxy EXCEPT !.vm = TRUE]
     \/ May("proxy") /\ GotoOut /\ UNCHANGED proxy
  /\ UNCHANGED <<config, ret, result, fds, pid, signalled, hooks, files, child>>

\* Mutant of ForkHypervisor: the parent keeps the child's end of the error pipe.
ForkHypervisorOpen ==
  /\ At("fork")
  /\ \/ /\ Advance
        /\ hyp' = "start"
        /\ fds' = fds \cup {"hypArgs", "hypErr", "hypErrW"}
     \/ May("syscall") /\ GotoOut /\ UNCHANGED <<hyp, fds>>
  /\ UNCHANGED <<config, ret, result, hypArgs, shim, shimArgs, shimSock, got,
                 pid, signalled, proxy, hooks, files>>

\* The two pipes and the hypervisor child; the parent closes the ends it has
\* no use for before it forks again.
ForkHypervisor ==
  /\ At("fork")
  /\ \/ /\ Advance
        /\ hyp' = "start"
        /\ fds' = fds \cup {"hypArgs", "hypErr"}
     \/ May("syscall") /\ GotoOut /\ UNCHANGED <<hyp, fds>>
  /\ UNCHANGED <<config, ret, result, hypArgs, shim, shimArgs, shimSock, got,
                 pid, signalled, proxy, hooks, files>>

\* cc_shim_launch.  A failure to make the pipes leaves workload_pid alone, a
\* failure to fork makes it -1.
ShimLaunch ==
  /\ At("shim")
  /\ \/ /\ Advance
        /\ shim' = "proxyfd"
        /\ fds' = fds \cup {"shimArgs", "shimSock", "shimErr"}
        /\ pid' = "shim"
        /\ got' = [got EXCEPT !.connected = proxy.up]
     \/ /\ May("syscall") /\ GotoOut
        /\ pid' \in {pid, "failed"}
        /\ UNCHANGED <<shim, fds, got>>
  /\ UNCHANGED <<config, ret, result, hyp, hypArgs, shimArgs, shimSock,
                 signalled, proxy, hooks, files>>

\* cc_oci_state_file_create, before the hooks and again with all the details.
CreateStateFile(s) ==
  /\ At(s)
  /\ \/ Advance /\ ret' = TRUE /\ file' = s
     \/ May("file") /\ Fail /\ UNCHANGED file
  /\ UNCHANGED <<config, result, fds, pid, signalled, proxy, hooks, pidfile,
                 child>>

-----------------------------------------------------------------------------
(* cc_run_hooks, cc_run_hook.  The hooks' exits are watched by callbacks of *)
(* one main loop.  A hook that has closed its input makes the write of the  *)
(* state fail with EPIPE, which counts as success; its watch stays behind.  *)

Running(h) == hooks.status[h] = "run"

NextHook == hooks.at < hooks.n /\ ~hooks.failed /\ ~hooks.wait

\* Spawn the next hook and write the state to its input.
HookSpawn ==
  /\ At("hooks") /\ NextHook
  /\ \/ hooks' = [hooks EXCEPT !.at = @ + 1, !.wait = TRUE,
                               !.status = Append(@, "run")]
     \/ \E s \in {"run", "ok", "bad"} :
           /\ May("hook")
           /\ hooks' = [hooks EXCEPT !.at = @ + 1, !.left = @ \cup {hooks.at + 1},
                                     !.status = Append(@, s)]
     \/ May("hook") /\ hooks' = [hooks EXCEPT !.failed = TRUE]
  /\ UNCHANGED <<config, todo, ret, result, fds, pid, signalled, proxy, files,
                 child>>

\* The loop ends when the watch of this hook fires, or one left behind by an
\* earlier hook: that callback writes through a pointer to a variable that is
\* gone, which may or may not be the place of the new hook's exit code (-1
\* until it is set).
HookWait ==
  /\ At("hooks") /\ hooks.wait
  /\ \/ /\ ~Running(hooks.at)
        /\ hooks' = [hooks EXCEPT !.wait = FALSE,
                                  !.failed = hooks.status[hooks.at] = "bad"]
     \/ \E h \in hooks.left :
           /\ ~Running(h)
           /\ \E late \in {hooks.status[h] = "bad", TRUE} :
                 hooks' = [hooks EXCEPT !.wait = FALSE, !.failed = late,
                                        !.left = (@ \ {h}) \cup {hooks.at}]
  /\ UNCHANGED <<config, todo, ret, result, fds, pid, signalled, proxy, files,
                 child>>

\* The result of the hooks is only logged.
HooksDone ==
  /\ At("hooks") /\ ~hooks.wait /\ ~NextHook
  /\ Advance
  /\ UNCHANGED <<config, ret, result, fds, pid, signalled, proxy, hooks, files,
                 child>>

HookExit ==
  /\ \E h \in 1..Len(hooks.status), s \in {"ok", "bad"} :
        /\ Running(h)
        /\ s = "bad" => May("hook")
        /\ hooks' = [hooks EXCEPT !.status[h] = s]
  /\ UNCHANGED <<config, todo, ret, result, fds, pid, signalled, proxy, files,
                 child>>

-----------------------------------------------------------------------------
\* A failure jumps to child_failed, which is the hypervisor child's label: the
\* parent exits on the spot, signals nobody and leaves the closing to the kernel.
SetupNetwork ==
  /\ At("net")
  /\ \/ Advance /\ UNCHANGED <<result, fds>>
     \/ May("net") /\ todo' = <<>> /\ result' = "exit" /\ fds' = {}
  /\ UNCHANGED <<config, ret, pid, signalled, proxy, hooks, files, child>>

BuildArgs ==
  /\ At("args")
  /\ \/ Advance /\ ret' = TRUE
     \/ May("args") /\ Fail
  /\ UNCHANGED <<config, result, fds, pid, signalled, proxy, hooks, files, child>>

\* The length and the arguments, written one after the other.  SIGPIPE is
\* ignored: with nobody to read, the write fails.
SendHypervisor(s) ==
  /\ At(s)
  /\ \/ hyp \notin Ended /\ Advance /\ hypArgs' = Append(hypArgs, s)
     \/ hyp \in Ended /\ GotoOut /\ UNCHANGED hypArgs
  /\ UNCHANGED <<config, ret, result, fds, hyp, shim, shimArgs, shimSock, got,
                 pid, signalled, proxy, hooks, files>>

\* Mutant of ReadHypervisorError: what is read is not looked at.
ReadHypervisorErrorBlind ==
  /\ At("hyperr") /\ HypErrClosed /\ Advance
  /\ UNCHANGED <<config, ret, result, fds, pid, signalled, proxy, hooks, files,
                 child>>

\* Data on the error pipe is a failure, its end is success.
ReadHypervisorError ==
  /\ At("hyperr") /\ HypErrClosed
  /\ \/ hyp # "failed" /\ Advance /\ UNCHANGED ret
     \/ hyp = "failed" /\ Fail
  /\ UNCHANGED <<config, result, fds, pid, signalled, proxy, hooks, files, child>>

\* cc_proxy_wait_until_ready: wait for the control socket of the agent, with no
\* time limit, and say hello.  Without a file monitor there is no hello, and no
\* error either.
WaitUntilReady ==
  /\ At("ready")
  /\ \/ hyp = "up" /\ Answered /\ Advance /\ proxy' = [proxy EXCEPT !.vm = TRUE]
     \/ hyp \in {"up", "gone"} /\ Answered /\ (hyp = "gone" \/ May("proxy"))
        /\ GotoOut /\ UNCHANGED proxy
     \/ hyp \notin {"up", "gone"} /\ May("monitor") /\ Advance /\ UNCHANGED proxy
  /\ UNCHANGED <<config, ret, result, fds, pid, signalled, hooks, files, child>>

\* A command for the agent of the VM: startpod, or execcmd.
HyperCommand(s) ==
  /\ At(s) /\ Answered
  /\ \/ proxy.vm /\ hyp # "gone" /\ Advance
     \/ (~proxy.vm \/ hyp = "gone" \/ May("proxy")) /\ GotoOut
  /\ UNCHANGED <<config, ret, result, fds, pid, signalled, proxy, hooks, files,
                 child>>

AllocateIo ==
  /\ At("allocate") /\ Answered
  /\ \/ Advance /\ proxy' = [proxy EXCEPT !.io = TRUE]
     \/ May("proxy") /\ GotoOut /\ UNCHANGED proxy
  /\ UNCHANGED <<config, ret, result, fds, pid, signalled, hooks, files, child>>

\* The number of the proxy's descriptor and the first sequence number, over the
\* pipe with the shim's arguments.
SendShim(s) ==
  /\ At(s)
  /\ \/ shim \notin Ended /\ Advance /\ shimArgs' = Append(shimArgs, s)
     \/ shim \in Ended /\ GotoOut /\ UNCHANGED shimArgs
  /\ UNCHANGED <<config, ret, result, fds, hyp, hypArgs, shim, shimSock, got,
                 pid, signalled, proxy, hooks, files>>

\* The I/O descriptor, over the socket: without a GLib connection for it ret is
\* left alone, a failed send makes it FALSE.  The two create functions then
\* close the argument pipe, the exec function keeps it until it returns.
SendIoFd ==
  /\ At("iofd")
  /\ \/ /\ shim \notin Ended
        /\ Advance
        /\ shimSock' = Append(shimSock, "iofd")
        /\ ret' = (kind # "exec" \/ ret)
        /\ fds' = IF kind = "exec" THEN fds ELSE fds \ {"shimArgs"}
     \/ /\ shim \in Ended \/ May("syscall")
        /\ Fail
        /\ UNCHANGED <<shimSock, fds>>
     \/ May("syscall") /\ GotoOut /\ UNCHANGED <<ret, shimSock, fds>>
  /\ UNCHANGED <<config, result, hyp, hypArgs, shim, shimArgs, got, pid,
                 signalled, proxy, hooks, files>>

\* As with the hypervisor.  cc_oci_exec_shim returns here and closes its ends.
ReadShimError ==
  /\ At("shimerr") /\ ShimErrClosed
  /\ \/ /\ shim # "failed" /\ Advance
        /\ ret' = (kind = "exec" \/ ret)
        /\ fds' = IF kind = "exec" THEN {} ELSE fds
     \/ shim = "failed" /\ Fail /\ UNCHANGED fds
  /\ UNCHANGED <<config, result, pid, signalled, proxy, hooks, files, child>>

\* In attach mode cc_oci_vm_connect waits for the shim and its exit code.
WaitShim ==
  /\ At("wait")
  /\ \/ config.tty /\ ~config.detached /\ shim \in Ended /\ Fail
     \/ /\ config.tty /\ ~config.detached => shim = "done"
        /\ Advance /\ UNCHANGED ret
  /\ UNCHANGED <<config, result, fds, pid, signalled, proxy, hooks, files, child>>

\* The result of the disconnection is kept in ret; no step is skipped.
Disconnect ==
  /\ At("disconnect")
  /\ Advance
  /\ \/ ret' = TRUE /\ proxy' = [proxy EXCEPT !.up = FALSE]
     \/ May("proxy") /\ ret' = FALSE /\ UNCHANGED proxy
  /\ UNCHANGED <<config, result, fds, pid, signalled, hooks, files, child>>

CreatePidFile ==
  /\ At("pidfile")
  /\ \/ config.pidfile /\ Advance /\ ret' = TRUE /\ pidfile' = TRUE
     \/ config.pidfile /\ May("file") /\ Fail /\ UNCHANGED pidfile
     \/ ~config.pidfile /\ Advance /\ UNCHANGED <<ret, pidfile>>
  /\ UNCHANGED <<config, result, fds, pid, signalled, proxy, hooks, file, child>>

\* A process that has ended is not there to receive a signal.
Signalled(p) == IF p = "shim" /\ shim \notin Ended \cup {"done"}
                THEN "killed" ELSE shim

\* Mutant of Out: the shim is not killed.
OutSpares ==
  /\ At("out")
  /\ todo' = <<>>
  /\ result' = IF ret THEN "true" ELSE "false"
  /\ fds' = {}
  /\ UNCHANGED <<config, ret, hyp, hypArgs, shim, shimArgs, shimSock, got, pid,
                 signalled, proxy, hooks, files>>

\* The exits.  Only cc_oci_vm_launch checks that it forked the process it is
\* about to kill; cc_pod_container_create kills nobody.
Out ==
  /\ At("out")
  /\ todo' = <<>>
  /\ result' = IF ret THEN "true" ELSE "false"
  /\ fds' = {}
  /\ \/ /\ kind = "vm" /\ ~ret /\ pid = "shim"
        /\ shim' = Signalled(pid) /\ signalled' = {pid}
     \/ /\ ~(kind = "vm" /\ ~ret /\ pid = "shim")
        /\ UNCHANGED <<shim, signalled>>
  /\ UNCHANGED <<config, ret, hyp, hypArgs, shimArgs, shimSock, got, pid, proxy,
                 hooks, files>>

\* cc_oci_exec_shim sends SIGTERM to workload_pid, whatever it is.
KillOut ==
  /\ At("killout")
  /\ todo' = <<>>
  /\ result' = "false"
  /\ fds' = {}
  /\ shim' = Signalled(pid)
  /\ signalled' = {pid}
  /\ UNCHANGED <<config, ret, hyp, hypArgs, shimArgs, shimSock, got, pid, proxy,
                 hooks, files>>

\* The runtime is killed; the kernel closes its descriptors.
Crash ==
  /\ May("crash") /\ todo # <<>>
  /\ todo' = <<>> /\ result' = "killed" /\ fds' = {}
  /\ UNCHANGED <<config, ret, pid, signalled, proxy, hooks, files, child>>

\* The proxy ends, or closes the connection.
ProxyEnds ==
  /\ May("lost") /\ proxy.up /\ ~proxy.lost
  /\ proxy' = [proxy EXCEPT !.lost = TRUE]
  /\ UNCHANGED <<config, todo, ret, result, fds, pid, signalled, hooks, files,
                 child>>

-----------------------------------------------------------------------------
(* The hypervisor child.                                                    *)

HypStep == UNCHANGED <<parent, shim, shimArgs, shimSock, got>>

HypStart ==
  /\ hyp = "start"
  /\ \/ hyp' = "length"
     \/ May("setup") /\ hyp' = "failed"
  /\ UNCHANGED hypArgs /\ HypStep

\* Only an error of read is a failure: the end of the pipe is read as length 0,
\* or as empty arguments, and there is no program to execute then.
HypReadLength ==
  /\ hyp = "length"
  /\ \/ /\ hypArgs # <<>> /\ hypArgs' = Tail(hypArgs)
        /\ \/ hyp' = "argv"
           \/ May("args") /\ hyp' = "failed"
     \/ hypArgs = <<>> /\ HypArgsEof /\ hyp' = "noargs" /\ UNCHANGED hypArgs
  /\ HypStep

HypReadArgs ==
  /\ hyp = "argv"
  /\ \/ hypArgs # <<>> /\ hypArgs' = Tail(hypArgs) /\ hyp' = "setup"
     \/ hypArgs = <<>> /\ HypArgsEof /\ hyp' = "noargs" /\ UNCHANGED hypArgs
  /\ HypStep

\* cc_oci_setup_child.  Unless detached it closes every descriptor, the error
\* pipe included: what fails afterwards is not reported.
HypSetup ==
  /\ \/ hyp = "setup" /\ hyp' = "exec"
     \/ hyp = "noargs" /\ hyp' = "noexec"
     \/ /\ hyp \in {"setup", "noargs"} /\ May("setup")
        /\ hyp' = IF config.detached THEN "failed" ELSE "aborted"
  /\ UNCHANGED hypArgs /\ HypStep

\* A failed execvp is followed by abort.
HypExec ==
  /\ \/ hyp = "exec" /\ hyp' = "vm"
     \/ hyp = "exec" /\ May("exec") /\ hyp' = "aborted"
     \/ hyp = "noexec" /\ hyp' = "aborted"
  /\ UNCHANGED hypArgs /\ HypStep

\* The hypervisor makes the control socket of the agent, or ends.
HypUp == hyp = "vm" /\ hyp' = "up" /\ UNCHANGED hypArgs /\ HypStep

HypEnds ==
  /\ May("vm")
  /\ \/ hyp = "vm" /\ hyp' = "killed"
     \/ hyp = "up" /\ hyp' = "gone"
  /\ UNCHANGED hypArgs /\ HypStep

-----------------------------------------------------------------------------
(* The shim child, between fork and exec in cc_shim_launch.                 *)

ShimStep == UNCHANGED <<parent, hyp, hypArgs>>

ShimReadProxyFd ==
  /\ shim = "proxyfd"
  /\ \/ /\ shimArgs # <<>> /\ shimArgs' = Tail(shimArgs) /\ shim' = "iobase"
        /\ got' = [got EXCEPT !.proxy = Head(shimArgs)]
     \/ /\ shimArgs = <<>> /\ ShimArgsEof /\ shim' = "failed"
        /\ UNCHANGED <<shimArgs, got>>
  /\ UNCHANGED shimSock /\ ShimStep

ShimReadIoBase ==
  /\ shim = "iobase"
  /\ \/ /\ shimArgs # <<>> /\ shimArgs' = Tail(shimArgs) /\ shim' = "iofd"
        /\ got' = [got EXCEPT !.base = Head(shimArgs)]
     \/ /\ shimArgs = <<>> /\ ShimArgsEof /\ shim' = "failed"
        /\ UNCHANGED <<shimArgs, got>>
  /\ UNCHANGED shimSock /\ ShimStep

ShimReceiveIoFd ==
  /\ shim = "iofd"
  /\ \/ /\ shimSock # <<>> /\ shimSock' = Tail(shimSock) /\ shim' = "setup"
        /\ got' = [got EXCEPT !.io = Head(shimSock)]
     \/ /\ shimSock = <<>> /\ ShimSockEof /\ shim' = "failed"
        /\ UNCHANGED <<shimSock, got>>
  /\ UNCHANGED shimArgs /\ ShimStep

\* dup_over_stdio, the lock of the first workload, the terminal; then every
\* descriptor but three is closed, the error pipe included.
ShimSetup ==
  /\ shim = "setup"
  /\ \/ shim' = "exec"
     \/ May("setup") /\ shim' = "failed"
  /\ UNCHANGED <<shimArgs, shimSock, got>> /\ ShimStep

ShimExec ==
  /\ shim = "exec"
  /\ \/ shim' = "shim"
     \/ May("exec") /\ shim' = "aborted"
  /\ UNCHANGED <<shimArgs, shimSock, got>> /\ ShimStep

\* The workload of an exec ends, and the shim with its exit code.
ShimEnds ==
  /\ shim = "shim" /\ kind = "exec"
  /\ shim' \in {"done", "killed"}
  /\ UNCHANGED <<shimArgs, shimSock, got>> /\ ShimStep

-----------------------------------------------------------------------------
Command ==
  \/ Connect \/ Attach \/ ForkHypervisor \/ ShimLaunch
  \/ \E s \in {"first", "full"} : CreateStateFile(s)
  \/ HookSpawn \/ HookWait \/ HooksDone
  \/ SetupNetwork \/ BuildArgs
  \/ \E s \in {"length", "argv"} : SendHypervisor(s)
  \/ ReadHypervisorError \/ WaitUntilReady
  \/ \E s \in {"startpod", "execcmd"} : HyperCommand(s)
  \/ AllocateIo
  \/ \E s \in {"proxyfd", "iobase"} : SendShim(s)
  \/ SendIoFd \/ ReadShimError \/ WaitShim \/ Disconnect \/ CreatePidFile
  \/ Out \/ KillOut

Hypervisor == HypStart \/ HypReadLength \/ HypReadArgs \/ HypSetup \/ HypExec
              \/ HypUp

ShimChild == ShimReadProxyFd \/ ShimReadIoBase \/ ShimReceiveIoFd \/ ShimSetup
             \/ ShimExec

Next == Command \/ HookExit \/ Crash \/ ProxyEnds \/ Hypervisor \/ HypEnds
        \/ ShimChild \/ ShimEnds

Spec == Init /\ [][Next]_vars

\* A process that can take a step is run, hooks end, and a hypervisor that is
\* not stopped makes its socket.  Nothing else is assumed.
FairSpec == Spec /\ WF_vars(Command) /\ WF_vars(HookExit)
                 /\ WF_vars(Hypervisor) /\ WF_vars(ShimChild)

-----------------------------------------------------------------------------
\* The command has got past step s on its regular path.
Past(s) == /\ Len(todo) > 1
           /\ \E i \in 1..Len(Steps(kind)) :
                 Steps(kind)[i] = s /\ Len(todo) <= Len(Steps(kind)) - i

\* "This MUST be done after all setup since containerd considers create
\* finished when this file has been created" (process.c:1251): when there is a
\* pid file the shim has all its arguments and, for a create, the state file is
\* complete and the VM is known to the proxy.  cc_pod_container_create writes
\* the pid file first and is left out.
PidFileLast ==
  pidfile /\ kind # "pod" =>
    /\ got.io = "iofd"
    /\ kind = "vm" => file = "full" /\ proxy.vm

\* A shim runs with the descriptor numbers meant for it, in the order its child
\* reads them, on a connection that was open when it was forked (the number is
\* that of a descriptor the child inherits, not of one passed to it), and on an
\* I/O channel the proxy has allocated.
ShimArguments ==
  shim \in {"setup", "exec", "shim", "done"} =>
    /\ got = [connected |-> TRUE, proxy |-> "proxyfd", base |-> "iobase",
              io |-> "iofd"]
    /\ proxy.io

\* A child that reported a failure on its pipe ("any data written by the child
\* to this pipe signifies failure") is not taken for one that started.
ChildErrorSeen ==
  /\ hyp = "failed" => ~Past("hyperr")
  /\ shim = "failed" => ~Past("shimerr")

\* A create that reports failure, and an exec that could not give its shim what
\* it needs, leave no shim behind, neither running nor about to run; and what
\* the create kills is the shim it forked.  (The create of a pod container and
\* an exec that fails later kill nothing; an exec that could not fork a shim
\* signals the pid it finds in workload_pid all the same.)
FailureLeavesNoShim ==
  result = "false" =>
    /\ kind = "vm" \/ signalled # {} => shim \in {"none", "done"} \cup Ended
    /\ kind = "vm" => signalled \subseteq {"shim"}

\* The steps that send a request to the proxy and wait for the answer.
ProxySteps == {"attach", "ready", "startpod", "allocate", "execcmd"}

\* A command returns: it stays for ever neither in the reads of its children's
\* error pipes, nor in the hooks' loop, nor on a way out.  It may wait for ever
\* for three things only: for the control socket of a hypervisor that has ended,
\* for the answer to a request on a connection to the proxy that has ended, and,
\* attached to a terminal, for a shim that runs on.
LaunchReturns ==
  <>[](\/ todo = <<>>
       \/ At("ready") /\ hyp \in Ended
       \/ proxy.lost /\ \E s \in ProxySteps : At(s)
       \/ At("wait") /\ shim = "shim")

\* However the command ends, killed or on an error path included, no child
\* stays blocked on a pipe or a socket the command has left: it runs its
\* program or ends.
NoStrandedChild ==
  (todo = <<>>) ~> /\ shim \notin ShimBlocked
                   /\ hyp \in {"none", "vm", "up", "gone"} \cup Ended

=============================================================================
