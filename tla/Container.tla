----------------------------- MODULE Container -----------------------------
(***************************************************************************)
(* The life of one stand-alone container id in the runtime (src/oci.c,     *)
(* src/command.c).  Every command is a process of its own: it reads the    *)
(* state file, acts on the snapshot and writes the file again, and no lock *)
(* is held in between, so commands interleave at every file access and at  *)
(* every request to the proxy.                                             *)
(*                                                                         *)
(* A create that gets that far starts a VM and a shim, which are named     *)
(* after the process that ran it.  The file, written atomically, holds the *)
(* status and the VM and shim it is about.                                 *)
(***************************************************************************)
EXTENDS Integers, FiniteSets

CONSTANTS
    Procs,      \* the processes that run commands, one command after another
    Issued,     \* the commands that are issued after create
    ReuseIds,   \* the id may be created while it exists
    MaxStarts,  \* bound on the newcontainer requests sent to a VM
    WaitStart,  \* start runs in the foreground and waits for the shim
    Faults      \* what may go wrong: see the actions

None == "none"

ASSUME ProcsAssumption == None \notin Procs
ASSUME IssuedAssumption == Issued \subseteq {"start", "kill", "toggle", "delete"}
ASSUME FlagsAssumption == ReuseIds \in BOOLEAN /\ WaitStart \in BOOLEAN
ASSUME MaxStartsAssumption == MaxStarts \in Nat
ASSUME FaultsAssumption == Faults \subseteq {"create", "vm", "boot", "unmount", "rm", "proxy"}

Status == {"created", "running", "paused", "stopped", "stopping"}
NoFile == [status |-> None, owner |-> None]
StateFile == [status : Status, owner : Procs] \cup {NoFile}

VARIABLES
    file,        \* the state file
    dir,         \* the runtime directory; "used" once it has held a state file,
                 \* "left" once an rm -rf of it has failed
    mounts,      \* the mounts of the container
    registered,  \* the VM registered in the proxy under the id
    vm,          \* the hypervisor processes that run
    dying,       \* the ones among them that have been told to destroy the pod
    shim,        \* the shim of a VM
    starts,      \* history: newcontainer requests sent to a VM
    pc,          \* where a command is
    about,       \* the VM and shim the state it has read is about
    last,        \* kill: last_status
    retiring     \* the container is being deleted: only deletes are issued

diskVars == <<file, dir, mounts>>
vmVars == <<registered, vm, dying, shim, starts>>
procVars == <<pc, about, last>>
vars == <<diskVars, vmVars, procVars, retiring>>

Init ==
    /\ file = NoFile
    /\ dir = None
    /\ mounts = None
    /\ registered = None
    /\ vm = {}
    /\ dying = {}
    /\ shim = [p \in Procs |-> None]
    /\ starts = [p \in Procs |-> 0]
    /\ pc = [p \in Procs |-> "idle"]
    /\ about = [p \in Procs |-> None]
    /\ last = [p \in Procs |-> None]
    /\ retiring = FALSE

Goto(p, l) == pc' = [pc EXCEPT ![p] = l]
Finish(p) ==
    /\ Goto(p, "idle")
    /\ about' = [about EXCEPT ![p] = None]
    /\ last' = [last EXCEPT ![p] = None]
Continue(p, l) == Goto(p, l) /\ UNCHANGED <<about, last>>

\* cc_oci_state_file_create, which needs the runtime directory.
WriteState(p, status) == dir # None /\ file' = [status |-> status, owner |-> about[p]]
WriteFails(p) == dir = None /\ Finish(p) /\ UNCHANGED file

\* Commands are issued once create has finished (the pid file is there).
Creating(p) == pc[p] \in {"launch", "hello", "recreate"}

\* The first step of a command on an existing container: read the state file.
ReadState(p, cmd, ok, next) ==
    /\ cmd \in Issued
    /\ pc[p] = "idle"
    /\ \A q \in Procs : ~ Creating(q)
    /\ file.status \in ok
    /\ about' = [about EXCEPT ![p] = file.owner]
    /\ Goto(p, next)
    /\ UNCHANGED <<diskVars, vmVars, retiring>>

\* A hyper command, sent after an attach, goes to the VM registered under the
\* id.  One that has gone, or is going, lets it fail, or succeed when the end
\* of the control channel is read as an empty answer.
HyperSucceeds == registered # None
HyperFails == registered \notin vm \ dying

-----------------------------------------------------------------------------
(***************************************************************************)
(* create                                                                  *)
(***************************************************************************)

\* The runtime directory, made if it is missing, and the mounts.  The manager
\* issues a create when no other command on the id is in progress and the
\* container does not exist.  With ReuseIds it may exist, or be being created.
CreateDir(p) ==
    /\ ~ retiring
    /\ pc[p] = "idle" /\ p \notin vm /\ shim[p] = None /\ registered # p
    /\ \A q \in Procs : pc[q] = "idle" \/ (ReuseIds /\ Creating(q))
    /\ ReuseIds \/ file = NoFile
    /\ dir' = IF dir = None THEN "empty" ELSE dir
    /\ mounts' \in {None, "mounted"}
    /\ starts' = [starts EXCEPT ![p] = 0]
    /\ Goto(p, "launch")
    /\ UNCHANGED <<file, registered, vm, dying, shim, about, last, retiring>>

\* The hypervisor and the shim are forked and a first state file is written.
CreateLaunch(p) ==
    /\ pc[p] = "launch"
    /\ vm' = vm \cup {p}
    /\ shim' = [shim EXCEPT ![p] = "setup"]
    /\ file' = [status |-> "created", owner |-> p]
    /\ about' = [about EXCEPT ![p] = p]
    /\ dir' = "used"
    /\ Goto(p, "hello")
    /\ UNCHANGED <<mounts, registered, dying, starts, last, retiring>>

\* hello is refused when the id is registered and fails when the VM is gone.
\* The shim, left without its arguments, ends; the command does not fail.
CreateHello(p) ==
    /\ pc[p] = "hello"
    /\ \/ /\ registered = None /\ p \in vm
          /\ registered' = p
          /\ Continue(p, "recreate")
          /\ UNCHANGED shim
       \/ /\ registered # None \/ p \notin vm
          /\ shim' = [shim EXCEPT ![p] = None]
          /\ Finish(p)
          /\ UNCHANGED registered
    /\ UNCHANGED <<diskVars, vm, dying, starts, retiring>>

\* The shim is given its arguments and the state file is written again.
CreateRecreate(p) ==
    /\ pc[p] = "recreate"
    /\ WriteState(p, "created")
    /\ Finish(p)
    /\ shim' = [shim EXCEPT ![p] = "running"]
    /\ UNCHANGED <<dir, mounts, registered, vm, dying, starts, retiring>>

\* create fails before the first state file, or goes on without a shim after
\* the hello.  What has been done so far is not undone.
CreateFails(p) ==
    /\ "create" \in Faults
    /\ pc[p] \in {"launch", "recreate"}
    /\ shim' = [shim EXCEPT ![p] = None]
    /\ Finish(p)
    /\ UNCHANGED <<diskVars, registered, vm, dying, starts, retiring>>

(***************************************************************************)
(* start                                                                   *)
(***************************************************************************)

StartRead(p) ==
    ~ retiring /\ ReadState(p, "start", {"created"}, "new-container") /\ UNCHANGED last

\* newcontainer; the guest may also refuse it.
StartNewContainer(p) ==
    /\ pc[p] = "new-container"
    /\ \/ /\ HyperSucceeds
          /\ starts[registered] < MaxStarts
          /\ starts' = [starts EXCEPT ![registered] = @ + 1]
          /\ Continue(p, "started")
       \/ Finish(p) /\ UNCHANGED starts
    /\ UNCHANGED <<diskVars, registered, vm, dying, shim, retiring>>

StartWrite(p) ==
    /\ pc[p] = "started"
    /\ \/ WriteState(p, "running") /\ (IF WaitStart THEN Continue(p, "open-lock") ELSE Finish(p))
       \/ WriteFails(p)
    /\ UNCHANGED <<dir, mounts, vmVars, retiring>>

\* In the foreground, start opens the lock file of the shim...
StartOpenLock(p) ==
    /\ pc[p] = "open-lock"
    /\ \/ dir # None /\ Continue(p, "wait-shim")
       \/ dir = None /\ Finish(p)
    /\ UNCHANGED <<diskVars, vmVars, retiring>>

\* ...waits for the shim to release it and cleans up, unless the container has
\* been killed or is gone.
StartWaitShim(p) ==
    /\ pc[p] = "wait-shim"
    /\ shim[about[p]] = None
    /\ \/ /\ file.status \notin {None, "stopped", "stopping"}
          /\ Continue(p, "unmount")
       \/ file.status \in {None, "stopped", "stopping"} /\ Finish(p)
    /\ UNCHANGED <<diskVars, vmVars, retiring>>

(***************************************************************************)
(* kill                                                                    *)
(***************************************************************************)

KillRead(p) ==
    /\ ~ retiring
    /\ ReadState(p, "kill", Status, "stopping")
    /\ last' = [last EXCEPT ![p] = file.status]

KillStopping(p) ==
    /\ pc[p] = "stopping"
    /\ \/ WriteState(p, "stopping") /\ Continue(p, "signal")
       \/ WriteFails(p)
    /\ UNCHANGED <<dir, mounts, vmVars, retiring>>

\* kill(2) on the shim, which forwards the signal.  It cannot catch SIGKILL,
\* which ends it, nor SIGSTOP: the runtime sends killcontainer itself.
KillSignal(p) ==
    /\ pc[p] = "signal"
    /\ LET s == about[p] IN
         \/ /\ shim[s] # None
            /\ \/ shim' = [shim EXCEPT ![s] = None] /\ Goto(p, "kill-hyper")
               \/ UNCHANGED shim /\ (Goto(p, "kill-hyper") \/ Goto(p, "stopped"))
         \/ shim[s] = None /\ Goto(p, "revert") /\ UNCHANGED shim
    /\ UNCHANGED <<diskVars, registered, vm, dying, starts, about, last, retiring>>

KillRevert(p) ==
    /\ pc[p] = "revert"
    /\ \/ WriteState(p, last[p]) /\ Finish(p)
       \/ WriteFails(p)
    /\ UNCHANGED <<dir, mounts, vmVars, retiring>>

\* A failed killcontainer leaves the status "stopping".
KillHyper(p) ==
    /\ pc[p] = "kill-hyper"
    /\ \/ HyperSucceeds /\ Continue(p, "stopped")
       \/ Finish(p)
    /\ UNCHANGED <<diskVars, vmVars, retiring>>

KillStopped(p) ==
    /\ pc[p] = "stopped"
    /\ \/ WriteState(p, "stopped") /\ Finish(p)
       \/ WriteFails(p)
    /\ UNCHANGED <<dir, mounts, vmVars, retiring>>

(***************************************************************************)
(* pause and resume, by a QMP command to the hypervisor                    *)
(***************************************************************************)

ToggleRead(p) ==
    /\ ~ retiring
    /\ \/ ReadState(p, "toggle", Status \ {"paused"}, "pause")
       \/ ReadState(p, "toggle", Status \ {"running"}, "resume")
    /\ UNCHANGED last

Toggle(p) ==
    /\ pc[p] \in {"pause", "resume"}
    /\ \/ about[p] \in vm /\ Continue(p, IF pc[p] = "pause" THEN "paused" ELSE "resumed")
       \/ about[p] \notin vm /\ Finish(p)
    /\ UNCHANGED <<diskVars, vmVars, retiring>>

ToggleWrite(p) ==
    /\ \/ pc[p] = "paused" /\ WriteState(p, "paused") /\ Finish(p)
       \/ pc[p] = "resumed" /\ WriteState(p, "running") /\ Finish(p)
       \/ pc[p] \in {"paused", "resumed"} /\ WriteFails(p)
    /\ UNCHANGED <<dir, mounts, vmVars, retiring>>

(***************************************************************************)
(* delete                                                                  *)
(***************************************************************************)

\* A container without a state file is deleted successfully, by doing nothing.
DeleteRead(p) == ReadState(p, "delete", Status, "destroy") /\ UNCHANGED last

\* Mutant of DeleteDestroy: destroypod is not sent.
DeleteDestroySkipped(p) ==
    /\ pc[p] = "destroy"
    /\ \/ /\ about[p] \in vm /\ HyperSucceeds
          /\ UNCHANGED dying
          /\ Continue(p, "bye")
       \/ about[p] \in vm /\ HyperFails /\ Finish(p) /\ UNCHANGED dying
       \/ about[p] \notin vm /\ Continue(p, "bye") /\ UNCHANGED dying
    /\ UNCHANGED <<diskVars, registered, vm, shim, starts, retiring>>

\* Mutant of DeleteDestroy: bye is not sent.
DeleteDestroyWithoutBye(p) ==
    /\ pc[p] = "destroy"
    /\ \/ /\ about[p] \in vm /\ HyperSucceeds
          /\ dying' = dying \cup ({registered} \cap vm)
          /\ Continue(p, "unmount")
       \/ about[p] \in vm /\ HyperFails /\ Finish(p) /\ UNCHANGED dying
       \/ about[p] \notin vm /\ Continue(p, "unmount") /\ UNCHANGED dying
    /\ UNCHANGED <<diskVars, registered, vm, shim, starts, retiring>>

\* Mutant of DeleteDestroy: a VM that has gone is an error.
DeleteDestroyFatal(p) ==
    /\ pc[p] = "destroy"
    /\ \/ /\ about[p] \in vm /\ HyperSucceeds
          /\ dying' = dying \cup ({registered} \cap vm)
          /\ Continue(p, "bye")
       \/ about[p] \in vm /\ HyperFails /\ Finish(p) /\ UNCHANGED dying
       \/ about[p] \notin vm /\ Finish(p) /\ UNCHANGED dying
    /\ UNCHANGED <<diskVars, registered, vm, shim, starts, retiring>>

\* destroypod, unless the hypervisor is gone.
DeleteDestroy(p) ==
    /\ pc[p] = "destroy"
    /\ \/ /\ about[p] \in vm /\ HyperSucceeds
          /\ dying' = dying \cup ({registered} \cap vm)
          /\ Continue(p, "bye")
       \/ about[p] \in vm /\ HyperFails /\ Finish(p) /\ UNCHANGED dying
       \/ about[p] \notin vm /\ Continue(p, "bye") /\ UNCHANGED dying
    /\ UNCHANGED <<diskVars, registered, vm, shim, starts, retiring>>

DeleteBye(p) ==
    /\ pc[p] = "bye"
    /\ \/ registered # None /\ Continue(p, "unmount")
       \/ registered = None /\ Finish(p)
    /\ registered' = None
    /\ UNCHANGED <<diskVars, vm, dying, shim, starts, retiring>>

(***************************************************************************)
(* cc_oci_cleanup.  What has been unmounted cannot be unmounted again, and *)
(* a file that is gone cannot be unlinked.                                 *)
(***************************************************************************)

\* Mutant of CleanupUnmount: the state file is deleted before the mounts.
CleanupUnmountLast(p) ==
    /\ pc[p] = "unmount"
    /\ \/ /\ mounts # "unmounted"
          /\ mounts' = IF mounts = None THEN None ELSE "unmounted"
          /\ Continue(p, "unlink")
       \/ mounts = "unmounted" /\ Finish(p) /\ UNCHANGED mounts
       \/ mounts = "mounted" /\ "unmount" \in Faults /\ Finish(p) /\ UNCHANGED mounts
    /\ file' = NoFile
    /\ UNCHANGED <<dir, vmVars, retiring>>

CleanupUnmount(p) ==
    /\ pc[p] = "unmount"
    /\ \/ /\ mounts # "unmounted"
          /\ mounts' = IF mounts = None THEN None ELSE "unmounted"
          /\ Continue(p, "unlink")
       \/ mounts = "unmounted" /\ Finish(p) /\ UNCHANGED mounts
       \/ mounts = "mounted" /\ "unmount" \in Faults /\ Finish(p) /\ UNCHANGED mounts
    /\ UNCHANGED <<file, dir, vmVars, retiring>>

CleanupUnlink(p) ==
    /\ pc[p] = "unlink"
    /\ \/ file # NoFile /\ Continue(p, "rmdir")
       \/ file = NoFile /\ Finish(p)
    /\ file' = NoFile
    /\ UNCHANGED <<dir, mounts, vmVars, retiring>>

\* rm -rf of the directory, with whatever is in it: a state file that has been
\* written since the unlink, too.  When it fails the directory is still there,
\* with or without such a file, and the command fails.
CleanupRmdir(p) ==
    /\ pc[p] = "rmdir"
    /\ \/ dir' = None /\ file' = NoFile
       \/ /\ "rm" \in Faults /\ dir # None
          /\ dir' = "left" /\ file' \in {file, NoFile}
    /\ Finish(p)
    /\ UNCHANGED <<mounts, vmVars, retiring>>

-----------------------------------------------------------------------------
(***************************************************************************)
(* The environment                                                         *)
(***************************************************************************)

\* The manager decides to delete the container and retries until it is gone.
Retire ==
    /\ ~ retiring
    /\ file # NoFile
    /\ \A p \in Procs : ~ Creating(p)
    /\ retiring' = TRUE
    /\ UNCHANGED <<diskVars, vmVars, procVars>>

\* A hypervisor that has been told to destroys its pod and exits; another one
\* may die, before ("boot") or after ("vm") it is registered.
VMExit(v) ==
    /\ v \in vm
    /\ v \in dying \/ (IF registered = v THEN "vm" ELSE "boot") \in Faults
    /\ vm' = vm \ {v}
    /\ dying' = dying \ {v}
    /\ UNCHANGED <<diskVars, registered, shim, starts, procVars, retiring>>

\* The shim ends with the workload, or with its VM.
ShimExit(v) ==
    /\ shim[v] = "running"
    /\ starts[v] > 0 \/ v \notin vm
    /\ shim' = [shim EXCEPT ![v] = None]
    /\ UNCHANGED <<diskVars, registered, vm, dying, starts, procVars, retiring>>

\* The proxy keeps its map in memory only.
ProxyRestart ==
    /\ "proxy" \in Faults
    /\ registered # None
    /\ registered' = None
    /\ UNCHANGED <<diskVars, vm, dying, shim, starts, procVars, retiring>>

Create(p) ==
    \/ CreateDir(p) \/ CreateLaunch(p) \/ CreateHello(p)
    \/ CreateRecreate(p) \/ CreateFails(p)
Start(p) ==
    \/ StartRead(p) \/ StartNewContainer(p) \/ StartWrite(p)
    \/ StartOpenLock(p) \/ StartWaitShim(p)
Kill(p) ==
    \/ KillRead(p) \/ KillStopping(p) \/ KillSignal(p)
    \/ KillRevert(p) \/ KillHyper(p) \/ KillStopped(p)
PauseResume(p) == ToggleRead(p) \/ Toggle(p) \/ ToggleWrite(p)
Delete(p) ==
    \/ DeleteRead(p) \/ DeleteDestroy(p) \/ DeleteBye(p)
    \/ CleanupUnmount(p) \/ CleanupUnlink(p) \/ CleanupRmdir(p)

Command(p) == Create(p) \/ Start(p) \/ Kill(p) \/ PauseResume(p) \/ Delete(p)

Next ==
    \/ \E p \in Procs : Command(p) \/ VMExit(p) \/ ShimExit(p)
    \/ Retire
    \/ ProxyRestart

Spec == Init /\ [][Next]_vars

\* A command that has begun goes on, the manager's deletes are retried, and a
\* VM that has been told to exits.  No command need ever be issued otherwise.
Fairness ==
    /\ \A p \in Procs :
          /\ WF_vars(pc[p] # "idle" /\ Command(p))
          /\ WF_vars(retiring /\ DeleteRead(p))
          /\ WF_vars(p \in dying /\ VMExit(p))

FairSpec == Spec /\ Fairness

-----------------------------------------------------------------------------
\* A VM that runs can be found and deleted: the state file names it, unless it
\* is being created or has been told to exit.
NoOrphanVM == \A v \in vm : file.owner = v \/ v \in dying \/ Creating(v)

\* Cleanup is the last thing that happens to a container: once its state file
\* is unlinked no VM is registered under its id (cc_oci_stop, "Allow the proxy
\* to clean up resources").
GoneIsUnregistered ==
    \A p \in Procs : pc[p] \in {"unlink", "rmdir"} => registered = None

\* When no command is in progress no container is half deleted, whatever the
\* commands on it have done to each other and wherever they have failed: a
\* directory that has held a state file still does, for without it delete does
\* nothing (cc_oci_cleanup, handle_command_stop).  The one exception is a
\* directory whose rm -rf has failed, after the unlink of the state file.
NoRemnant ==
    (\A p \in Procs : pc[p] = "idle") =>
        /\ dir = "used" => file # NoFile
        /\ file # NoFile => dir \in {"used", "left"}

\* A container that is being deleted is eventually gone: the manager's retries
\* of delete succeed ("Even if the VM has already shutdown, it's still
\* necessary to perform cleanup", cc_oci_stop), unless an rm -rf has failed: the
\* state file is gone by then, and no retry comes to the directory.
DeleteCompletes == retiring ~> dir \in {None, "left"}

\* "container %s already exists" (cc_oci_create): no VM is launched for a
\* container that has a state file.
ExistingRefused == [][file # NoFile => vm' \subseteq vm]_vars
=============================================================================
