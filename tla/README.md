# TLA+ models of cc-oci-runtime

cc-oci-runtime is an OCI runtime that runs every container, or every pod, in a
virtual machine of its own.  This directory holds TLA+ models of the runtime,
the proxy and the shim, the TLC configurations that check them, and proofs checked
by TLAPS.  Paths below are relative to the repository; `hyperstart.go` is the
vendored `containers/virtcontainers/hyperstart/hyperstart.go`.

## The system

| part | code | state | operations |
|---|---|---|---|
| runtime | `src/oci.c`, `src/command.c`, `src/commands/` | the state file and the runtime directory of a container, its mounts | create, start, kill, pause, resume, delete; list, state, ps, exec, events |
| launch | `src/process.c` | four pipes and a socket between the parent, the hypervisor child and the shim child | fork, namespaces, hooks, network, state file, proxy requests, pid file |
| proxy client | `src/proxy.c` | the connection, the VM's two socket paths | connect, hello, attach, allocateIO, hyper, bye |
| proxy | `proxy/*.go` | `proxy.vms`; a `vm` object per VM; an `ioSession` per process | one goroutine per client; three or more per VM |
| control channel | `hyperstart.go` | `ctl`, `ctlMutex` | OpenSockets, WaitForReady, SendCtlMessage |
| shim | `shim/shim.c` | poll loop, signal pipe, exit code | stdin, output, signals, window size, exit |
| pods | `src/pod.c` | annotations; containers that share a VM | create, attach, kill |
| mounts | `src/mount.c` | the list of mounts, saved in the state file | mount, unmount |
| pause/resume | `src/network.c` | a QMP connection | greeting, capabilities, stop, cont |
| pure code | `src/semver.c`, `src/hypervisor.c`, `src/util.c` | none | version comparison, argument expansion |
| guest | hyperstart, qemu (external) | | READY, NEXT, ACK, ERROR; I/O frames; may die at any time |

How they interact: `create` forks qemu and the shim and says *hello* to the
proxy, which connects to two sockets of qemu, one for commands (control) and one
for the I/O of all processes.  Each process gets an *I/O session*: a socket pair,
one end of which is passed to the shim, and one or two sequence numbers that
address its streams.  Later commands are new processes.  They know the container
from its state file and *attach* to its VM by the container id.  `delete` tells
the guest to destroy the pod, says *bye* to the proxy and removes the mounts, the
state file and the directory.

What is hard here: no command holds a lock on the state file; proxy handlers
release the mutex between looking something up and using it; one goroutine
serves the output of all clients; `vm.Close` waits for goroutines while it holds
the mutex they might need; the VM may end between any two steps; `delete` is
retried after any of its steps has failed.  `PROJECT.json` lists these hazards at
the lines where they bite.

## Modules

| module | models | one step is |
|---|---|---|
| `VMIo` | the I/O of one VM: `AllocateIo`, `ioHyperToClients`, `ioClientToHyper`, `consoleToLog`, `vm.Close` (`proxy/vm.go`) | a critical section of the `vm` mutex, or one read or write of a socket |
| `HyperCtl` | the control channel of one VM: `vm.Connect`, the hyper handler (`hyperstart.go`, `proxy/proxy.go`) | one lock, one message written or read |
| `ProxyRegistry` | `proxy.vms` with hello, attach and bye (`proxy/proxy.go`) | a critical section of the proxy mutex |
| `Container` | one stand-alone container id: create, start, kill, pause, resume, delete (`src/oci.c`, `src/command.c`, `src/process.c`) | an access to the state file, a request to the proxy, a signal, a step of cleanup |
| `Launch` | how create, create in a pod and exec fork a hypervisor and a shim and hand them what they need (`src/process.c`, `src/pod.c`) | a system call or a request of the parent, or of one of the two children |
| `Shim` | the shim: poll loop, self-pipe, frames, exit code (`shim/shim.c`) | a handler of the poll loop, or one `read` of a frame |
| `ProxyClient` | one connection to the proxy, with the clients of `src/proxy.c` and `proxy/api/client.go` and the server of `proxy/protocol.go` | a portion of a frame written or read |
| `Qmp` | pause and resume over the monitor of the hypervisor (`src/network.c`) | a portion of a message, a command, an event |
| `StateFile` | what is written to the state file and what the next command makes of it (`src/state.c`, `src/oci.c`) | operators only |
| `Mounts` | the file system below the mounts (`src/mount.c`, `rm -rf`) | operators only |
| `Semver` | the comparison of versions (`src/semver.c`), and the order its comments describe | operators only |
| `Bundle` | the life of bundles: `config.json` read, mounts made, state file written, read and rewritten, mounts undone (`src/oci.c`, `src/oci-config.c`, `src/spec_handlers/`, `src/pod.c`) | a section of the configuration, a mount, an access to the state file |
| `IoRouter` | abstract: a pair of pipes for every session | |
| `VMIoRefines` | the mapping from `VMIo` to `IoRouter` | |
| `MC*` | the modules above with symmetry sets, inputs or two parts in one run, for TLC | |
| `*Proofs` | theorems about the module or modules they extend | |

**VMIo.**  `stdin[s]` is the position of the stdin goroutine of session `s`
(`"starting"` is the gap between the unlock and `wg.Add`), `reader` that of
`ioHyperToClients` (`"done"` after a read error, which signals the loss of the VM;
`"broken"` after a write error, which does not), `closer` that of the goroutine
that runs `vm.Close`.  `LockFree` says that nobody sleeps with the mutex held.
`conn` and `peer` are the two ends of the socket pair, with bounded buffers in
both directions.  Frames carry history fields, the session and rank of whoever
wrote them, that no action looks at.  `CloseIo` has no caller and is left out.

**HyperCtl.**  `ctlMutex` is held over a command and its answer.  A failed read
makes `expectReadingCmd` return neither a message nor an error, as in the code.
`EarlyAttach` says whether clients may attach while the hello is still being
handled; the proxy allows that, the runtime never does.  A write to a connection
that has not been opened yet is a nil dereference: `panicked`.  `vm.Connect` dials the
console first, then the two sockets of hyperstart; when the guest answers with ERROR
instead of READY, it releases the mutex and closes the sockets in two steps.

**ProxyRegistry.**  `cur` is the local variable `vm` of a handler, which is what
may be stale at its second critical section.  `EmptyId` is the id of a malformed
hello, which is answered with an error and registered all the same.  `byes` is a
history variable.

**Container.**  Each process runs one command after another; `about` is what the
state it has read refers to.  A VM and its shim are named after the process that
created them.  A manager decides to delete the container (`retiring`) and then
retries `delete`.  Commands other than create are issued when no create is in
progress (the manager waits for the pid file); otherwise they interleave freely.
`Faults` selects what may go wrong: `create` (create fails or goes on without
a shim), `vm` and `boot` (qemu dies after, or before, it is registered),
`unmount`, `rm` (an `rm -rf`, which may have removed some of the directory by then),
`proxy` (a restart, which forgets the map).  `dir` is `"left"` when an `rm -rf` has
failed.

**Launch.**  The three functions that fork a shim share most of their steps, so a
command is the sequence `todo` of the steps it has left.  `ret` is the C variable: a
`goto out` leaves it alone, which is how a create can return true after a failure.
The pipes are modelled by who holds which end: `fds` for the parent, `HypArgsEof`,
`ShimErrClosed` and the like for the children, which inherit what the parent holds
when it forks.  A child reads its arguments, sets itself up and runs its program; it
reports an error by writing to a pipe that exec closes.  `Faults` selects the steps
that may fail; `"crash"` kills the runtime at any point, and `"lost"` ends its
connection to the proxy: the callbacks of `src/proxy.c` then return without leaving the
main loop, so a step that waits for an answer (`Answered`) is never taken.

**Shim.**  One turn of the loop is `todo`, the handlers whose descriptor was ready.
A signal may come between any two steps.  A frame is a header and data units and is
read in any portions.  `LateOutput` lets a stream go on after the end of the other.
Two history values that no action looks at say where things come from: the last
component of a unit on the socket, whether it is output or exit code (the shim has to
find out), and the rank `of` in a message, the signal it is for.

**ProxyClient.**  A conversation (`Kinds`) is the list of requests a command of the
runtime sends on one connection.  Frames travel in portions of any size in both
directions; the descriptor of allocateIO comes out of band, with a byte before the
response.  `Faults`: `connect`, `cloexec` and `wide` (more than one byte a character in
a request) on the client's side, `refuse` and `proxy` (the connection ends) on the other.

**Qmp.**  The monitor serves one connection at a time.  `msgs` is what a process has
received whole; the code counts messages, so that events between them matter.  A
connection that is reset is an error; one that ends in an orderly way sets no error,
whose message the code then reads (`"aborted"`).

**Bundle**, with **Mounts**, **StateFile** and **Semver.**  A path is resolved through
the mounts on its way, so that nested mounts and `rm -rf` behave as on a real file
system; a source is a directory, a file, a path that does not exist, a name that is
no path, or one without a file-system type.  `lost` records the volumes whose content
a delete has removed.  A cleanup whose `rm -rf` meets a mount ends `"unremoved"`.
Sections of `config.json` are read in the order of the file.
Strings that are absent and strings that are empty are told apart, since writing
and reading the state file treats them differently.

**IoRouter.**  What the proxy promises: every session is a pair of pipes of its own,
each in order, without loss in the middle and without repetition.  `VMIoRefines` maps
`got`, `guestIn` and the counters of `VMIo` to it.

## Runs

| run | instance | shows |
|---|---|---|
| `VMIo_output` | 2 sessions, 1 or 2 streams, 2 output frames or 1 stdin frame each | `OutputInOrder`, `GloballyUnique` |
| `VMIo_live` | 2 sessions, 1 or 2 streams, with 2 stdin frames or with 1 output frame each, fair | `OpenIsRegistered`, `CloseTerminates`, `SessionsEnd`, `LossDetected`, `OutputDelivered`, `ImplementsPipes` |
| `HyperCtl` | 3 clients, 2 commands each, early attaches, fair | `AnswerMatches`, `HelloAnswered`, `HyperAnswered` |
| `ProxyRegistry_safety` | 2 clients, 2 ids (one of a malformed hello), 3 VM objects | `FailedIsUnregistered`, `LostOnlyByBye`, `OthersRemovedLate` |
| `Container_safety` | 2 processes; start, kill, delete; VM may die, `rm -rf` fail; fair | `NoOrphanVM`, `GoneIsUnregistered`, `DeleteCompletes` |
| `Container_faults` | 2 processes; all commands; all faults; start in the foreground | `NoRemnant` |
| `Launch` | create, create in a pod, exec; up to 2 hooks; all faults and a crash; fair | `PidFileLast`, `ShimArguments`, `ChildErrorSeen`, `FailureLeavesNoShim`, `LaunchReturns`, `NoStrandedChild` |
| `Shim` | stdin a terminal, a pipe or closed; 3 events; fair | `SignalsInOrder`, `OutputShown`, `ExitStatusCaptured`, `ExitReported`, `InputForwarded` |
| `Clients` | every conversation of `ProxyClient`; 2 processes of `Qmp`; fair | `ResponseMatches`, `FailureHasReason`, `CommandReturns`; `SuccessIsExecuted`, `ToggleReturns` |
| `Bundle` | one container with up to 3 mounts, a pod of two, some 300 versions | `DeleteStuck`, `SourcesKept`, `DeleteUndoes`, `SectionsLoaded`, `RewriteKeeps`, `VersionOrder` |
| `HyperCtl_acked` | 1 client, 1 command | `SuccessIsAcked` is violated |
| `Container_reuse` | ids may be created twice | `ExistingRefused` is violated |

What the less obvious ones say.  `OthersRemovedLate`: hello and bye delete by id, after
they have let go of the mutex, and may take away a VM that is not theirs; they do so only
when another bye, or another hello that failed, has taken theirs away first.  `NoRemnant`
and `DeleteCompletes`: a directory without its state file is out of reach of `delete`, and
a failed `rm -rf` is the one way to get there.  `LaunchReturns`: a command waits for ever
for three things only, the control socket of a hypervisor that has ended, the answer to a
request on a connection to the proxy that has ended, and a shim it is attached to.
`InputForwarded`: the poll loop gets to stdin last and to one portion of it in a turn, yet
all of the input and then its end are passed on, or the shim ends.
`NoStrandedChild`: however the command ends, no child stays blocked on
a pipe of it.  `ShimArguments`: the descriptor numbers a shim gets are those of
descriptors it has inherited.  `ExitStatusCaptured`: the exit code is told from
output by the length of a frame, and rightly so if no stream goes on after the end of
the other.  `DeleteStuck`: the three cases in which a delete cannot undo its mounts.
`SourcesKept`: `rm -rf` never goes through a mount of the container itself.
`RewriteKeeps`: the commands that rewrite the state file from what they have read keep
all that later commands need.  `ImplementsPipes`: see `IoRouter`.

**Bounds.**  Two sessions are enough for one to be mistaken for the other, two streams
for the case in which a session has a number that is not its `ioBase`, two frames for a
frame to be lost, repeated or overtaken; a socket buffer of one frame (`SockCap`) makes
every write block.  The console goroutine (`Consoles`) only matters to the end of
`vm.Close`.  Behaviours are either about output or about input: `VMIo_live` has two
streams per session for input and one for output (`part`), `VMIo_output` both counts for
both, with and without a console goroutine that runs while no frames are written
(`OneDirection`).  Only what clients and processes write is restricted, nothing the
proxy does.  Two clients race on the registry, and three VM objects let a VM be replaced
twice under one id.  Two commands per client make a late answer meet a later
command.  Two runtime processes race on the state file; a third would only add another
stale snapshot.  One `newcontainer` request per VM (`MaxStarts`) is enough for the shim
to end with its workload.  Two hooks let the callback of the first meet the wait for the
second.  Three events, a self-pipe of two signals (`PipeCap`) and a socket of three
units (`SockCap`) fill both and split every frame.  Responses of up to two units
(`MaxBody`) are read in one portion or in two.  Two mounts nest, a third lies beside or
below them; patch strings of up to four characters have every form the comparison
distinguishes.  `Clients` runs its two parts in one run, one or the other in each
behaviour; they share no state.

**Symmetry** is used in runs that check only safety.  Sessions, clients, VM objects
and processes are interchangeable; ids are not, one being `EmptyId`.

**Fairness.**  The Go scheduler runs every goroutine that can go on, so each has weak
fairness.  Mutexes need no more, since nobody takes the same one forever.  A client
reads what it is sent as long as it lives (the poll loop of the shim); it may exit at
any time.  A guest that does not exit boots and answers; it may exit at any time.  The
children of the runtime are scheduled, hooks end, and a hypervisor that is not stopped
makes its socket; the shim is scheduled, and its writes to the proxy do
not block for ever, since the proxy reads as long as the connection is there; a monitor
that has not exited answers.  `HelloAnswered` and `HyperAnswered` are stated for the
behaviours in which no command is sent before the hello is over (`Orderly`), which is
how the runtime uses the proxy.  A runtime command that has begun goes on, a VM that has
been told to destroy its pod exits, and the manager retries `delete`.  Nothing else is
fair: no command need ever be issued, no guest need write or die.

**Deadlock** is not checked, for the systems may stop: all requests answered, all
goroutines ended.  The liveness properties take its place.

## Where the code and its documentation disagree

The two violation runs:

* `HyperCtl_acked`: a VM that dies during a command makes the command succeed
  (`hyperstart.go:371`).
* `Container_reuse`: the message "container already exists" cannot be reached,
  since `g_mkdir_with_parents` accepts a directory that exists (`src/runtime.c:110`).

More of them were met on the way.  Some can be reproduced by the constant, or by the
condition of the property, that is named:

* a client that exits while output is being written to it ends `ioHyperToClients`
  (`proxy/vm.go:157`) for all clients of the VM; the end of qemu is then noticed by
  nobody and `vm.Close` never runs (`LossDetected` without `reader = "broken"`);
* `delete` stops when *bye* fails (`src/oci.c:933`), and it always fails for a VM that
  is not registered, so the container stays (`Faults = {"boot"}`, `DeleteCompletes`);
* a request for no streams is answered with an error and goes on
  (`proxy/proxy.go:205`): sequence numbers are then shared (`NStreams = {0, 1}`,
  `GloballyUnique`);
* a client that attaches before the VM is ready eats its READY, and the hello
  hangs; or it dereferences nil (`HelloAnswered` without `Orderly`);
* a start in the foreground cleans up without *bye*, so the id stays registered
  (`WaitStart = TRUE`, `GoneIsUnregistered`);
* a failed unmount cannot be retried, since the mounts before it in the list are
  unmounted already (`Faults = {"unmount"}`, `DeleteCompletes`);
* the restart of the proxy has the same effect (`Faults = {"proxy"}`);
* `delete` unlinks the state file before it removes the directory, so a failed `rm -rf`
  cannot be retried either (`src/oci.c:438`; `DeleteCompletes` without `"left"`);
* `shim/README.md:24`: "The shim should capture the exit status of the container".  One
  byte of output after the end of the other stream is taken for it
  (`LateOutput = TRUE`, `ExitStatusCaptured`);
* with stdin closed, the self-pipe of the shim gets descriptor 0 and is polled as
  stdin too (`shim/shim.c:652`): a signal may be taken for input (`SignalsInOrder` without
  its condition on `stdin`);
* `src/process.c:1251`: the pid file "MUST be done after all setup".  The create of a
  container in a pod writes it first (`src/pod.c:251`; `PidFileLast` without its
  condition on `kind`), and leaves its shim behind when it fails
  (`FailureLeavesNoShim` without it);
* a mount whose source is missing is saved like the others, so that `delete` tries to
  unmount it and fails for good (`src/mount.c:249`); so does one below another, since
  mounts are undone in the order they were made (`src/mount.c:339`; `DeleteStuck`
  without its disjuncts);
* deleting a sandbox before its containers takes `rm -rf` through their mounts
  (`lost` of the sandbox then names theirs; `SourcesKept` is about a container's own);
* a `config.json` with annotations before its mounts loses the mounts, and one with
  annotations before its root cannot be created (`SectionsLoaded` without its condition
  on the order);
* a numeric identifier is compared as text with one that starts with a digit but is
  not numeric, and a `-` in build metadata is taken for a pre-release (`src/semver.c:74`,
  `src/semver.c:217`; `VersionOrder` without `PlainPatch`);
* the annotations go when the state file is rewritten, though a comment says that it
  is "rewritten with full details" (`src/command.c:108`; `RewriteKeeps` with
  `annotations` in `Lasting`);
* a connection to the proxy that ends during a command leaves the runtime waiting
  (`src/proxy.c:283`; `CommandReturns` without `Closed`, `LaunchReturns` without
  `proxy.lost`); a pause of a hypervisor that is paused already,
  or an event at the wrong time, leaves it waiting for the monitor (`ToggleReturns`
  without its disjuncts).

And some concern statements that are too weak to keep as properties:
`session.wg.Add` comes after the unlock, so `vm.Close` may not wait for a session
that is just being allocated (`proxy/vm.go:262`); two byes for the same VM can both
succeed, and the second may remove a VM registered in between
(`proxy/proxy.go:188`), as may a failed hello (`proxy/proxy.go:117`;
`OthersRemovedLate` says when); client numbers are
not unique (`proxy/proxy.go:336`); two concurrent starts both find the status
created (`src/oci.c:665`); two concurrent pause and resume may leave the state file
behind the hypervisor (`src/oci.c:985`); a prestart hook that fails is only logged,
against the comment at `src/process.c:1065`; the watch of a hook that has not read its
stdin ends the wait for the next one (`src/process.c:465`); a signal that finds the
self-pipe of the shim full is dropped (`shim/shim.c:91`).

## Proofs

All theorems hold for every value of the constants that satisfies the named
assumptions, which are only about types: the "none" values are not members of the
sets they complete, the bounds are natural numbers, the switches are Boolean, a
`config.json` is made of the sections that `Bundle` has a handler for.  Some
state a hypothesis more, without which they are false:

| hypothesis | theorems | why the code justifies it |
|---|---|---|
| `0 \notin NStreams` | `SequenceNumbersUnique`, `NoSessionEscapes`, `OutputRoutedInOrder`, `VMIoImplementsPipes` | the runtime always asks for one stream or two |
| `~WaitStart` | `UnregisteredTheorem`, `OrphanTheorem` | start waits only when it runs in the foreground of a terminal; cleanup without *bye* is then a divergence (see above) |
| `~ReuseIds` | `OrphanTheorem` | a manager creates an id when it does not exist; that the code does not enforce it is what `Container_reuse` shows |
| `~LateOutput` | `OutputTheorem`, `ExitStatusTheorem` | nothing but the workload can guarantee it; it is the condition under which the protocol of the shim is unambiguous |

TLC finds a counterexample to each of these theorems' properties once the hypothesis
is dropped.  The inductive invariants were model-checked on the instances of the runs,
and `ContainerProofs` also with three processes, before they were proved.
Leaves on which a prover spends seconds name it with a time limit (`SMTT(20)`,
`ZenonT(20)`), so that the proofs do not depend on the load of the machine.

**ProxyRegistryProofs.**  `TypeCorrect`, `FailedNeverFound`, `NeverLost`,
`HelloNeverReplaces`, `LateRemovals`.  `FailedIsUnregistered` is not
inductive: a failed hello removes whatever its id maps to, so one has to know that
nobody else is connecting the same VM object.  The inductive invariant `IInv` adds
that a VM is connected by one handler only (`OneConnector`), that it is
`"connecting"` until then (`Connecting`), and that exactly the VM objects in use have
an id (`InUse`).  `LateRemovals` needs two more: a VM that a
bye has taken away never comes back (`TakenAway`), and a VM that a bye has looked up is
still in the map unless another bye for its id has succeeded or another hello has failed
(`ByeInTime`, `Faster`).  Whoever removes a VM leaves one of these two marks, and they
stay (`FasterStays`).

**ControlProofs**, the two channels on which commands are answered.  For the control
channel of the proxy: `TypeCorrect`, `SingleTransaction`, `AnswersMatch`.
`AnswerMatches` needs to know what is on the channel: the mutex is held by whoever
is between lock and unlock (`Mutex`); an unanswered command excludes answers
(`OneCommand`); an answer that can still be read is the only one and answers the
last command of the client that waits for it (`OneAnswer`).  The difficulty is the
end of the guest, after which a command is abandoned with its answer still on the
channel: it is harmless because from then on nothing new is written
(`ClosedIsGone`, `Codes`).

For the monitor of the hypervisor: `SuccessTheorem`, `FramingTheorem`.
`SuccessIsExecuted` speaks of the end of a command; that the answer read is its own
depends on every message before it.  `QInv` says how the bytes on the socket and in the
buffer are cut into messages (`Framed`: texts and separators alternate, and at most one
text waits for its separator), and for each stage of the conversation what can still be
among them (`Phase`): until the greeting has been read nothing else is, the answer to
`qmp_capabilities` is the first message after it and the last answer before the command
(`Negotiating`), and as long as the command has not been executed no answer is on its way
(`Commanding`, `NoReturn`).  Events of other processes may come in between anywhere.

**VMIoProofs.**  `TypeCorrect`, by one step per action and a frame lemma (`TypeFrame`)
for the groups of variables an action leaves alone, and three inductive invariants:

* `AllocInv`, for `SequenceNumbersUnique` and `NoSessionEscapes`.  Sessions own
  disjoint intervals of numbers below `nextIoBase` (`Disjoint`), only allocated
  sessions are in the map (`Mapped`), and the map is complete until `vm.Close`
  iterates over it (`MapFull`).  `vm.Close` deletes a session from the map when it
  closes its socket, which is why an open session is always found there.
* `StdinInv`, for `StdinForwardedInOrder`: what the guest has received, what the
  goroutine holds and what is in the socket are consecutive.  It holds of a
  session until its goroutine ends, and needs no hypothesis.
* `OutputInv`, for `OutputRoutedInOrder`.  The frames of a session are spread over
  the client, its socket, the routing goroutine and the I/O channel, which other
  sessions share.  Those on the channel are exactly the ones not yet passed on
  (`Addressed`, `Complete`), in order (`Ordered`), so the first frame on the channel
  is the next one of its session (`FirstIsNext`).  Routing it correctly needs
  `AllocInv`: while frames are routed the map is complete, since the reader ends
  before `vm.Close` starts (`ReaderFirst`).

The refinement, `VMIoImplementsPipes`: `VMIo` implements `IoRouter` under the mapping of
`VMIoRefines`.  The invariants above say of every state what has arrived; the refinement
says of every step that it hands over at most the next frame of one session and
direction.  `RouterInv` joins `AllocInv`, `StdinInv` and `OutputInv` and adds that no
more has arrived for a client than its process has written (`NoMoreThanSent`);
`RouterNext` has one step per action: a write by the process, a read by the client, a
write by the client, a frame passed to the guest, an allocation, and stuttering for all
others.

**ContainerProofs.**  Three invariants, each on top of the one before, for any number of
concurrent commands and any faults:

* `RInv`, for `RemnantTheorem`.  `NoRemnant` speaks of the moments when nothing is in
  progress; `DirHolds` says what is true in between: a directory that has held a state
  file holds one, or some cleanup is between unlink and rmdir, or an `rm -rf` has failed.
* `GInv`, for `UnregisteredTheorem`: cleanup starts after a *bye* and no create registers
  the id again while it runs (`CleanAfterBye`).  It needs that start never waits
  (`NoWait`), for the wait ends in a cleanup of its own.
* `OInv`, for `OrphanTheorem`.  A delete kills the VM its state file named some steps ago
  and unlinks whatever file there is now.  `SameVM` says that these are the same: all
  commands in progress, the state file and the registry agree on one VM; `OneCreate`
  that no other can come up meanwhile; `Destroyed` that a delete past *destroypod*
  leaves no VM that goes on.

**LaunchProofs.**  One invariant, `IInv`, for `ArgumentsTheorem`, `PidFileTheorem`,
`ChildErrorTheorem` and `FailureTheorem`.  `PathInv` says that a command has a suffix of
its list of steps before it (or has left it for the error path), `Achieved` what the
steps behind it have established.  The two processes meet in `Received` and `Sending`:
what the child has read, what is on the pipe and what the parent has still to write make
up the whole list of arguments, in order, at every moment.  The lemmas `VmIndex`,
`PodIndex` and `ExecIndex` compute the order of the steps once for each of the three
lists, `QuietSteps` deals with the many steps that touch none of this.

**ShimProofs.**  Two invariants.

* `SInv`, for `SignalsTheorem`: the pipe is what remains of the signals caught
  (`PipeInv`), messages have increasing ranks below that (`SentInv`), and no rank is left
  out while the proxy is there (`AllSent`).
* `OInv`, for `OutputTheorem` and `ExitStatusTheorem`.  The shim finds out from lengths
  alone what a unit is, so the invariant says that it is right: what it takes for the
  rest of a frame is that, and whole frames follow (`Shape`), the last one cut off
  perhaps when the proxy is gone.  After the end of a stream there are only ends of
  streams and at last the exit code (`CodeLast`), so that a frame of one unit read then
  is the exit code.  `StreamInv` says of each stream that what is shown, what is in the
  frame and what is on the socket are consecutive, and complete as long as nothing has
  been cut off or the exit code, which comes last, is there.

**ProxyClientProofs.**  `ResponseTheorem`, `FailureTheorem`, `InStepTheorem`.  A command
succeeds on what it finds at a place in a stream of bytes, so the proof has to know where
the stream is.  `PInv` has the stages of an exchange (`Asked`, `Handling`, `Handled`,
`Answered`), and for the last of them that what the client has received, what is on its
way and what the proxy has still to send are together the header and the n units of the
response to this request (`AnsweredWith`), whatever the portions.  When a command returns
nothing of it is left (`Idle`, which is what `InStepTheorem` states), so the next one
starts at the beginning of a frame.  `History` keeps what has been returned against what
the handler has done.

**BundleProofs.**  `RewriteTheorem`, `ReadableTheorem`, `SectionsTheorem`, for any bundles
with any numbers of sections, mounts and annotations.

* What a loop over a list computes is a recursive function, and the lemmas `Induction`,
  `Recursion` and `Unfolds` give what is needed of these: induction for a predicate that
  is given as a set, from the well-foundedness of the natural numbers; that a function
  built step by step exists; that only one obeys the equations.  `JsonLoop`,
  `AnnotationsLoop` and `SectionsLoop` apply them to the three loops.
* `BInv`, for `RewriteTheorem` and `ReadableTheorem`.  `RewriteKeeps` compares a file with
  the one before it, which was written by another command from another configuration.
  `FileOK` says which files can be read and written again, `Gives` that a configuration,
  written, gives what is in a file: the one read from the file does (`FromFileGives`), and
  so does the one that `run` still has in memory (`InMemoryGives`); `Writable` says of a
  configuration that is being made that its file will be of that kind.  The file of a VM
  that runs is there because the one written before it was (`LaunchEndsKeeps`).
* `LInv`, for `SectionsTheorem`: the mounts are loaded from `parsed` on, and making a mount
  changes neither its destination in the container nor its source (`SetMountLoads`).  The
  induction over the annotations (`AnnotationsLoaded`) needs that the root directory is
  known before them, which is what the order of the sections is about.

Only model-checked are:

* liveness, and with it everything that rests on fairness (`CloseTerminates`,
  `SessionsEnd`, `LossDetected`, `OutputDelivered`, `HelloAnswered`, `HyperAnswered`,
  `DeleteCompletes`, `LaunchReturns`, `NoStrandedChild`, `ExitReported`, `InputForwarded`,
  `CommandReturns`, `ToggleReturns`), which is out of reach of the prover;
* the other properties of `Bundle`: `DeleteStuck`, `SourcesKept` and `DeleteUndoes` relate
  all mounts of all containers to a file system in which they nest, and their inductive
  invariant has not been worked out; `VersionOrder` compares what several
  loops over characters compute, and would need an induction for each of them;
* the properties of the violation runs, which are false.

## Not modelled

* Socket activation, options and profiling of the proxy, and logging, options and
  privileges of the runtime: one pass at start-up, no state that operations share.
* The command line of the hypervisor (`src/hypervisor.c`) is string substitution;
  `Launch` has that it can be built or not.
* Networking and namespaces are one pass of system calls and netlink messages at
  create, on objects of the kernel that no later command reads; `Launch` has their
  failure.
* Commands that only report (list, state, ps, events), and checkpoint, restore and
  update, which only print that they are not implemented.
* The handlers for hooks, linux, platform and vm of `config.json`, which copy values
  that no other section reads.
* JSON syntax, and the content of messages beyond what is told apart.

In the modules themselves: messages on the control and the I/O channel are written and
read whole (portions are in `ProxyClient`, `Qmp` and `Shim`); a state file is replaced
atomically, as `g_file_set_contents` does; `Container` has a stand-alone container, pods
being in `Bundle` and `Launch`; a runtime process may be killed in `Launch` only.  A frame
longer than the buffer of the shim (`shim/shim.c:392`), whose rest the shim takes for
frames of its own, and a version of fewer than three fields, for which `src/semver.c`
passes null pointers to `atol`, are left out.

## What could follow

1. An inductive invariant for the mount table of `Bundle`: which mounts cover which
   directories, and which of them a delete has still to undo.
2. `ProxyRegistry` composed with `VMIo`, for sessions allocated on a VM that has been
   closed.
3. An abstract container (absent, present, deleted) implemented by `Container`.
