------------------------------ MODULE StateFile ------------------------------
(* What a container keeps between two commands of the runtime: the state     *)
(* file.  StateFileCreate is the file that src/state.c writes for the        *)
(* configuration in memory, StateFileRead what the next command reads back,  *)
(* GetConfigAndState and ConfigUpdate the configuration it then works with.  *)
(* Strings are abstract, but absent (Null) and empty (Blank) ones are kept   *)
(* apart, as the two conversions treat them differently.                     *)
EXTENDS Integers, Sequences, Functions, TLC

Null == "null"
Blank == ""

Statuses == {"created", "running", "paused", "stopped", "stopping"}

NoPod == [set |-> FALSE, sandbox |-> FALSE, sandbox_name |-> Null, workloads |-> << >>]
NoProcess == [args |-> Null, cwd |-> Blank, terminal |-> FALSE, env |-> Null,
              uid |-> 0, streams |-> 0]
NoVM == [pid |-> 0, image |-> Blank, kernel_params |-> Null]
NoProxy == [ctl |-> Null, tty |-> Null, console |-> Null]

\* struct cc_oci_config as main allocates it.
NewConfig ==
  [status |-> "created", pid |-> 0, paths |-> Blank, root |-> Blank, mounts |-> << >>,
   annotations |-> << >>, process |-> NoProcess, console |-> Null, vm |-> NoVM,
   proxy |-> NoProxy, pod |-> NoPod]

NoFile == [there |-> FALSE]

\* A mount of the list config->oci.mounts.  `created' holds at most one path,
\* the directory_created of the mount.
Mount(dir, src) ==
  [dir |-> dir, src |-> src, ignore |-> FALSE, dest |-> << >>, created |-> {}]

OrBlank(s) == IF s = Null THEN Blank ELSE s

\* Mutant: every mount is written.
MountsToJsonAll(mounts) ==
  [i \in DOMAIN mounts |-> [destination |-> mounts[i].dest,
                            directory_created |-> mounts[i].created]]

\* cc_oci_mounts_to_json: a mount that is left to the VM is not written.
MountsToJson(mounts) ==
  LET array[i \in 0..Len(mounts)] ==
        IF i = 0 THEN << >>
        ELSE IF mounts[i].ignore THEN array[i - 1]
        ELSE Append(array[i - 1], [destination |-> mounts[i].dest,
                                   directory_created |-> mounts[i].created])
  IN array[Len(mounts)]

\* cc_oci_process_to_json: the user object is written without its members.
ProcessToJson(p) == [cwd |-> p.cwd, terminal |-> p.terminal, user |-> {},
                     args |-> p.args, env |-> p.env, streams |-> p.streams]

\* cc_oci_state_file_create: the content written, or NoFile when it refuses.
StateFileCreate(config, created) ==
  IF config.paths = Blank \/ config.status \notin Statuses
     \/ config.process.args = Null \/ config.process.cwd = Blank
  THEN NoFile
  ELSE [there |-> TRUE,
        pid |-> config.pid, paths |-> config.paths, status |-> config.status,
        created |-> created, mounts |-> MountsToJson(config.mounts),
        process |-> ProcessToJson(config.process), console |-> config.console,
        vm |-> [config.vm EXCEPT !.kernel_params = OrBlank(@)],
        proxy |-> [k \in DOMAIN NoProxy |-> OrBlank(config.proxy[k])],
        pod |-> [set |-> config.pod.set, sandbox |-> config.pod.sandbox,
                 sandbox_name |-> OrBlank(config.pod.sandbox_name)],
        annotations |-> config.annotations]

\* handle_state_mounts_section: a destination starts a mount, and a directory
\* belongs to the mount started last.
ReadMounts(array) ==
  [i \in 1..Len(array) |-> [Mount(<< >>, Null) EXCEPT
                              !.dest = array[i].destination,
                              !.created = array[i].directory_created]]

\* handle_state_process_section, with the handler of the configuration file:
\* an empty user object leaves the identifiers at 0.
ReadProcess(j) == [args |-> j.args, cwd |-> j.cwd, terminal |-> j.terminal,
                   env |-> j.env, uid |-> 0, streams |-> j.streams]

\* handle_state_pod_section: the directory of the workloads is not kept.
ReadPod(j) == IF ~j.set THEN NoPod
              ELSE [set |-> TRUE, sandbox |-> j.sandbox,
                    sandbox_name |-> j.sandbox_name, workloads |-> << >>]

\* handle_state_annotations_section: a key without a value is dropped, and the
\* list is built from its end.
ReadAnnotations(object) ==
  LET kept == SelectSeq(object, LAMBDA a : a.value # Null)
  IN [i \in DOMAIN kept |-> kept[Len(kept) + 1 - i]]

\* An element without a value is passed over.
Given(value, default) == IF value = Null THEN default ELSE value

\* handle_state_console_section
ReadConsole(path) == Given(path, Null)

\* handle_state_vm_section
ReadVm(j) == [pid |-> j.pid, image |-> Given(j.image, Blank),
              kernel_params |-> Given(j.kernel_params, Null)]

\* handle_state_proxy_section
ReadProxy(j) == [k \in DOMAIN NoProxy |-> Given(j[k], Null)]

\* handle_state_status_section, cc_oci_str_to_status
ReadStatus(name) == CHOOSE status \in Statuses \cup {"invalid"} :
                      status = name \/ (name \notin Statuses /\ status = "invalid")

\* The table state_handlers: a file in which one of the mandatory elements has
\* no value is not read at all.
Complete(file) ==
  /\ file.paths # Null /\ file.status # Null /\ file.created # Null
  /\ file.vm.image # Null /\ file.vm.kernel_params # Null
  /\ \E j, k \in DOMAIN NoProxy : j # k /\ file.proxy[j] # Null /\ file.proxy[k] # Null

\* cc_oci_state_file_read, of a file that is complete.
StateFileRead(file) ==
  [pid |-> file.pid, paths |-> file.paths, status |-> ReadStatus(file.status),
   created |-> file.created, mounts |-> ReadMounts(file.mounts),
   process |-> ReadProcess(file.process), console |-> ReadConsole(file.console),
   vm |-> ReadVm(file.vm), proxy |-> ReadProxy(file.proxy), pod |-> ReadPod(file.pod),
   annotations |-> ReadAnnotations(file.annotations)]

\* cc_oci_get_config_and_state
GetConfigAndState(config, state) ==
  [config EXCEPT !.paths = state.paths, !.pid = state.pid, !.status = state.status]

\* Mutant: the pod is not transferred.
ConfigUpdateNoPod(config, state) ==
  [config EXCEPT
     !.mounts = IF state.mounts # << >> THEN state.mounts ELSE @,
     !.process = IF @.args = Null THEN state.process ELSE @,
     !.console = IF state.console # Null THEN state.console ELSE @,
     !.vm = state.vm,
     !.proxy = state.proxy]

\* cc_oci_config_update: an element that the state does not have leaves the
\* configuration alone.
ConfigUpdate(config, state) ==
  [config EXCEPT
     !.mounts = IF state.mounts # << >> THEN state.mounts ELSE @,
     !.process = IF @.args = Null THEN state.process ELSE @,
     !.console = IF state.console # Null THEN state.console ELSE @,
     !.vm = state.vm,
     !.proxy = state.proxy,
     !.pod = IF state.pod.set THEN state.pod ELSE @]
=============================================================================
