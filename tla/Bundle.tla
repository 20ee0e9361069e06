------------------------------- MODULE Bundle -------------------------------
(* What becomes of the bundle of a container: `create' reads config.json     *)
(* (src/oci.c, oci-config.c, spec_handlers/), checks its version, makes its  *)
(* mounts (src/mount.c) and writes the state file; `start', `pause',         *)
(* `resume' and `kill' read that file and write it again (src/state.c);      *)
(* `delete' undoes the mounts from what the file says.  Several containers   *)
(* share the file system, and those of a pod share the directory of the      *)
(* workloads of its sandbox (src/pod.c).                                     *)
EXTENDS Mounts, Semver

CONSTANTS
  Scenarios,  \* the bundles that are run: a set of functions container -> bundle
  Faults,     \* the system calls that may fail: "mount", "save"
  MaxWrites   \* how often `pause', `resume' and `kill' rewrite state files

\* A config.json is made of the sections that have a handler here.
ASSUME BundleAssumption ==
  \A s \in Scenarios : \A c \in DOMAIN s :
    /\ s[c].sections \in Seq({"process", "root", "mounts", "annotations"})
    /\ s[c].mounts \in Seq([dir : Seq(STRING), src : STRING])
    /\ s[c].annotations \in Seq([key : STRING, value : STRING])

Containers == UNION {DOMAIN s : s \in Scenarios}

Supported == [major |-> 1, minor |-> 0, patch |-> <<"0", "-", "a", "1">>]

VARIABLES
  bundle,  \* config.json: [version, sections, mounts, annotations, uid]
  config,  \* [container -> the struct cc_oci_config of its command]
  file,    \* [container -> the content of its state file, or NoFile]
  pc,      \* [container -> where its command is]
  at,      \* [container -> the mount that the command is at]
  stuck,   \* [container -> a delete has failed]
  writes   \* how often a state file has been rewritten

vars == <<bundle, config, file, pc, at, stuck, writes, fsvars>>

Rootfs(c) == <<c, "rootfs">>
RuntimeDir(c) == <<c, "run">>
Workloads(name) == <<name, "run", "workloads">>

HostDirs == {<< >>} \cup UNION {{<<c>>, Rootfs(c)} : c \in Containers}

Init ==
  /\ bundle \in Scenarios
  /\ config = [c \in DOMAIN bundle |-> NewConfig]
  /\ file = [c \in DOMAIN bundle |-> NoFile]
  /\ pc = [c \in DOMAIN bundle |-> "new"]
  /\ at = [c \in DOMAIN bundle |-> 1]
  /\ stuck = [c \in DOMAIN bundle |-> FALSE]
  /\ writes = 0
  /\ dirs = {<<Host, p>> : p \in HostDirs}
  /\ files = {} /\ mtab = << >>
  /\ lost = [c \in DOMAIN bundle |-> {}]

Goto(c, where) == pc' = [pc EXCEPT ![c] = where]
Step(c, n) == at' = [at EXCEPT ![c] = n]
Set(c, cfg) == config' = [config EXCEPT ![c] = cfg]

-----------------------------------------------------------------------------
(* Reading config.json.                                                      *)

\* Mutant: the list is replaced.
AddContainerMountAlone(c, cfg) ==
  [cfg EXCEPT !.mounts = <<Mount(<<c, "rootfs">>, IF cfg.root = Blank THEN "name" ELSE "dir")>>]

\* add_container_mount: the root directory of the container, whatever it is by
\* now, under the identifier of the container.
AddContainerMount(c, cfg) ==
  [cfg EXCEPT !.mounts = Append(@, Mount(<<c, "rootfs">>,
                                         IF cfg.root = Blank THEN "name" ELSE "dir"))]

\* cc_pod_handle_annotations
PodAnnotation(c, cfg, a) ==
  LET pod == [cfg.pod EXCEPT !.set = TRUE]
      With(p) == [cfg EXCEPT !.pod = p]
  IN CASE a.value = Null \/ a.key \notin {"type", "name", "ocid"} -> cfg
       [] a.key = "type" /\ a.value = "sandbox" ->
            AddContainerMount(c, With([pod EXCEPT !.sandbox = TRUE, !.sandbox_name = c,
                                                  !.workloads = Workloads(c)]))
       [] a.key = "type" /\ a.value = "container" -> With([pod EXCEPT !.sandbox = FALSE])
       [] a.key = "name" ->
            AddContainerMount(c, With([pod EXCEPT !.sandbox_name = a.value,
                                                  !.workloads = Workloads(a.value)]))
       [] OTHER -> With(pod)

\* annotations_handle_section: an annotation the pod code refuses is kept.
AnnotationsHandleSection(c, cfg) ==
  LET anns == bundle[c].annotations
      read[i \in 0..Len(anns)] ==
        IF i = 0 THEN cfg
        ELSE [PodAnnotation(c, read[i - 1], anns[i]) EXCEPT !.annotations = <<anns[i]>> \o @]
  IN read[Len(anns)]

\* mounts_handle_section: nothing is read when the list is not empty.
MountsHandleSection(c, cfg) ==
  IF cfg.mounts # << >> THEN cfg
  ELSE [cfg EXCEPT !.mounts = [i \in DOMAIN bundle[c].mounts |->
                                 Mount(bundle[c].mounts[i].dir, bundle[c].mounts[i].src)]]

\* save_current_mount refuses a mount without its type.
MountsRefused(c, cfg) ==
  cfg.mounts = << >> /\ \E m \in Range(bundle[c].mounts) : m.src = "untyped"

\* root_handle_section and process_handle_section
RootHandleSection(c, cfg) == [cfg EXCEPT !.root = "dir"]
ProcessHandleSection(c, cfg) ==
  [cfg EXCEPT !.process = [args |-> "args", cwd |-> "/", terminal |-> TRUE, env |-> Null,
                           uid |-> bundle[c].uid, streams |-> -1]]

HandleSection(c, name, cfg) ==
  CASE name = "root" -> RootHandleSection(c, cfg)
    [] name = "process" -> ProcessHandleSection(c, cfg)
    [] name = "mounts" -> MountsHandleSection(c, cfg)
    [] name = "annotations" -> AnnotationsHandleSection(c, cfg)

\* cc_oci_config_file_parse and cc_oci_process_config: the handlers run in the
\* order of the sections in the file ...
ReadSections(c) ==
  LET sections == bundle[c].sections
      read[i \in 0..Len(sections)] ==
        IF i = 0 THEN config[c] ELSE HandleSection(c, sections[i], read[i - 1])
  IN read

\* ... and the first that fails ends create.
ProcessConfig(c) ==
  /\ pc[c] = "new"
  /\ LET sections == bundle[c].sections
         refused == \E i \in DOMAIN sections :
                      sections[i] = "mounts" /\ MountsRefused(c, ReadSections(c)[i - 1])
     IN IF refused THEN Goto(c, "refused") /\ UNCHANGED config
        ELSE Goto(c, "parsed") /\ Set(c, ReadSections(c)[Len(sections)])
  /\ UNCHANGED <<bundle, file, at, stuck, writes, fsvars>>

\* cc_oci_config_check, then cc_oci_runtime_dir_setup.
ConfigCheck(c) ==
  /\ pc[c] = "parsed"
  /\ IF SemverCmp(Supported, bundle[c].version) < 0
     THEN Goto(c, "refused") /\ UNCHANGED <<config, dirs>>
     ELSE /\ Set(c, [config[c] EXCEPT !.paths = "paths"])
          /\ dirs' = Mkdirs(RuntimeDir(c))
          /\ Goto(c, "mounts")
  /\ UNCHANGED <<bundle, file, at, stuck, writes, files, mtab, lost>>

-----------------------------------------------------------------------------
(* Making the mounts.                                                        *)

\* cc_oci_get_workload_dir: "" for a pod that has not been named.
WorkloadDir(c) == IF config[c].pod.set THEN config[c].pod.workloads ELSE Rootfs(c)

Dest(c, m) == WorkloadDir(c) \o m.dir

\* The directory that must exist for m, whose source is there.
MountDir(c, m) == IF m.src = "file" THEN Parent(Dest(c, m)) ELSE Dest(c, m)

SetMount(c, m) == Set(c, [config[c] EXCEPT !.mounts[at[c]] = m])

\* The mount at hand is one of the list, and create has not failed.
AtMount(c) == pc[c] = "mounts" /\ at[c] \in DOMAIN config[c].mounts

\* cc_oci_handle_mounts: a standard mount is left to the VM.
SkipIgnored(c) ==
  /\ AtMount(c)
  /\ LET m == config[c].mounts[at[c]]
     IN MountIgnore(m) /\ SetMount(c, [m EXCEPT !.ignore = TRUE])
  /\ Step(c, at[c] + 1)
  /\ UNCHANGED <<bundle, file, pc, stuck, writes, fsvars>>

\* cc_oci_handle_mounts: the path of the source does not exist.  The mount is
\* passed over, and not marked.
SkipMissing(c) ==
  /\ AtMount(c)
  /\ LET m == config[c].mounts[at[c]]
     IN ~MountIgnore(m) /\ m.src = "gone" /\ SetMount(c, [m EXCEPT !.dest = Dest(c, m)])
  /\ Step(c, at[c] + 1)
  /\ UNCHANGED <<bundle, file, pc, stuck, writes, fsvars>>

\* cc_oci_perform_mount: a source that is no path cannot be read, and a file
\* is not mounted on a directory; the file to mount on is made first.
CanMount(m, dest) == m.src # "name" /\ (m.src = "file" => Resolve(dest) \notin dirs)

Creat(m, dest) == IF m.src = "file" THEN {Resolve(dest)} ELSE {}

PerformMount(c, m, dest) ==
  LET vol == <<c, at[c]>>
      root == <<vol, << >>>>
  IN /\ mtab' = Append(mtab, [at |-> Resolve(dest), vol |-> vol])
     /\ files' = files \cup Creat(m, dest) \cup (IF m.src = "file" THEN {root} ELSE {})
     /\ dirs' = Mkdirs(MountDir(c, m)) \cup (IF m.src = "dir" THEN {root} ELSE {})

\* cc_oci_handle_mounts: one mount made.
HandleMount(c) ==
  /\ AtMount(c)
  /\ LET m == config[c].mounts[at[c]]
     IN /\ ~MountIgnore(m) /\ m.src # "gone"
        /\ CanMkdir(MountDir(c, m)) /\ CanMount(m, Dest(c, m))
        /\ SetMount(c, [m EXCEPT !.dest = Dest(c, m),
                                 !.created = FirstMissing(MountDir(c, m))])
        /\ PerformMount(c, m, Dest(c, m))
  /\ Step(c, at[c] + 1)
  /\ UNCHANGED <<bundle, file, pc, stuck, writes, lost>>

\* cc_oci_handle_mounts: the directory or the mount cannot be made.  Create ends
\* here, and leaves what it has made, the file to mount on included.
MountFails(c) ==
  /\ AtMount(c)
  /\ LET m == config[c].mounts[at[c]]
     IN /\ ~MountIgnore(m) /\ m.src # "gone"
        /\ \/ ~CanMkdir(MountDir(c, m)) /\ UNCHANGED <<dirs, files>>
           \/ /\ CanMkdir(MountDir(c, m)) /\ ~CanMount(m, Dest(c, m))
              /\ dirs' = Mkdirs(MountDir(c, m)) /\ UNCHANGED files
           \/ /\ CanMkdir(MountDir(c, m)) /\ CanMount(m, Dest(c, m))
              /\ "mount" \in Faults
              /\ dirs' = Mkdirs(MountDir(c, m))
              /\ files' = files \cup Creat(m, Dest(c, m))
  /\ Goto(c, "failed")
  /\ UNCHANGED <<bundle, config, file, at, stuck, writes, mtab, lost>>

\* cc_pod_is_vm
IsVM(cfg) == ~cfg.pod.set \/ cfg.pod.sandbox

\* cc_oci_vm_launch writes the file before the VM runs ...
Launch(c) ==
  /\ pc[c] = "mounts" /\ at[c] \notin DOMAIN config[c].mounts
  /\ IsVM(config[c])
  /\ file' = [file EXCEPT ![c] = StateFileCreate(config[c], "now")]
  /\ Goto(c, IF file'[c] = NoFile THEN "failed" ELSE "launch")
  /\ UNCHANGED <<bundle, config, at, stuck, writes, fsvars>>

Launched(cfg) == [cfg EXCEPT !.pid = 1, !.vm.pid = 2, !.proxy.ctl = "ctl", !.proxy.tty = "tty"]

\* ... and again once it knows the pids and the sockets, if it gets that far.
LaunchEnds(c) ==
  /\ pc[c] = "launch"
  /\ \/ /\ Set(c, Launched(config[c]))
        /\ file' = [file EXCEPT ![c] = StateFileCreate(Launched(config[c]), "now")]
     \/ "save" \in Faults /\ Set(c, NewConfig) /\ UNCHANGED file
  /\ Goto(c, "saved")
  /\ UNCHANGED <<bundle, at, stuck, writes, fsvars>>

\* cc_pod_container_create: the one write of a container in a pod, whose VM is
\* that of the sandbox.
PodCreate(c) ==
  /\ pc[c] = "mounts" /\ at[c] \notin DOMAIN config[c].mounts
  /\ ~IsVM(config[c])
  /\ IF \E s \in DOMAIN bundle : s = config[c].pod.sandbox_name /\ pc[s] = "saved"
     THEN /\ Set(c, [config[c] EXCEPT !.pid = 1])
          /\ file' = [file EXCEPT ![c] = StateFileCreate(config'[c], "now")]
          /\ Goto(c, IF file'[c] = NoFile THEN "failed" ELSE "saved")
     ELSE Goto(c, "failed") /\ UNCHANGED <<config, file>>
  /\ UNCHANGED <<bundle, at, stuck, writes, fsvars>>

-----------------------------------------------------------------------------
(* The commands that rewrite the state file.                                 *)

\* The configuration of a new command: from the state file alone.
FromFile(c) ==
  LET state == StateFileRead(file[c])
  IN ConfigUpdate(GetConfigAndState(NewConfig, state), state)

Rewrite(c, cfg, status) ==
  /\ file' = [file EXCEPT ![c] = StateFileCreate([cfg EXCEPT !.status = status], @.created)]
  /\ Set(c, [cfg EXCEPT !.status = status])
  /\ UNCHANGED <<bundle, pc, at, stuck, fsvars>>

\* cc_oci_start: in a command of its own, or in `run', after the create of the
\* same process.
Start(c) ==
  /\ pc[c] = "saved" /\ file[c].status = "created"
  /\ \/ Rewrite(c, FromFile(c), "running")
     \/ /\ config[c].root # Blank
        /\ Rewrite(c, ConfigUpdate(config[c], StateFileRead(file[c])), "running")
  /\ UNCHANGED writes

Write == writes < MaxWrites /\ writes' = writes + 1

\* cc_oci_toggle
Toggle(c) ==
  /\ pc[c] = "saved" /\ Write
  /\ \E status \in {"paused", "running"} \ {file[c].status} : Rewrite(c, FromFile(c), status)

\* cc_oci_kill: the status ends as stopped; as it was, when the shim cannot be
\* signalled; as stopping, when the proxy cannot be asked.
Kill(c) ==
  /\ pc[c] = "saved" /\ Write
  /\ \E status \in {"stopped", "stopping", file[c].status} :
       /\ FromFile(c).pod.set /\ FromFile(c).pod.sandbox => status = "stopped"
       /\ Rewrite(c, FromFile(c), status)

-----------------------------------------------------------------------------
(* Delete.                                                                   *)

\* handle_command_stop
Stop(c) ==
  /\ pc[c] = "saved"
  /\ Set(c, FromFile(c))
  /\ Goto(c, "unmount") /\ Step(c, 1)
  /\ UNCHANGED <<bundle, file, stuck, writes, fsvars>>

\* Mutant: a mount that cannot be undone is passed over.
UnmountGoesOn(c) ==
  /\ pc[c] = "unmount" /\ at[c] \in DOMAIN config[c].mounts
  /\ LET m == config[c].mounts[at[c]]
     IN IF CanUmount(m.dest) THEN Umount(m.dest) ELSE UNCHANGED mtab
  /\ Step(c, at[c] + 1)
  /\ UNCHANGED <<bundle, config, file, pc, stuck, writes, dirs, files, lost>>

\* cc_oci_handle_unmounts, one mount: the first that fails ends the delete.
Unmount(c) ==
  /\ pc[c] = "unmount" /\ at[c] \in DOMAIN config[c].mounts
  /\ LET m == config[c].mounts[at[c]]
     IN IF CanUmount(m.dest)
        THEN Umount(m.dest) /\ Step(c, at[c] + 1) /\ UNCHANGED <<pc, stuck>>
        ELSE /\ Goto(c, "saved") /\ stuck' = [stuck EXCEPT ![c] = TRUE]
             /\ UNCHANGED <<mtab, at>>
  /\ UNCHANGED <<bundle, config, file, writes, dirs, files, lost>>

\* cc_oci_handle_unmounts: everything is unmounted, the directories are next.
UnmountEnds(c) ==
  /\ pc[c] = "unmount" /\ at[c] \notin DOMAIN config[c].mounts
  /\ Goto(c, "remove") /\ Step(c, 1)
  /\ UNCHANGED <<bundle, config, file, stuck, writes, fsvars>>

\* cc_oci_handle_unmounts, one directory.
RemoveDirectory(c) ==
  /\ pc[c] = "remove" /\ at[c] \in DOMAIN config[c].mounts
  /\ LET created == config[c].mounts[at[c]].created
     IN IF created = {} THEN UNCHANGED fsvars
        ELSE \E p \in created : RmRf(c, p)
  /\ Step(c, at[c] + 1)
  /\ UNCHANGED <<bundle, config, file, pc, stuck, writes>>

\* cc_oci_cleanup: the state file, then the runtime directory, which rm -rf
\* cannot remove when something is mounted on or below it.  Without the state
\* file no later command finds the container.
Cleanup(c) ==
  /\ pc[c] = "remove" /\ at[c] \notin DOMAIN config[c].mounts
  /\ file' = [file EXCEPT ![c] = NoFile]
  /\ RmRf(c, RuntimeDir(c))
  /\ Goto(c, IF Resolve(RuntimeDir(c)) \in dirs' THEN "unremoved" ELSE "gone")
  /\ UNCHANGED <<bundle, config, at, stuck, writes>>

Next ==
  \E c \in DOMAIN bundle :
    \/ ProcessConfig(c) \/ ConfigCheck(c)
    \/ SkipIgnored(c) \/ SkipMissing(c) \/ HandleMount(c) \/ MountFails(c)
    \/ Launch(c) \/ LaunchEnds(c) \/ PodCreate(c)
    \/ Start(c) \/ Toggle(c) \/ Kill(c)
    \/ Stop(c) \/ Unmount(c) \/ UnmountEnds(c) \/ RemoveDirectory(c) \/ Cleanup(c)

Spec == Init /\ [][Next]_vars

-----------------------------------------------------------------------------
(* Properties.                                                               *)

\* The mounts that config.json asks of the host.
Wanted(c) == {m \in Range(bundle[c].mounts) : ~MountIgnore(m)}

Related(p, q) == Leads(p, q) \/ Leads(q, p)

\* No mount of c has a destination below that of another one.
Flat(c) == \A m, n \in Wanted(c) : m.dir # n.dir => ~Related(m.dir, n.dir)

\* No other container mounts on the directories that c mounts on.
Alone(c) == \A d \in DOMAIN bundle \ {c} : \A m \in Wanted(c), n \in Wanted(d) :
              ~Related(m.dir, n.dir)

\* Delete fails to undo the mounts only where one of them lies below another
\* (they are undone in the order they were made), where a source was missing at
\* create (the mount is in the state file all the same) or where another
\* container of the pod mounts on the same directories.
DeleteStuck ==
  \A c \in DOMAIN bundle :
    stuck[c] => ~Flat(c) \/ ~Alone(c) \/ \E m \in Wanted(c) : m.src = "gone"

\* cc_oci_handle_unmounts removes the directories that create made with rm -rf,
\* and cc_oci_cleanup the runtime directory: neither goes through a mount of the
\* container itself, which would empty the source on the host.
SourcesKept ==
  \A c \in DOMAIN bundle : Alone(c) => \A v \in lost[c] : v[1] # c

\* A container that is deleted leaves no mount behind; and when all are, and no
\* rm -rf met a mount, the directories are those that were there before.
DeleteUndoes ==
  /\ \A c \in DOMAIN bundle :
       pc[c] = "gone" /\ Alone(c) => \A m \in Range(mtab) : m.vol[1] # c
  /\ (\A c \in DOMAIN bundle : pc[c] = "gone" /\ Alone(c) /\ lost[c] = {})
       => {n[2] : n \in {d \in dirs : d[1] = Host}} = HostDirs

\* Read from a config.json in the order that the specification lists its
\* sections, every mount of it is on the list, and so is the root directory of a
\* container that names its pod.
SectionsLoaded ==
  \A c \in DOMAIN bundle :
    /\ pc[c] = "mounts"
    /\ bundle[c].sections = <<"process", "root", "mounts", "annotations">>
    => /\ \A m \in Range(bundle[c].mounts) : \E n \in Range(config[c].mounts) :
            n.dir = m.dir /\ n.src = m.src
       /\ config[c].pod.set /\ config[c].pod.sandbox_name # Null =>
            \E n \in Range(config[c].mounts) : n.dir = <<c, "rootfs">> /\ n.src = "dir"

\* What a rewrite of the state file has no reason to change.
Lasting(f) == [k \in DOMAIN f \ {"status", "annotations"} |-> f[k]]

\* Every state file that is written can be read: no mandatory element is left
\* out.  Start, pause, resume and kill write it anew from what they read: the
\* status changes, the annotations may go, and everything else that later
\* commands read comes back as it was.
RewriteKeeps ==
  [][\A c \in DOMAIN bundle :
       file'[c] # file[c] =>
         /\ file'[c].there => Complete(file'[c])
         /\ pc[c] = "saved" =>
              file'[c].there /\ Lasting(file'[c]) = Lasting(file[c])]_vars

PlainVersions == {v \in UNION {{s[c].version : c \in DOMAIN s} : s \in Scenarios} :
                    PlainPatch(v.patch)}

\* The full comparison orders versions as the comments of semver.c say, for the
\* version of the bundle and any other plain one.
VersionOrder ==
  \A c \in DOMAIN bundle : \A v \in PlainVersions :
    pc[c] = "new" /\ bundle[c].version \in PlainVersions =>
      /\ SemverCmpFull(bundle[c].version, v) < 0 <=> Precedes(bundle[c].version, v)
      /\ SemverCmpFull(bundle[c].version, v) > 0 <=> Precedes(v, bundle[c].version)
=============================================================================
