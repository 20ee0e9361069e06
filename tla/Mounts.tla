------------------------------- MODULE Mounts -------------------------------
(* The file system under the mounts of src/mount.c.  A path is a sequence of *)
(* names, a node a directory or a file <<volume, path>> of a volume: the     *)
(* host, or the source of a mount, named after the container and the place   *)
(* of the mount in its list.  A path is resolved through the mounts on its   *)
(* way, so a mount point below another one is a node of that one's source.   *)
EXTENDS StateFile

CONSTANT Ignored  \* the destinations of cc_oci_mounts_to_ignore

VARIABLES
  dirs,   \* the nodes that are directories
  files,  \* the nodes that are regular files
  mtab,   \* the mounts, in the order they were made: [at: node, vol: volume]
  lost    \* [container -> volumes whose content its delete removed]

fsvars == <<dirs, files, mtab, lost>>

Host == <<"host", 0>>

\* What is seen at a node: the root of the last volume mounted on it.
Covered(node) ==
  LET seen[i \in 0..Len(mtab)] ==
        IF i = 0 THEN node
        ELSE LET n == seen[i - 1]
             IN IF mtab[i].at = n THEN <<mtab[i].vol, << >>>> ELSE n
  IN seen[Len(mtab)]

Resolve(path) ==
  LET to[i \in 0..Len(path)] ==
        IF i = 0 THEN Covered(<<Host, << >>>>)
        ELSE LET n == to[i - 1] IN Covered(<<n[1], Append(n[2], path[i])>>)
  IN to[Len(path)]

IsDir(path) == Resolve(path) \in dirs

\* The path q is p, or goes on from it.
Leads(p, q) == Len(p) <= Len(q) /\ p = SubSeq(q, 1, Len(p))

Parent(path) == SubSeq(path, 1, Len(path) - 1)

\* Paths from the root of the host down to `path'.
Above(path) == {SubSeq(path, 1, n) : n \in 0..Len(path)}

\* Mutant: the directory itself, and not the parent created first.
FirstMissingDeepest(path) == IF IsDir(path) THEN {} ELSE {path}

\* The parent that must be created first for `path' to exist: the loop of
\* cc_oci_handle_mounts climbs until it meets a directory.
FirstMissing(path) ==
  LET missing == {p \in Above(path) : ~IsDir(p) /\ IsDir(Parent(p))}
  IN IF IsDir(path) THEN {}
     ELSE {CHOOSE p \in missing : \A q \in missing : Len(p) >= Len(q)}

\* g_mkdir_with_parents
CanMkdir(path) == \A p \in Above(path) : Resolve(p) \notin files
Mkdirs(path) == dirs \cup {Resolve(p) : p \in Above(path)}

\* cc_oci_mount_ignore
MountIgnore(m) == m.dir \in Ignored

\* umount(2) takes the volume on top of the path, if nothing is mounted in it.
CanUmount(path) ==
  /\ Resolve(path) \in {<<m.vol, << >>>> : m \in Range(mtab)}
  /\ \A m \in Range(mtab) : m.at[1] # Resolve(path)[1]

Umount(path) ==
  mtab' = SelectSeq(mtab, LAMBDA m : m.vol # Resolve(path)[1])

\* rm -rf does not stop at mount points: it empties the volumes it reaches, and
\* leaves the directories that something is mounted on or below.
Below(node, top) == node[1] = top[1] /\ Leads(top[2], node[2])

Reached(top) ==
  LET vols[i \in 0..Len(mtab)] ==
        IF i = 0 THEN IF top \in dirs THEN {top[1]} \ {Host} ELSE {}
        ELSE LET vs == vols[i - 1]
             IN IF Below(mtab[i].at, top) \/ mtab[i].at[1] \in vs
                THEN vs \cup {mtab[i].vol} ELSE vs
  IN vols[Len(mtab)]

Busy(node) ==
  \/ node[2] = << >>
  \/ \E m \in Range(mtab) : m.at[1] = node[1] /\ Leads(node[2], m.at[2])

Removed(top) ==
  LET vols == Reached(top)
  IN {n \in dirs \cup files : (Below(n, top) \/ n[1] \in vols) /\ ~Busy(n)}

RmRf(c, path) ==
  LET top == Resolve(path)
  IN /\ dirs' = dirs \ Removed(top)
     /\ files' = files \ Removed(top)
     /\ lost' = [lost EXCEPT ![c] = @ \cup Reached(top)]
     /\ UNCHANGED mtab
=============================================================================
