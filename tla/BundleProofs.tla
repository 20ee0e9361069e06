---------------------------- MODULE BundleProofs ----------------------------
(* Proofs about Bundle, for any bundles whose config.json is made of the     *)
(* sections that have a handler, with any mounts and annotations: what a     *)
(* state file holds through the commands that rewrite it, and what is on the *)
(* list of the mounts when the sections have been read.                      *)
EXTENDS Bundle, WellFoundedInduction, TLAPS

-----------------------------------------------------------------------------
(* Induction, and functions defined by recursion.                            *)

\* A set of numbers that holds 0, and each successor of what it holds, holds them
\* all: induction for a predicate that is given as a set.
LEMMA Induction ==
  ASSUME NEW S, 0 \in S, \A n \in Nat : n \in S => n + 1 \in S
  PROVE  Nat \subseteq S
<1> DEFINE less == OpToRel(<, Nat)
<1> DEFINE rest == Nat \ S
<1>1. \A s : s \in less <=> s \in Nat \X Nat /\ s[1] < s[2]
  BY Zenon DEF OpToRel
<1>2. IsWellFoundedOn(less, Nat) /\ rest \subseteq Nat
  BY NatLessThanWellFounded, Zenon
<1> HIDE DEF less
<1>3. ASSUME rest # {}
      PROVE  FALSE
  <2>1. PICK x \in rest : \A y \in rest : ~(<<y, x>> \in less)
    <3> HIDE DEF rest
    <3>1. QED
      BY <1>2, <1>3, WFMin, Zenon
  <2>2. x - 1 \in Nat /\ x - 1 < x
    OBVIOUS
  <2>3. x - 1 \notin rest
    BY <2>1, <2>2, <1>1, Zenon
  <2>4. QED
    BY <2>2, <2>3
<1>4. QED
  BY <1>3

\* f is built from base by the n functions of step.
Iterates(f, X, n, base, step) ==
  f \in [0..n -> X] /\ f[0] = base /\ \A i \in 1..n : f[i] = step[i][f[i - 1]]

\* n functions on X.
Steps(X, n) == [1..n -> [X -> X]]

\* A function built step by step exists.
LEMMA Recursion ==
  ASSUME NEW X, NEW n \in Nat, NEW base \in X, NEW step \in Steps(X, n)
  PROVE  \E f : Iterates(f, X, n, base, step)
<1>0. step \in [1..n -> [X -> X]]
  BY Zenon DEF Steps
<1> DEFINE Upto(m) == \E f \in [0..m -> X] :
                        f[0] = base /\ \A i \in 1..m : f[i] = step[i][f[i - 1]]
<1> DEFINE S == {m \in Nat : m > n \/ Upto(m)}
<1>1. 0 \in S
  <2> DEFINE g == [i \in 0..0 |-> base]
  <2>1. g \in [0..0 -> X] /\ g[0] = base /\ \A i \in 1..0 : g[i] = step[i][g[i - 1]]
    OBVIOUS
  <2>2. QED
    BY <2>1, Zenon
<1>2. ASSUME NEW m \in Nat, m \in S
      PROVE  m + 1 \in S
  <2>1. CASE m + 1 > n
    BY <2>1
  <2>2. CASE m + 1 <= n
    <3>1. PICK f \in [0..m -> X] : f[0] = base /\ \A i \in 1..m : f[i] = step[i][f[i - 1]]
      BY <1>2, <2>2
    <3> DEFINE g == [i \in 0..(m + 1) |-> IF i = m + 1 THEN step[m + 1][f[m]] ELSE f[i]]
    <3>2. m + 1 \in 1..n
      BY <2>2
    <3>3. step[m + 1][f[m]] \in X
      BY <3>2, <1>0
    <3>4. g \in [0..(m + 1) -> X]
      BY <3>3
    <3>5. g[0] = base
      BY <3>1
    <3>6. ASSUME NEW i \in 1..(m + 1)
          PROVE  g[i] = step[i][g[i - 1]]
      <4>1. g[i - 1] = f[i - 1]
        OBVIOUS
      <4>2. CASE i = m + 1
        BY <4>1, <4>2
      <4>3. CASE i # m + 1
        <5>1. i \in 1..m /\ g[i] = f[i]
          BY <4>3
        <5>2. QED
          BY <5>1, <4>1, <3>1
      <4>4. QED
        BY <4>2, <4>3, Zenon
    <3>7. Upto(m + 1)
      BY <3>4, <3>5, <3>6, Zenon
    <3> HIDE DEF Upto
    <3>8. QED
      BY <3>7
  <2>3. QED
    BY <2>1, <2>2
<1>3. \A m \in Nat : m \in S => m + 1 \in S
  BY <1>2, Zenon
<1>4. Nat \subseteq S
  <2> HIDE DEF S
  <2>1. QED
    BY <1>1, <1>3, Induction
<1>5. Upto(n)
  <2>1. n \in S
    BY <1>4, Zenon
  <2>2. ~(n > n)
    OBVIOUS
  <2>3. QED
    BY <2>1, <2>2, Zenon
<1>6. QED
  BY <1>5, Zenon DEF Iterates

\* f obeys the equations of the recursion, whatever its values are.
Follows(f, X, n, base, step) ==
  f[0] = base /\ \A i \in 1..n : f[i - 1] \in X => f[i] = step[i][f[i - 1]]

\* Only one function does.
LEMMA Unfolds ==
  ASSUME NEW X, NEW n \in Nat, NEW base \in X, NEW step \in Steps(X, n),
         NEW f, Iterates(f, X, n, base, step), NEW F, Follows(F, X, n, base, step)
  PROVE  \A i \in 0..n : F[i] = f[i]
<1> DEFINE S == {k \in Nat : k <= n => F[k] = f[k]}
<1>1. 0 \in S
  BY Zenon DEF Iterates, Follows
<1>2. \A k \in Nat : k \in S => k + 1 \in S
  <2>1. SUFFICES ASSUME NEW k \in Nat, k \in S, k + 1 <= n
                 PROVE  F[k + 1] = f[k + 1]
    OBVIOUS
  <2>2. k + 1 \in 1..n /\ (k + 1) - 1 = k /\ F[k] = f[k] /\ k \in 0..n
    BY <2>1
  <2>3. f[k] \in X /\ f[k + 1] = step[k + 1][f[k]]
    BY <2>2, Zenon DEF Iterates
  <2>4. QED
    BY <2>2, <2>3 DEF Follows
<1>3. Nat \subseteq S
  <2> HIDE DEF S
  <2>1. QED
    BY <1>1, <1>2, Induction
<1>4. QED
  BY <1>3

-----------------------------------------------------------------------------
(* The list of the mounts, in the file and out of it.                        *)

\* s is a sequence, whatever its elements are.
IsSeq(s) == s \in Seq({s[i] : i \in DOMAIN s})

\* The element that cc_oci_mounts_to_json writes for a mount, ...
Json(m) == [destination |-> m.dest, directory_created |-> m.created]

\* ... and those it may write for a list.
JsonOf(ms) == {Json(ms[i]) : i \in 1..Len(ms)}

\* A function on 1..n is a sequence of length n.
LEMMA FunctionIsSeq ==
  ASSUME NEW n \in Nat, NEW s, s = [i \in 1..n |-> s[i]]
  PROVE  IsSeq(s) /\ Len(s) = n /\ DOMAIN s = 1..n
<1>1. DOMAIN s = 1..n
  BY Zenon
<1>2. s \in [1..n -> {s[i] : i \in 1..n}]
  BY Zenon
<1>3. QED
  BY <1>1, <1>2 DEF IsSeq

\* The array is built as the loop builds it.
LEMMA JsonLoop ==
  ASSUME NEW ms, IsSeq(ms)
  PROVE  \E f \in [0..Len(ms) -> Seq(JsonOf(ms))] :
           /\ f[0] = << >>
           /\ \A i \in 1..Len(ms) :
                f[i] = IF ms[i].ignore THEN f[i - 1] ELSE Append(f[i - 1], Json(ms[i]))
           /\ MountsToJson(ms) = f[Len(ms)]
<1> DEFINE n == Len(ms)
           X == Seq(JsonOf(ms))
           step == [i \in 1..n |-> [x \in X |-> IF ms[i].ignore THEN x
                                                ELSE Append(x, Json(ms[i]))]]
           F == CHOOSE array : array =
                  [i \in 0..n |-> IF i = 0 THEN << >>
                                  ELSE IF ms[i].ignore THEN array[i - 1]
                                  ELSE Append(array[i - 1], Json(ms[i]))]
<1>1. n \in Nat /\ << >> \in X
  BY DEF IsSeq
<1>2. MountsToJson(ms) = F[n]
  BY Zenon DEF MountsToJson, Json
<1>3. ASSUME NEW i \in 1..n
      PROVE  Json(ms[i]) \in JsonOf(ms)
  BY Zenon DEF JsonOf
<1>4. ASSUME NEW i \in 1..n, NEW x \in X
      PROVE  Append(x, Json(ms[i])) \in X
  <2> HIDE DEF n
  <2>1. QED
    BY <1>3
<1>5. step \in Steps(X, n)
  <2> HIDE DEF X, n
  <2>1. QED
    BY <1>4, Zenon DEF Steps
<1>6. PICK f : Iterates(f, X, n, << >>, step)
  <2> HIDE DEF X, n, step
  <2>1. QED
    BY <1>1, <1>5, Recursion, Zenon
<1>7. ASSUME NEW i \in 1..n
      PROVE  /\ i - 1 \in 0..n /\ i # 0 /\ f[i - 1] \in X
             /\ f[i] = IF ms[i].ignore THEN f[i - 1] ELSE Append(f[i - 1], Json(ms[i]))
  <2> HIDE DEF X, n
  <2>1. i - 1 \in 0..n /\ i # 0
    BY <1>1
  <2>2. QED
    BY <2>1, <1>6, Zenon DEF Iterates
<1>8. f = [i \in 0..n |-> IF i = 0 THEN << >>
                          ELSE IF ms[i].ignore THEN f[i - 1]
                          ELSE Append(f[i - 1], Json(ms[i]))]
  <2> HIDE DEF X, n, step
  <2>1. \A i \in 0..n : i # 0 => i \in 1..n
    BY <1>1
  <2>2. QED
    BY <2>1, <1>6, <1>7, Zenon DEF Iterates
<1>9. F = [i \in 0..n |-> IF i = 0 THEN << >>
                          ELSE IF ms[i].ignore THEN F[i - 1]
                          ELSE Append(F[i - 1], Json(ms[i]))]
  <2> HIDE DEF X, n, step
  <2>1. QED
    BY <1>8, Zenon
<1> HIDE DEF F
<1>10. \A i \in 1..n : F[i] = IF ms[i].ignore THEN F[i - 1] ELSE Append(F[i - 1], Json(ms[i]))
  <2> HIDE DEF X, n, step
  <2>1. \A i \in 1..n : i \in 0..n /\ i # 0
    BY <1>1
  <2>2. QED
    BY <2>1, <1>9, Zenon
<1>11. F[0] = << >>
  <2> HIDE DEF X, n, step
  <2>1. 0 \in 0..n
    BY <1>1
  <2>2. QED
    BY <2>1, <1>9, Zenon
<1> DEFINE S == {k \in Nat : k <= n => F[k] = f[k]}
<1>12. 0 \in S
  BY <1>11, <1>6 DEF Iterates
<1>13. \A k \in Nat : k \in S => k + 1 \in S
  <2> HIDE DEF X, n, step
  <2>1. SUFFICES ASSUME NEW k \in Nat, k \in S, k + 1 <= n
                 PROVE  F[k + 1] = f[k + 1]
    OBVIOUS
  <2>2. k + 1 \in 1..n /\ (k + 1) - 1 = k /\ F[k] = f[k]
    BY <2>1, <1>1
  <2>3. QED
    BY <2>2, <1>7, <1>10
<1>14. n \in S
  <2> HIDE DEF S, X, n, step
  <2>1. QED
    BY <1>12, <1>13, <1>1, Induction
<1>15. MountsToJson(ms) = f[n]
  BY <1>14, <1>2, <1>1
<1>16. QED
  <2> HIDE DEF step
  <2>1. QED
    BY <1>6, <1>7, <1>15, Zenon DEF Iterates

\* cc_oci_mounts_to_json gives a list of such elements.
LEMMA JsonType ==
  ASSUME NEW ms, IsSeq(ms)
  PROVE  IsSeq(MountsToJson(ms)) /\ MountsToJson(ms) \in Seq(JsonOf(ms))
<1>1. Len(ms) \in Nat
  BY DEF IsSeq
<1>2. MountsToJson(ms) \in Seq(JsonOf(ms))
  <2>1. PICK f \in [0..Len(ms) -> Seq(JsonOf(ms))] : MountsToJson(ms) = f[Len(ms)]
    BY JsonLoop, Zenon
  <2>2. Len(ms) \in 0..Len(ms)
    BY <1>1
  <2>3. QED
    BY <2>1, <2>2, Zenon
<1>3. QED
  BY <1>2 DEF IsSeq

\* When no mount is left to the VM, every one is written, in its place.
LEMMA JsonAll ==
  ASSUME NEW ms, IsSeq(ms), \A i \in 1..Len(ms) : ~ms[i].ignore
  PROVE  MountsToJson(ms) = [i \in 1..Len(ms) |-> Json(ms[i])]
<1> DEFINE n == Len(ms)
<1>1. PICK f \in [0..n -> Seq(JsonOf(ms))] :
           /\ f[0] = << >>
           /\ \A i \in 1..n :
                f[i] = IF ms[i].ignore THEN f[i - 1] ELSE Append(f[i - 1], Json(ms[i]))
           /\ MountsToJson(ms) = f[n]
  BY JsonLoop, Zenon
<1>2. n \in Nat
  BY DEF IsSeq
<1> DEFINE S == {k \in Nat : k <= n => f[k] = [i \in 1..k |-> Json(ms[i])]}
<1> HIDE DEF n
<1>3. 0 \in S
  BY <1>1
<1>4. \A k \in Nat : k \in S => k + 1 \in S
  <2>1. SUFFICES ASSUME NEW k \in Nat, k \in S, k + 1 <= n
                 PROVE  f[k + 1] = [i \in 1..(k + 1) |-> Json(ms[i])]
    OBVIOUS
  <2>2. k + 1 \in 1..n /\ (k + 1) - 1 = k /\ f[k] = [i \in 1..k |-> Json(ms[i])]
    BY <2>1, <1>2
  <2>3. f[k + 1] = Append(f[k], Json(ms[k + 1]))
    BY <2>2, <1>1, Zenon DEF n
  <2>4. f[k] \in Seq(JsonOf(ms)) /\ Len(f[k]) = k
    BY <2>1, <2>2, <1>2
  <2>5. QED
    BY <2>2, <2>3, <2>4
<1>5. n \in S
  <2> HIDE DEF S
  <2>1. QED
    BY <1>2, <1>3, <1>4, Induction, Zenon
<1>6. QED
  BY <1>1, <1>2, <1>5 DEF n

\* The entries of the array of mounts in a state file.
IsJson(j) == j = [destination |-> j.destination, directory_created |-> j.directory_created]

\* The mounts that handle_state_mounts_section reads are written as they were.
LEMMA MountsRoundTrip ==
  ASSUME NEW array, IsSeq(array), \A i \in 1..Len(array) : IsJson(array[i])
  PROVE  /\ IsSeq(ReadMounts(array)) /\ MountsToJson(ReadMounts(array)) = array
         /\ ReadMounts(array) = << >> => array = << >>
<1> DEFINE ms == ReadMounts(array)
           n == Len(array)
<1>1. n \in Nat /\ array = [i \in 1..n |-> array[i]]
  BY DEF IsSeq
<1>2. ms = [i \in 1..n |-> ms[i]]
  BY Zenon DEF ReadMounts
<1>3. DOMAIN ms = 1..n /\ Len(ms) = n /\ IsSeq(ms)
  <2> HIDE DEF ms, n
  <2>1. QED
    BY <1>1, <1>2, FunctionIsSeq
<1>4. \A i \in 1..n : ~ms[i].ignore /\ Json(ms[i]) = array[i]
  <2>1. SUFFICES ASSUME NEW i \in 1..n
                 PROVE  ~ms[i].ignore /\ Json(ms[i]) = array[i]
    BY Zenon
  <2>2. ms[i] = [Mount(<< >>, Null) EXCEPT !.dest = array[i].destination,
                                           !.created = array[i].directory_created]
    BY Zenon DEF ReadMounts
  <2>3. /\ ~ms[i].ignore /\ ms[i].dest = array[i].destination
        /\ ms[i].created = array[i].directory_created
    BY <2>2 DEF Mount
  <2>4. QED
    BY <2>3, Zenon DEF Json, IsJson
<1> HIDE DEF ms, n
<1>5. MountsToJson(ms) = [i \in 1..n |-> Json(ms[i])]
  BY <1>3, <1>4, JsonAll, Zenon
<1>6. MountsToJson(ms) = array
  BY <1>1, <1>4, <1>5
<1>7. ms = << >> => array = << >>
  BY <1>1, <1>3
<1>8. QED
  BY <1>3, <1>6, <1>7 DEF ms

-----------------------------------------------------------------------------
(* A state file that can be read, and what a rewrite of it gives.            *)

\* The members of a configuration.
Members == {"status", "pid", "paths", "root", "mounts", "annotations", "process",
            "console", "vm", "proxy", "pod"}

ConfigRecord(cfg) == cfg = [k \in Members |-> cfg[k]]

\* A state file that is there has these elements, and no other.
FileRecord(f) ==
  f = [there |-> TRUE, pid |-> f.pid, paths |-> f.paths, status |-> f.status,
       created |-> f.created, mounts |-> f.mounts, process |-> f.process,
       console |-> f.console, vm |-> f.vm, proxy |-> f.proxy, pod |-> f.pod,
       annotations |-> f.annotations]

\* The elements of the proxy object.
Proxies == DOMAIN NoProxy

\* The parts of cc_oci_state_file_create that are about the VM, the proxy and the pod.
VmToJson(vm) == [vm EXCEPT !.kernel_params = OrBlank(@)]
ProxyToJson(p) == [k \in DOMAIN NoProxy |-> OrBlank(p[k])]
PodToJson(p) == [set |-> p.set, sandbox |-> p.sandbox, sandbox_name |-> OrBlank(p.sandbox_name)]

\* A state file in which every element that the readers ask for has a value.
FileOK(f) ==
  /\ FileRecord(f)
  /\ f.paths # Null /\ f.paths # Blank /\ f.status \in Statuses /\ f.created # Null
  /\ IsSeq(f.mounts) /\ \A i \in 1..Len(f.mounts) : IsJson(f.mounts[i])
  /\ f.process = [cwd |-> f.process.cwd, terminal |-> f.process.terminal, user |-> {},
                  args |-> f.process.args, env |-> f.process.env,
                  streams |-> f.process.streams]
  /\ f.process.args # Null /\ f.process.cwd # Blank
  /\ f.vm = [pid |-> f.vm.pid, image |-> f.vm.image, kernel_params |-> f.vm.kernel_params]
  /\ f.vm.image # Null /\ f.vm.kernel_params # Null
  /\ f.proxy = [k \in Proxies |-> f.proxy[k]] /\ \A k \in Proxies : f.proxy[k] # Null
  /\ f.pod = [set |-> f.pod.set, sandbox |-> f.pod.sandbox,
              sandbox_name |-> f.pod.sandbox_name]
  /\ f.pod.sandbox_name # Null /\ f.pod.set \in BOOLEAN
  /\ ~f.pod.set => f.pod.sandbox = FALSE /\ f.pod.sandbox_name = Blank

\* The configuration cfg gives, when it is written, what is in f.
Gives(cfg, f) ==
  /\ ConfigRecord(cfg)
  /\ cfg.pid = f.pid /\ cfg.paths = f.paths /\ cfg.console = f.console
  /\ MountsToJson(cfg.mounts) = f.mounts /\ ProcessToJson(cfg.process) = f.process
  /\ VmToJson(cfg.vm) = f.vm /\ ProxyToJson(cfg.proxy) = f.proxy
  /\ PodToJson(cfg.pod) = f.pod

\* An absent string is neither empty nor a status.
LEMMA Strings == Null # Blank /\ Null \notin Statuses /\ OrBlank(Null) = Blank
  BY Zenon DEF Null, Blank, Statuses, OrBlank

\* Such a file passes the checks of the table state_handlers.
LEMMA CompleteFile ==
  ASSUME NEW f, FileOK(f)
  PROVE  f.there /\ Complete(f)
<1>1. f.there
  BY DEF FileOK, FileRecord
<1>2. Proxies = {"ctl", "tty", "console"}
  BY Zenon DEF Proxies, NoProxy
<1>3. "ctl" \in DOMAIN NoProxy /\ "tty" \in DOMAIN NoProxy /\ "ctl" # "tty"
  BY <1>2, Zenon DEF Proxies
<1>4. f.proxy["ctl"] # Null /\ f.proxy["tty"] # Null
  BY <1>2, Zenon DEF FileOK
<1>5. f.status # Null
  BY Strings, Zenon DEF FileOK
<1>6. QED
  BY <1>1, <1>3, <1>4, <1>5, Zenon DEF FileOK, Complete

\* f with another status and other annotations.
Updated(f, status, annotations) ==
  [there |-> TRUE, pid |-> f.pid, paths |-> f.paths, status |-> status,
   created |-> f.created, mounts |-> f.mounts, process |-> f.process,
   console |-> f.console, vm |-> f.vm, proxy |-> f.proxy, pod |-> f.pod,
   annotations |-> annotations]

\* A rewrite changes the status and the annotations.
LEMMA Rewritten ==
  ASSUME NEW f, FileOK(f), NEW cfg, Gives(cfg, f), NEW status \in Statuses
  PROVE  StateFileCreate([cfg EXCEPT !.status = status], f.created) =
           Updated(f, status, cfg.annotations)
<1> DEFINE new == [cfg EXCEPT !.status = status]
<1>1. /\ new.status = status /\ new.pid = cfg.pid /\ new.paths = cfg.paths
      /\ new.mounts = cfg.mounts /\ new.annotations = cfg.annotations
      /\ new.process = cfg.process /\ new.console = cfg.console /\ new.vm = cfg.vm
      /\ new.proxy = cfg.proxy /\ new.pod = cfg.pod
  BY Zenon DEF Gives, ConfigRecord, Members
<1> HIDE DEF new
<1>2. cfg.process.args # Null /\ cfg.process.cwd # Blank
  <2>1. /\ ProcessToJson(cfg.process).args = cfg.process.args
        /\ ProcessToJson(cfg.process).cwd = cfg.process.cwd
    BY Zenon DEF ProcessToJson
  <2>2. QED
    BY <2>1, Zenon DEF Gives, FileOK
<1>3. new.paths # Blank /\ new.status \in Statuses
      /\ new.process.args # Null /\ new.process.cwd # Blank
  BY <1>1, <1>2, Zenon DEF Gives, FileOK
<1>4. StateFileCreate(new, f.created) =
        [there |-> TRUE, pid |-> f.pid, paths |-> f.paths, status |-> status,
         created |-> f.created, mounts |-> f.mounts, process |-> f.process,
         console |-> f.console, vm |-> f.vm, proxy |-> f.proxy, pod |-> f.pod,
         annotations |-> cfg.annotations]
  BY <1>1, <1>3, Zenon DEF StateFileCreate, Gives, VmToJson, ProxyToJson, PodToJson
<1>5. QED
  BY <1>4, Zenon DEF new, Updated

\* A file with another status is as good, and lasts as it was.
LEMMA UpdatedFile ==
  ASSUME NEW f, FileOK(f), NEW status \in Statuses, NEW annotations
  PROVE  /\ FileOK(Updated(f, status, annotations))
         /\ Lasting(Updated(f, status, annotations)) = Lasting(f)
         /\ Updated(f, status, annotations).created = f.created
         /\ Updated(f, status, annotations).there
<1> DEFINE g == Updated(f, status, annotations)
<1>1. /\ g.there = TRUE /\ g.pid = f.pid /\ g.paths = f.paths /\ g.status = status
      /\ g.created = f.created /\ g.mounts = f.mounts /\ g.process = f.process
      /\ g.console = f.console /\ g.vm = f.vm /\ g.proxy = f.proxy /\ g.pod = f.pod
      /\ g.annotations = annotations
  BY DEF Updated
<1>2. FileRecord(g)
  BY <1>1, Zenon DEF FileRecord, Updated
<1>3. FileOK(g)
  <2> HIDE DEF g
  <2>1. QED
    BY <1>1, <1>2, Zenon DEF FileOK
<1>4. DOMAIN g = DOMAIN f
  BY Zenon DEF Updated, FileOK, FileRecord
<1>5. DOMAIN f \ {"status", "annotations"} =
        {"there", "pid", "paths", "created", "mounts", "process", "console", "vm",
         "proxy", "pod"}
  BY DEF FileOK, FileRecord
<1>6. f.there = TRUE
  BY DEF FileOK, FileRecord
<1>7. \A k \in DOMAIN f \ {"status", "annotations"} : g[k] = f[k]
  <2> HIDE DEF g
  <2>1. QED
    BY <1>1, <1>5, <1>6, Zenon
<1>8. Lasting(g) = Lasting(f)
  <2> HIDE DEF g
  <2>1. QED
    BY <1>4, <1>7, Zenon DEF Lasting
<1>9. QED
  BY <1>1, <1>3, <1>8, Zenon

\* What a command reads from the file, it would write as it is there.
LEMMA ReadBack ==
  ASSUME NEW f, FileOK(f)
  PROVE  /\ IsSeq(ReadMounts(f.mounts)) /\ MountsToJson(ReadMounts(f.mounts)) = f.mounts
         /\ ReadMounts(f.mounts) = << >> => f.mounts = << >>
         /\ ProcessToJson(ReadProcess(f.process)) = f.process
         /\ VmToJson(ReadVm(f.vm)) = f.vm
         /\ ProxyToJson(ReadProxy(f.proxy)) = f.proxy
         /\ (ReadPod(f.pod).set <=> f.pod.set)
         /\ f.pod.set => PodToJson(ReadPod(f.pod)) = f.pod
         /\ ReadConsole(f.console) = f.console
<1>1. /\ IsSeq(ReadMounts(f.mounts)) /\ MountsToJson(ReadMounts(f.mounts)) = f.mounts
      /\ ReadMounts(f.mounts) = << >> => f.mounts = << >>
  BY MountsRoundTrip, Zenon DEF FileOK
<1>2. ProcessToJson(ReadProcess(f.process)) = f.process
  <2> DEFINE p == f.process
             r == ReadProcess(p)
  <2>1. /\ r.args = p.args /\ r.cwd = p.cwd /\ r.terminal = p.terminal
        /\ r.env = p.env /\ r.streams = p.streams
    BY DEF ReadProcess
  <2> HIDE DEF r
  <2>2. QED
    BY <2>1, Zenon DEF ProcessToJson, FileOK, r
<1>3. VmToJson(ReadVm(f.vm)) = f.vm
  <2> DEFINE v == f.vm
  <2>1. v = [pid |-> v.pid, image |-> v.image, kernel_params |-> v.kernel_params]
        /\ v.image # Null /\ v.kernel_params # Null
    BY Zenon DEF FileOK
  <2>2. ReadVm(v) = v
    BY <2>1, Zenon DEF ReadVm, Given
  <2>3. OrBlank(v.kernel_params) = v.kernel_params
    BY <2>1, Zenon DEF OrBlank
  <2> HIDE DEF v
  <2>4. VmToJson(v) = v
    BY <2>1, <2>3, Zenon DEF VmToJson
  <2>5. QED
    BY <2>2, <2>4, Zenon DEF v
<1>4. ProxyToJson(ReadProxy(f.proxy)) = f.proxy
  <2>1. f.proxy = [k \in Proxies |-> f.proxy[k]] /\ \A k \in Proxies : f.proxy[k] # Null
    BY Zenon DEF FileOK
  <2>2. \A k \in Proxies : ReadProxy(f.proxy)[k] = f.proxy[k]
    BY <2>1, Zenon DEF ReadProxy, Given, Proxies
  <2>3. \A k \in Proxies : OrBlank(ReadProxy(f.proxy)[k]) = f.proxy[k]
    BY <2>1, <2>2, Zenon DEF OrBlank
  <2>4. QED
    BY <2>1, <2>3, Zenon DEF ProxyToJson, Proxies
<1>5. ReadPod(f.pod).set <=> f.pod.set
  BY DEF ReadPod, FileOK, NoPod
<1>6. f.pod.set => PodToJson(ReadPod(f.pod)) = f.pod
  <2> DEFINE p == f.pod
  <2>1. p = [set |-> p.set, sandbox |-> p.sandbox, sandbox_name |-> p.sandbox_name]
        /\ OrBlank(p.sandbox_name) = p.sandbox_name
    BY Zenon DEF FileOK, OrBlank
  <2>2. SUFFICES ASSUME p.set = TRUE
                 PROVE  PodToJson(ReadPod(p)) = p
    BY Zenon DEF FileOK
  <2>3. ReadPod(p) = [set |-> TRUE, sandbox |-> p.sandbox,
                      sandbox_name |-> p.sandbox_name, workloads |-> << >>]
    BY <2>2, Zenon DEF ReadPod
  <2> HIDE DEF p
  <2>4. QED
    BY <2>1, <2>2, <2>3 DEF PodToJson
<1>7. ReadConsole(f.console) = f.console
  BY Zenon DEF ReadConsole, Given
<1>8. QED
  BY <1>1, <1>2, <1>3, <1>4, <1>5, <1>6, <1>7, Zenon

\* What cc_oci_config_update gives, member by member.
Merged(u, cfg, st) ==
  /\ ConfigRecord(u)
  /\ u.status = cfg.status /\ u.pid = cfg.pid /\ u.paths = cfg.paths
  /\ u.root = cfg.root /\ u.annotations = cfg.annotations
  /\ u.mounts = IF st.mounts # << >> THEN st.mounts ELSE cfg.mounts
  /\ u.process = IF cfg.process.args = Null THEN st.process ELSE cfg.process
  /\ u.console = IF st.console # Null THEN st.console ELSE cfg.console
  /\ u.vm = st.vm /\ u.proxy = st.proxy
  /\ u.pod = IF st.pod.set THEN st.pod ELSE cfg.pod

LEMMA UpdateFields ==
  ASSUME NEW cfg, ConfigRecord(cfg), NEW st, NEW u, u = ConfigUpdate(cfg, st)
  PROVE  Merged(u, cfg, st)
<1>1. DOMAIN cfg = Members /\ DOMAIN u = Members
  BY Zenon DEF ConfigRecord, ConfigUpdate
<1>2. ConfigRecord(u)
  BY <1>1, Zenon DEF ConfigRecord, ConfigUpdate
<1>3. /\ u.status = cfg.status /\ u.pid = cfg.pid /\ u.paths = cfg.paths
      /\ u.root = cfg.root /\ u.annotations = cfg.annotations
  BY <1>1 DEF ConfigUpdate, Members
<1>4. /\ u.mounts = IF st.mounts # << >> THEN st.mounts ELSE cfg.mounts
      /\ u.process = IF cfg.process.args = Null THEN st.process ELSE cfg.process
      /\ u.console = IF st.console # Null THEN st.console ELSE cfg.console
      /\ u.vm = st.vm /\ u.proxy = st.proxy
      /\ u.pod = IF st.pod.set THEN st.pod ELSE cfg.pod
  BY <1>1 DEF ConfigUpdate, Members
<1>5. QED
  BY <1>2, <1>3, <1>4, Zenon DEF Merged

\* After cc_oci_config_update a configuration gives what was in the file, if those
\* members that the file does not set would have given it before.
LEMMA UpdateGives ==
  ASSUME NEW f, FileOK(f), NEW cfg, ConfigRecord(cfg),
         cfg.pid = f.pid, cfg.paths = f.paths,
         f.mounts = << >> => MountsToJson(cfg.mounts) = << >>,
         cfg.process.args = Null \/ ProcessToJson(cfg.process) = f.process,
         f.console = Null => cfg.console = Null,
         ~f.pod.set => PodToJson(cfg.pod) = f.pod
  PROVE  Gives(ConfigUpdate(cfg, StateFileRead(f)), f)
<1> DEFINE st == StateFileRead(f)
           u == ConfigUpdate(cfg, st)
<1>1. /\ st.mounts = ReadMounts(f.mounts) /\ st.process = ReadProcess(f.process)
      /\ st.console = ReadConsole(f.console) /\ st.vm = ReadVm(f.vm)
      /\ st.proxy = ReadProxy(f.proxy) /\ st.pod = ReadPod(f.pod)
  BY DEF StateFileRead
<1> HIDE DEF st
<1>2. /\ ConfigRecord(u)
      /\ u.pid = cfg.pid /\ u.paths = cfg.paths
      /\ u.mounts = IF st.mounts # << >> THEN st.mounts ELSE cfg.mounts
      /\ u.process = IF cfg.process.args = Null THEN st.process ELSE cfg.process
      /\ u.console = IF st.console # Null THEN st.console ELSE cfg.console
      /\ u.vm = st.vm /\ u.proxy = st.proxy
      /\ u.pod = IF st.pod.set THEN st.pod ELSE cfg.pod
  <2>1. u = ConfigUpdate(cfg, st)
    BY Zenon
  <2> HIDE DEF u
  <2>2. Merged(u, cfg, st)
    BY <2>1, UpdateFields, Zenon
  <2>3. QED
    BY <2>2, Zenon DEF Merged
<1> HIDE DEF u
<1>3. /\ MountsToJson(st.mounts) = f.mounts /\ ProcessToJson(st.process) = f.process
      /\ VmToJson(st.vm) = f.vm /\ ProxyToJson(st.proxy) = f.proxy
      /\ (st.pod.set <=> f.pod.set) /\ (f.pod.set => PodToJson(st.pod) = f.pod)
      /\ st.console = f.console /\ (st.mounts = << >> => f.mounts = << >>)
  BY <1>1, ReadBack
<1>4. MountsToJson(u.mounts) = f.mounts
  BY <1>2, <1>3
<1>5. ProcessToJson(u.process) = f.process
  BY <1>2, <1>3
<1>6. u.console = f.console
  BY <1>2, <1>3, Zenon
<1>7. VmToJson(u.vm) = f.vm /\ ProxyToJson(u.proxy) = f.proxy
  BY <1>2, <1>3
<1>8. PodToJson(u.pod) = f.pod
  BY <1>2, <1>3, Zenon
<1>9. QED
  BY <1>2, <1>4, <1>5, <1>6, <1>7, <1>8, Zenon DEF Gives, u, st

\* A configuration that `create' may write.
Writable(cfg) ==
  /\ ConfigRecord(cfg) /\ cfg.paths # Null /\ IsSeq(cfg.mounts)
  /\ cfg.vm = [pid |-> cfg.vm.pid, image |-> cfg.vm.image,
               kernel_params |-> cfg.vm.kernel_params]
  /\ cfg.vm.image # Null
  /\ cfg.pod.set \in BOOLEAN
  /\ ~cfg.pod.set => cfg.pod.sandbox = FALSE /\ cfg.pod.sandbox_name = Null

\* A file that cc_oci_state_file_create does not refuse can be read, and holds what
\* is in memory.
LEMMA CreatedFile ==
  ASSUME NEW cfg, Writable(cfg), NEW created, created # Null, NEW g,
         g = StateFileCreate(cfg, created), g # NoFile
  PROVE  FileOK(g) /\ Gives(cfg, g) /\ g.created = created
<1>1. /\ cfg.paths # Blank /\ cfg.status \in Statuses
      /\ cfg.process.args # Null /\ cfg.process.cwd # Blank
  BY Zenon DEF StateFileCreate
<1>2. g = [there |-> TRUE, pid |-> cfg.pid, paths |-> cfg.paths, status |-> cfg.status,
           created |-> created, mounts |-> MountsToJson(cfg.mounts),
           process |-> ProcessToJson(cfg.process), console |-> cfg.console,
           vm |-> VmToJson(cfg.vm), proxy |-> ProxyToJson(cfg.proxy),
           pod |-> PodToJson(cfg.pod), annotations |-> cfg.annotations]
  BY <1>1, Zenon DEF StateFileCreate, VmToJson, ProxyToJson, PodToJson
<1>3. /\ g.there = TRUE /\ g.pid = cfg.pid /\ g.paths = cfg.paths /\ g.status = cfg.status
      /\ g.created = created /\ g.mounts = MountsToJson(cfg.mounts)
      /\ g.process = ProcessToJson(cfg.process) /\ g.console = cfg.console
      /\ g.vm = VmToJson(cfg.vm) /\ g.proxy = ProxyToJson(cfg.proxy)
      /\ g.pod = PodToJson(cfg.pod) /\ g.annotations = cfg.annotations
  BY <1>2
<1>4. FileRecord(g)
  BY <1>2, <1>3, Zenon DEF FileRecord
<1>5. Gives(cfg, g) /\ g.created = created
  BY <1>3, Zenon DEF Gives, Writable
<1>6. IsSeq(g.mounts) /\ \A i \in 1..Len(g.mounts) : IsJson(g.mounts[i])
  <2>1. IsSeq(g.mounts) /\ g.mounts \in Seq(JsonOf(cfg.mounts))
    BY <1>3, JsonType, Zenon DEF Writable
  <2>2. ASSUME NEW j \in JsonOf(cfg.mounts)
        PROVE  IsJson(j)
    BY DEF JsonOf, Json, IsJson
  <2>3. \A i \in 1..Len(g.mounts) : g.mounts[i] \in JsonOf(cfg.mounts)
    BY <2>1
  <2>4. QED
    BY <2>1, <2>2, <2>3, Zenon
<1>7. /\ g.process = [cwd |-> g.process.cwd, terminal |-> g.process.terminal, user |-> {},
                      args |-> g.process.args, env |-> g.process.env,
                      streams |-> g.process.streams]
      /\ g.process.args # Null /\ g.process.cwd # Blank
  BY <1>1, <1>3 DEF ProcessToJson
<1>8. /\ g.vm = [pid |-> g.vm.pid, image |-> g.vm.image, kernel_params |-> g.vm.kernel_params]
      /\ g.vm.image # Null /\ g.vm.kernel_params # Null
  <2>1. OrBlank(cfg.vm.kernel_params) # Null
    BY Strings, Zenon DEF OrBlank
  <2>2. g.vm = [pid |-> cfg.vm.pid, image |-> cfg.vm.image,
                kernel_params |-> OrBlank(cfg.vm.kernel_params)]
    BY <1>3, Zenon DEF VmToJson, Writable
  <2>3. QED
    BY <2>1, <2>2 DEF Writable
<1>9. g.proxy = [k \in Proxies |-> g.proxy[k]] /\ \A k \in Proxies : g.proxy[k] # Null
  <2>1. \A x : OrBlank(x) # Null
    BY Strings, Zenon DEF OrBlank
  <2>2. g.proxy = [k \in Proxies |-> OrBlank(cfg.proxy[k])]
    BY <1>3, Zenon DEF ProxyToJson, Proxies
  <2>3. QED
    BY <2>1, <2>2, Zenon
<1>10. /\ g.pod = [set |-> g.pod.set, sandbox |-> g.pod.sandbox,
                   sandbox_name |-> g.pod.sandbox_name]
       /\ g.pod.sandbox_name # Null /\ g.pod.set \in BOOLEAN
       /\ ~g.pod.set => g.pod.sandbox = FALSE /\ g.pod.sandbox_name = Blank
  <2>1. OrBlank(cfg.pod.sandbox_name) # Null /\ OrBlank(Null) = Blank
    BY Strings, Zenon DEF OrBlank
  <2>2. /\ g.pod.set = cfg.pod.set /\ g.pod.sandbox = cfg.pod.sandbox
        /\ g.pod.sandbox_name = OrBlank(cfg.pod.sandbox_name)
        /\ g.pod = [set |-> g.pod.set, sandbox |-> g.pod.sandbox,
                    sandbox_name |-> g.pod.sandbox_name]
    BY <1>3 DEF PodToJson
  <2>3. QED
    BY <2>1, <2>2, Zenon DEF Writable
<1>11. g.paths # Null /\ g.paths # Blank /\ g.status \in Statuses /\ g.created # Null
  BY <1>1, <1>3, Zenon DEF Writable
<1>12. QED
  BY <1>4, <1>5, <1>6, <1>7, <1>8, <1>9, <1>10, <1>11, Zenon DEF FileOK

\* The two configurations that a command rewrites the file from.
LEMMA FromFileGives ==
  ASSUME NEW c, FileOK(file[c])
  PROVE  Gives(FromFile(c), file[c]) /\ FromFile(c).root = Blank
<1> DEFINE f == file[c]
           st == StateFileRead(f)
           g == GetConfigAndState(NewConfig, st)
<1>1. st.pid = f.pid /\ st.paths = f.paths
  BY DEF StateFileRead
<1> HIDE DEF st
<1>2. /\ g.pid = st.pid /\ g.paths = st.paths /\ g.mounts = << >>
      /\ g.process = NoProcess /\ g.console = Null /\ g.pod = NoPod /\ g.root = Blank
  BY Zenon DEF GetConfigAndState, NewConfig
<1>3. ConfigRecord(g)
  BY Zenon DEF GetConfigAndState, NewConfig, ConfigRecord, Members
<1>4. g.process.args = Null
  BY <1>2 DEF NoProcess
<1>5. ~f.pod.set => PodToJson(g.pod) = f.pod
  <2>1. PodToJson(NoPod) = [set |-> FALSE, sandbox |-> FALSE, sandbox_name |-> Blank]
    BY Strings DEF PodToJson, NoPod
  <2>2. ~f.pod.set => f.pod = [set |-> FALSE, sandbox |-> FALSE, sandbox_name |-> Blank]
    BY Zenon DEF FileOK
  <2>3. QED
    BY <2>1, <2>2, <1>2, Zenon
<1>6. MountsToJson(<< >>) = << >>
  <2> DEFINE none == << >>
  <2>1. IsSeq(none) /\ Len(none) = 0 /\ 1..0 = {}
    BY DEF IsSeq
  <2> HIDE DEF none
  <2>2. MountsToJson(none) = [i \in 1..0 |-> Json(none[i])]
    BY <2>1, JsonAll, Zenon
  <2>3. QED
    BY <2>1, <2>2 DEF none
<1> HIDE DEF g
<1>7. Gives(ConfigUpdate(g, st), f)
  BY <1>1, <1>2, <1>3, <1>4, <1>5, <1>6, UpdateGives, Zenon DEF st
<1>8. ConfigUpdate(g, st).root = Blank
  <2>1. Merged(ConfigUpdate(g, st), g, st)
    BY <1>3, UpdateFields, Zenon
  <2>2. QED
    BY <1>2, <2>1, Zenon DEF Merged
<1>9. QED
  BY <1>7, <1>8, Zenon DEF FromFile, f, st, g

\* The second is that of `run', which still has what it has written.
LEMMA InMemoryGives ==
  ASSUME NEW f, FileOK(f), NEW cfg, Gives(cfg, f)
  PROVE  Gives(ConfigUpdate(cfg, StateFileRead(f)), f)
  BY UpdateGives DEF Gives

\* The new status goes to the configuration and to the file.
LEMMA StatusGives ==
  ASSUME NEW f, FileOK(f), NEW cfg, Gives(cfg, f), NEW status \in Statuses, NEW annotations
  PROVE  /\ Gives([cfg EXCEPT !.status = status], Updated(f, status, annotations))
         /\ [cfg EXCEPT !.status = status].root = cfg.root
<1> DEFINE new == [cfg EXCEPT !.status = status]
           g == Updated(f, status, annotations)
<1>1. DOMAIN cfg = Members
  BY DEF Gives, ConfigRecord
<1>2. ConfigRecord(new)
  BY <1>1 DEF ConfigRecord
<1>3. /\ new.pid = cfg.pid /\ new.paths = cfg.paths /\ new.mounts = cfg.mounts
      /\ new.process = cfg.process /\ new.console = cfg.console /\ new.vm = cfg.vm
      /\ new.proxy = cfg.proxy /\ new.pod = cfg.pod /\ new.root = cfg.root
  BY <1>1 DEF Members
<1>4. /\ g.pid = f.pid /\ g.paths = f.paths /\ g.mounts = f.mounts
      /\ g.process = f.process /\ g.console = f.console /\ g.vm = f.vm
      /\ g.proxy = f.proxy /\ g.pod = f.pod
  BY DEF Updated
<1> HIDE DEF new, g
<1>5. Gives(new, g)
  BY <1>2, <1>3, <1>4, Zenon DEF Gives
<1>6. QED
  BY <1>3, <1>5, Zenon DEF new, g

-----------------------------------------------------------------------------
(* Reading config.json.                                                      *)

\* The names a sandbox may get.
Names(c) == {Null, c} \cup {bundle[c].annotations[i].value : i \in 1..Len(bundle[c].annotations)}

\* The pods that the annotations may describe.
PodRecords(c, set) ==
  [set : set, sandbox : BOOLEAN, sandbox_name : Names(c),
   workloads : {<< >>} \cup {Workloads(v) : v \in Names(c)}]

Pods(c) == {NoPod} \cup PodRecords(c, {TRUE})

\* The mount that add_container_mount appends.
RootMount(c, cfg) == Mount(<<c, "rootfs">>, IF cfg.root = Blank THEN "name" ELSE "dir")

\* The members of cfg that the annotations do not touch are those of r.
SameButPod(r, cfg) ==
  /\ ConfigRecord(r) /\ r.status = cfg.status /\ r.pid = cfg.pid /\ r.paths = cfg.paths
  /\ r.root = cfg.root /\ r.annotations = cfg.annotations /\ r.process = cfg.process
  /\ r.console = cfg.console /\ r.vm = cfg.vm /\ r.proxy = cfg.proxy

\* add_container_mount changes the list of the mounts.
LEMMA AddMount ==
  ASSUME NEW c, NEW cfg, NEW q, SameButPod(q, cfg), q.mounts = cfg.mounts
  PROVE  /\ SameButPod(AddContainerMount(c, q), cfg)
         /\ AddContainerMount(c, q).mounts = Append(cfg.mounts, RootMount(c, cfg))
         /\ AddContainerMount(c, q).pod = q.pod
<1> DEFINE m == RootMount(c, cfg)
           r == [q EXCEPT !.mounts = Append(q.mounts, m)]
<1>1. AddContainerMount(c, q) = r
  BY Zenon DEF AddContainerMount, RootMount, SameButPod
<1> HIDE DEF m
<1>2. DOMAIN q = Members
  BY Zenon DEF SameButPod, ConfigRecord
<1>3. ConfigRecord(r)
  BY <1>2 DEF ConfigRecord
<1>4. /\ r.status = q.status /\ r.pid = q.pid /\ r.paths = q.paths
      /\ r.root = q.root /\ r.annotations = q.annotations /\ r.process = q.process
      /\ r.console = q.console /\ r.vm = q.vm /\ r.proxy = q.proxy
      /\ r.pod = q.pod /\ r.mounts = Append(q.mounts, m)
  BY <1>2, Zenon DEF Members
<1> HIDE DEF r
<1>5. SameButPod(r, cfg)
  BY <1>3, <1>4, Zenon DEF SameButPod
<1>6. QED
  BY <1>1, <1>4, <1>5, Zenon DEF m

\* A new pod leaves the other members alone.
LEMMA SetPod ==
  ASSUME NEW cfg, ConfigRecord(cfg), NEW p
  PROVE  /\ SameButPod([cfg EXCEPT !.pod = p], cfg)
         /\ [cfg EXCEPT !.pod = p].mounts = cfg.mounts
         /\ [cfg EXCEPT !.pod = p].pod = p
<1> DEFINE r == [cfg EXCEPT !.pod = p]
<1>1. DOMAIN cfg = Members
  BY DEF ConfigRecord
<1>2. ConfigRecord(r)
  BY <1>1 DEF ConfigRecord
<1>3. /\ r.status = cfg.status /\ r.pid = cfg.pid /\ r.paths = cfg.paths
      /\ r.root = cfg.root /\ r.annotations = cfg.annotations /\ r.process = cfg.process
      /\ r.console = cfg.console /\ r.vm = cfg.vm /\ r.proxy = cfg.proxy
      /\ r.mounts = cfg.mounts /\ r.pod = p
  BY <1>1 DEF Members
<1>4. QED
  BY <1>2, <1>3, Zenon DEF SameButPod

\* One annotation changes the pod, and appends a mount when it names the sandbox.
LEMMA PodAnnotationFields ==
  ASSUME NEW c, NEW cfg, ConfigRecord(cfg), cfg.pod \in Pods(c),
         NEW i \in 1..Len(bundle[c].annotations), NEW r,
         r = PodAnnotation(c, cfg, bundle[c].annotations[i])
  PROVE  /\ SameButPod(r, cfg) /\ r.pod \in Pods(c)
         /\ \/ r.mounts = cfg.mounts /\ r.pod.sandbox_name = cfg.pod.sandbox_name
            \/ r.mounts = Append(cfg.mounts, RootMount(c, cfg))
<1> DEFINE a == bundle[c].annotations[i]
           p == cfg.pod
           set == [p EXCEPT !.set = TRUE]
           named == [set EXCEPT !.sandbox_name = a.value, !.workloads = Workloads(a.value)]
           sandbox == [set EXCEPT !.sandbox = TRUE, !.sandbox_name = c,
                                  !.workloads = Workloads(c)]
           member == [set EXCEPT !.sandbox = FALSE]
           With(x) == [cfg EXCEPT !.pod = x]
<1>1. a.value \in Names(c) /\ c \in Names(c)
  BY Zenon DEF Names
<1> HIDE DEF a
<1>2. \/ r = cfg \/ r = With(set) \/ r = With(member)
      \/ r = AddContainerMount(c, With(named)) \/ r = AddContainerMount(c, With(sandbox))
  <2>1. r = CASE a.value = Null \/ a.key \notin {"type", "name", "ocid"} -> cfg
               [] a.key = "type" /\ a.value = "sandbox" -> AddContainerMount(c, With(sandbox))
               [] a.key = "type" /\ a.value = "container" -> With(member)
               [] a.key = "name" -> AddContainerMount(c, With(named))
               [] OTHER -> With(set)
    BY Zenon DEF PodAnnotation, a
  <2> HIDE DEF set, named, sandbox, member, With
  <2>2. QED
    BY <2>1
<1>3. p \in PodRecords(c, BOOLEAN)
  <2>1. Null \in Names(c)
    BY Zenon DEF Names
  <2>2. NoPod \in PodRecords(c, BOOLEAN)
    BY <2>1 DEF NoPod, PodRecords
  <2>3. \A x \in PodRecords(c, {TRUE}) : x \in PodRecords(c, BOOLEAN)
    BY Zenon DEF PodRecords
  <2>4. QED
    BY <2>2, <2>3, Zenon DEF Pods
<1> HIDE DEF p
<1>4. set \in PodRecords(c, {TRUE}) /\ set.sandbox_name = p.sandbox_name
  BY <1>3, Zenon DEF PodRecords
<1> HIDE DEF set
<1>5. Workloads(a.value) \in {Workloads(v) : v \in Names(c)}
      /\ Workloads(c) \in {Workloads(v) : v \in Names(c)}
  BY <1>1, Zenon
<1>6. named \in PodRecords(c, {TRUE})
  BY <1>1, <1>4, <1>5, Zenon DEF PodRecords
<1>7. sandbox \in PodRecords(c, {TRUE})
  BY <1>1, <1>4, <1>5, Zenon DEF PodRecords
<1>8. member \in PodRecords(c, {TRUE}) /\ member.sandbox_name = p.sandbox_name
  BY <1>4, Zenon DEF PodRecords
<1> HIDE DEF named, sandbox, member
<1>9. SameButPod(cfg, cfg) /\ cfg.pod = p
  BY Zenon DEF SameButPod, p
<1>10. ASSUME NEW x
       PROVE  SameButPod(With(x), cfg) /\ With(x).mounts = cfg.mounts /\ With(x).pod = x
  BY SetPod, Zenon
<1> HIDE DEF With
<1>11. ASSUME NEW x, r = AddContainerMount(c, With(x))
       PROVE  /\ SameButPod(r, cfg) /\ r.pod = x
              /\ r.mounts = Append(cfg.mounts, RootMount(c, cfg))
  BY <1>10, <1>11, AddMount
<1>12. CASE r = cfg
  BY <1>9, <1>12, Zenon
<1>13. CASE r = With(set) \/ r = With(member)
  <2>1. PICK x \in {set, member} : r = With(x)
    BY <1>13, Zenon
  <2>2. x \in Pods(c) /\ x.sandbox_name = p.sandbox_name
    BY <1>4, <1>8, Zenon DEF Pods
  <2>3. SameButPod(r, cfg) /\ r.mounts = cfg.mounts /\ r.pod = x
    BY <1>10, <2>1, Zenon
  <2>4. QED
    BY <2>2, <2>3, <1>9, Zenon
<1>14. CASE r = AddContainerMount(c, With(named)) \/ r = AddContainerMount(c, With(sandbox))
  BY <1>6, <1>7, <1>11, <1>14, Zenon DEF Pods
<1>15. QED
  BY <1>2, <1>12, <1>13, <1>14, Zenon

\* The mounts, annotations and processes that reading a bundle may give.
BundleMounts(c) == {Mount(<<c, "rootfs">>, src) : src \in {"name", "dir"}}
                   \cup {Mount(bundle[c].mounts[i].dir, bundle[c].mounts[i].src) :
                           i \in 1..Len(bundle[c].mounts)}
Annotations(c) == {bundle[c].annotations[i] : i \in 1..Len(bundle[c].annotations)}
Processes(c) == {NoProcess, ProcessHandleSection(c, NewConfig).process}

\* The configurations that reading config.json goes through.
ReadConfigs(c) ==
  [status : {"created"}, pid : {0}, paths : {Blank}, root : {Blank, "dir"},
   mounts : Seq(BundleMounts(c)), annotations : Seq(Annotations(c)),
   process : Processes(c), console : {Null}, vm : {NoVM}, proxy : {NoProxy},
   pod : Pods(c)]

\* Such a configuration, member by member, ...
LEMMA ReadConfigFields ==
  ASSUME NEW c, NEW cfg, ConfigRecord(cfg), cfg.status = "created", cfg.pid = 0,
         cfg.paths = Blank, cfg.root \in {Blank, "dir"}, cfg.mounts \in Seq(BundleMounts(c)),
         cfg.annotations \in Seq(Annotations(c)), cfg.process \in Processes(c),
         cfg.console = Null, cfg.vm = NoVM, cfg.proxy = NoProxy, cfg.pod \in Pods(c)
  PROVE  cfg \in ReadConfigs(c)
  BY DEF ReadConfigs, ConfigRecord, Members

\* ... and back.
LEMMA ReadConfigMembers ==
  ASSUME NEW c, NEW cfg \in ReadConfigs(c)
  PROVE  /\ ConfigRecord(cfg) /\ cfg.status = "created" /\ cfg.pid = 0
         /\ cfg.paths = Blank /\ cfg.root \in {Blank, "dir"}
         /\ cfg.mounts \in Seq(BundleMounts(c))
         /\ cfg.annotations \in Seq(Annotations(c)) /\ cfg.process \in Processes(c)
         /\ cfg.console = Null /\ cfg.vm = NoVM /\ cfg.proxy = NoProxy /\ cfg.pod \in Pods(c)
<1>1. ConfigRecord(cfg)
  BY DEF ReadConfigs, ConfigRecord, Members
<1>2. QED
  BY <1>1 DEF ReadConfigs

\* Reading starts in the set, and each handler stays in it: the initial one, ...
LEMMA NewConfigRead ==
  ASSUME NEW c
  PROVE  NewConfig \in ReadConfigs(c)
<1>1. NoPod \in Pods(c) /\ NoProcess \in Processes(c)
  BY Zenon DEF Pods, Processes
<1>2. QED
  BY <1>1 DEF ReadConfigs, NewConfig

\* ... root_handle_section, ...
LEMMA RootRead ==
  ASSUME NEW c, NEW cfg \in ReadConfigs(c)
  PROVE  RootHandleSection(c, cfg) \in ReadConfigs(c)
  BY DEF ReadConfigs, RootHandleSection

\* ... process_handle_section, ...
LEMMA ProcessRead ==
  ASSUME NEW c, NEW cfg \in ReadConfigs(c)
  PROVE  ProcessHandleSection(c, cfg) \in ReadConfigs(c)
<1> DEFINE p == [args |-> "args", cwd |-> "/", terminal |-> TRUE, env |-> Null,
                 uid |-> bundle[c].uid, streams |-> -1]
<1>1. p \in Processes(c)
  BY DEF Processes, ProcessHandleSection, NewConfig
<1> HIDE DEF p
<1>2. ProcessHandleSection(c, cfg) = [cfg EXCEPT !.process = p]
  BY Zenon DEF ProcessHandleSection, p
<1>3. QED
  BY <1>1, <1>2 DEF ReadConfigs

\* ... and mounts_handle_section.
LEMMA MountsRead ==
  ASSUME NEW c, NEW cfg \in ReadConfigs(c), IsSeq(bundle[c].mounts)
  PROVE  MountsHandleSection(c, cfg) \in ReadConfigs(c)
<1> DEFINE ms == [i \in DOMAIN bundle[c].mounts |->
                    Mount(bundle[c].mounts[i].dir, bundle[c].mounts[i].src)]
           n == Len(bundle[c].mounts)
<1>1. n \in Nat /\ DOMAIN bundle[c].mounts = 1..n
  BY DEF IsSeq
<1>2. \A i \in 1..n : Mount(bundle[c].mounts[i].dir, bundle[c].mounts[i].src) \in BundleMounts(c)
  BY Zenon DEF BundleMounts
<1>3. ms \in Seq(BundleMounts(c))
  <2> HIDE DEF n
  <2>1. ms \in [1..n -> BundleMounts(c)]
    BY <1>1, <1>2, Zenon
  <2>2. QED
    BY <1>1, <2>1
<1> HIDE DEF ms
<1>4. MountsHandleSection(c, cfg) = IF cfg.mounts # << >> THEN cfg ELSE [cfg EXCEPT !.mounts = ms]
  BY Zenon DEF MountsHandleSection, ms
<1>5. [cfg EXCEPT !.mounts = ms] \in ReadConfigs(c)
  BY <1>3, Zenon DEF ReadConfigs
<1>6. QED
  BY <1>4, <1>5, Zenon

\* annotations_handle_section, one annotation.
AnnotationStep(c, cfg, a) == [PodAnnotation(c, cfg, a) EXCEPT !.annotations = <<a>> \o @]

\* One annotation stays in the set; it leaves the mounts and the name of the sandbox
\* alone, or appends the root directory.
Annotated(c, r, cfg) ==
  /\ r \in ReadConfigs(c) /\ r.root = cfg.root
  /\ \/ r.mounts = cfg.mounts /\ r.pod.sandbox_name = cfg.pod.sandbox_name
     \/ r.mounts = Append(cfg.mounts, RootMount(c, cfg))

LEMMA AnnotationStepRead ==
  ASSUME NEW c, NEW cfg \in ReadConfigs(c), NEW i \in 1..Len(bundle[c].annotations), NEW r,
         r = AnnotationStep(c, cfg, bundle[c].annotations[i])
  PROVE  Annotated(c, r, cfg)
<1> DEFINE a == bundle[c].annotations[i]
           q == PodAnnotation(c, cfg, a)
           anns == <<a>> \o cfg.annotations
<1>1. ConfigRecord(cfg) /\ cfg.pod \in Pods(c) /\ cfg.mounts \in Seq(BundleMounts(c))
      /\ cfg.annotations \in Seq(Annotations(c))
  BY ReadConfigMembers, Zenon
<1>2. /\ SameButPod(q, cfg) /\ q.pod \in Pods(c)
      /\ \/ q.mounts = cfg.mounts /\ q.pod.sandbox_name = cfg.pod.sandbox_name
         \/ q.mounts = Append(cfg.mounts, RootMount(c, cfg))
  <2>1. q = PodAnnotation(c, cfg, bundle[c].annotations[i])
    OBVIOUS
  <2> HIDE DEF q
  <2>2. QED
    BY <1>1, <2>1, PodAnnotationFields, Zenon
<1> HIDE DEF q
<1>3. a \in Annotations(c)
  BY Zenon DEF Annotations
<1> HIDE DEF a
<1>4. anns \in Seq(Annotations(c))
  BY <1>1, <1>3
<1>5. r = [q EXCEPT !.annotations = anns]
  BY <1>2, Zenon DEF AnnotationStep, SameButPod, a, q
<1> HIDE DEF anns
<1>6. RootMount(c, cfg) \in BundleMounts(c)
  <2> DEFINE src == IF cfg.root = Blank THEN "name" ELSE "dir"
  <2>1. src \in {"name", "dir"}
    OBVIOUS
  <2> HIDE DEF src
  <2>2. QED
    BY <2>1, Zenon DEF RootMount, BundleMounts, src
<1>7. q.mounts \in Seq(BundleMounts(c))
  <2>1. ASSUME NEW S, NEW ms \in Seq(S), NEW m \in S
        PROVE  Append(ms, m) \in Seq(S)
    OBVIOUS
  <2>2. Append(cfg.mounts, RootMount(c, cfg)) \in Seq(BundleMounts(c))
    BY <1>1, <1>6, <2>1, Zenon
  <2>3. QED
    BY <1>1, <1>2, <2>2, Zenon
<1>8. q \in ReadConfigs(c)
  <2>1. /\ ConfigRecord(q) /\ q.status = "created" /\ q.pid = 0 /\ q.paths = Blank
        /\ q.root \in {Blank, "dir"} /\ q.annotations \in Seq(Annotations(c))
        /\ q.process \in Processes(c) /\ q.console = Null /\ q.vm = NoVM /\ q.proxy = NoProxy
    BY <1>2, ReadConfigMembers, Zenon DEF SameButPod
  <2>2. QED
    BY <2>1, <1>2, <1>7, ReadConfigFields
<1>9. r \in ReadConfigs(c) /\ r.root = q.root /\ r.mounts = q.mounts /\ r.pod = q.pod
  BY <1>4, <1>5, <1>8, Zenon DEF ReadConfigs
<1>10. QED
  BY <1>2, <1>9, Zenon DEF SameButPod, Annotated

\* annotations_handle_section is one such step per annotation.
LEMMA AnnotationsLoop ==
  ASSUME NEW c, NEW cfg \in ReadConfigs(c), IsSeq(bundle[c].annotations)
  PROVE  \E f : /\ f \in [0..Len(bundle[c].annotations) -> ReadConfigs(c)] /\ f[0] = cfg
                /\ \A i \in 1..Len(bundle[c].annotations) :
                     f[i] = AnnotationStep(c, f[i - 1], bundle[c].annotations[i])
                /\ AnnotationsHandleSection(c, cfg) = f[Len(bundle[c].annotations)]
<1> DEFINE anns == bundle[c].annotations
           n == Len(anns)
           X == ReadConfigs(c)
           step == [i \in 1..n |-> [x \in X |-> AnnotationStep(c, x, anns[i])]]
           F == CHOOSE read : read =
                  [i \in 0..n |-> IF i = 0 THEN cfg
                                  ELSE AnnotationStep(c, read[i - 1], anns[i])]
<1>1. n \in Nat
  BY DEF IsSeq
<1>2. AnnotationsHandleSection(c, cfg) = F[n]
  BY Zenon DEF AnnotationsHandleSection, AnnotationStep
<1>3. step \in Steps(X, n)
  <2>1. ASSUME NEW i \in 1..n, NEW x \in X
        PROVE  AnnotationStep(c, x, anns[i]) \in X
    <3>1. Annotated(c, AnnotationStep(c, x, anns[i]), x)
      BY AnnotationStepRead, Zenon
    <3>2. QED
      BY <3>1, Zenon DEF Annotated
  <2> HIDE DEF X, n, anns
  <2>2. QED
    BY <2>1, Zenon DEF Steps
<1> HIDE DEF X, n
<1>4. PICK f : Iterates(f, X, n, cfg, step)
  <2> HIDE DEF step
  <2>1. QED
    BY <1>1, <1>3, Recursion, Zenon DEF X
<1>5. ASSUME NEW i \in 1..n
      PROVE  i \in 0..n /\ i - 1 \in 0..n /\ i # 0
  BY <1>1
<1>6. \A i \in 1..n : f[i] = AnnotationStep(c, f[i - 1], anns[i])
  BY <1>4, <1>5, Zenon DEF Iterates
<1>7. f = [i \in 0..n |-> IF i = 0 THEN cfg ELSE AnnotationStep(c, f[i - 1], anns[i])]
  <2>1. \A i \in 0..n : i # 0 => i \in 1..n
    BY <1>1
  <2>2. f[0] = cfg /\ f = [i \in 0..n |-> f[i]]
    BY <1>4 DEF Iterates
  <2> HIDE DEF anns
  <2>3. QED
    BY <2>1, <2>2, <1>6, Zenon
<1>8. F = [i \in 0..n |-> IF i = 0 THEN cfg ELSE AnnotationStep(c, F[i - 1], anns[i])]
  <2> HIDE DEF anns
  <2>1. QED
    BY <1>7, Zenon
<1> HIDE DEF F
<1>9. Follows(F, X, n, cfg, step)
  <2>1. 0 \in 0..n
    BY <1>1
  <2>2. F[0] = cfg
    BY <2>1, <1>8, Zenon
  <2>3. \A i \in 1..n : F[i] = AnnotationStep(c, F[i - 1], anns[i])
    BY <1>5, <1>8, Zenon
  <2> HIDE DEF anns
  <2>4. QED
    BY <2>2, <2>3 DEF Follows
<1>10. F[n] = f[n]
  <2>1. \A i \in 0..n : F[i] = f[i]
    <3> HIDE DEF step
    <3>1. QED
      BY <1>1, <1>3, <1>4, <1>9, Unfolds DEF X
  <2>2. QED
    BY <2>1, <1>1
<1>11. QED
  BY <1>2, <1>4, <1>6, <1>10, Zenon DEF Iterates, X, n

\* A sequence over a set is a sequence.
LEMMA TypedIsSeq ==
  ASSUME NEW S, NEW s \in Seq(S)
  PROVE  IsSeq(s) /\ Len(s) \in Nat
  BY DEF IsSeq

\* What the assumption says of one bundle.
LEMMA BundleSeqs ==
  ASSUME bundle \in Scenarios, NEW c \in DOMAIN bundle
  PROVE  /\ IsSeq(bundle[c].mounts) /\ IsSeq(bundle[c].annotations)
         /\ Len(bundle[c].annotations) \in Nat /\ Len(bundle[c].sections) \in Nat
         /\ DOMAIN bundle[c].sections = 1..Len(bundle[c].sections)
         /\ \A i \in 1..Len(bundle[c].sections) :
              bundle[c].sections[i] \in {"process", "root", "mounts", "annotations"}
<1>1. /\ bundle[c].sections \in Seq({"process", "root", "mounts", "annotations"})
      /\ bundle[c].mounts \in Seq([dir : Seq(STRING), src : STRING])
      /\ bundle[c].annotations \in Seq([key : STRING, value : STRING])
  BY BundleAssumption, Zenon
<1>2. IsSeq(bundle[c].mounts) /\ IsSeq(bundle[c].annotations)
      /\ Len(bundle[c].annotations) \in Nat
  BY <1>1, TypedIsSeq, Zenon
<1>3. QED
  BY <1>1, <1>2

\* Every handler stays in the set.
LEMMA SectionRead ==
  ASSUME bundle \in Scenarios, NEW c \in DOMAIN bundle, NEW cfg \in ReadConfigs(c),
         NEW name \in {"process", "root", "mounts", "annotations"}
  PROVE  HandleSection(c, name, cfg) \in ReadConfigs(c)
<1>1. CASE name = "process"
  BY <1>1, ProcessRead DEF HandleSection
<1>2. CASE name = "root"
  BY <1>2, RootRead, Zenon DEF HandleSection
<1>3. CASE name = "mounts"
  BY <1>3, MountsRead, BundleSeqs DEF HandleSection
<1>4. CASE name = "annotations"
  <2>1. AnnotationsHandleSection(c, cfg) \in ReadConfigs(c)
    <3>1. PICK f : /\ f \in [0..Len(bundle[c].annotations) -> ReadConfigs(c)]
                   /\ AnnotationsHandleSection(c, cfg) = f[Len(bundle[c].annotations)]
      <4>1. IsSeq(bundle[c].annotations)
        BY BundleSeqs, Zenon
      <4>2. QED
        BY <4>1, AnnotationsLoop
    <3>2. Len(bundle[c].annotations) \in 0..Len(bundle[c].annotations)
      BY BundleSeqs
    <3>3. QED
      BY <3>1, <3>2, Zenon
  <2>2. QED
    BY <2>1, <1>4, Zenon DEF HandleSection
<1>5. QED
  BY <1>1, <1>2, <1>3, <1>4, Zenon

\* cc_oci_process_config runs the handlers in the order of the sections.
LEMMA SectionsLoop ==
  ASSUME bundle \in Scenarios, NEW c \in DOMAIN bundle, config[c] \in ReadConfigs(c)
  PROVE  /\ ReadSections(c)[0] = config[c]
         /\ \A i \in 0..Len(bundle[c].sections) : ReadSections(c)[i] \in ReadConfigs(c)
         /\ \A i \in 1..Len(bundle[c].sections) : ReadSections(c)[i] =
              HandleSection(c, bundle[c].sections[i], ReadSections(c)[i - 1])
<1> DEFINE secs == bundle[c].sections
           n == Len(secs)
           X == ReadConfigs(c)
           step == [i \in 1..n |-> [x \in X |-> HandleSection(c, secs[i], x)]]
           F == CHOOSE read : read =
                  [i \in 0..n |-> IF i = 0 THEN config[c]
                                  ELSE HandleSection(c, secs[i], read[i - 1])]
<1>1. n \in Nat
  BY BundleSeqs, Zenon
<1>2. ReadSections(c) = F
  BY Zenon DEF ReadSections
<1>3. step \in Steps(X, n)
  <2>1. ASSUME NEW i \in 1..n, NEW x \in X
        PROVE  HandleSection(c, secs[i], x) \in X
    BY SectionRead, BundleSeqs, Zenon
  <2> HIDE DEF X, n, secs
  <2>2. QED
    BY <2>1, Zenon DEF Steps
<1>x. config[c] \in X
  BY Zenon
<1> HIDE DEF X, n
<1>4. PICK f : Iterates(f, X, n, config[c], step)
  <2> HIDE DEF step
  <2>1. QED
    BY <1>1, <1>3, <1>x, Recursion, Zenon
<1>5. ASSUME NEW i \in 1..n
      PROVE  i \in 0..n /\ i - 1 \in 0..n /\ i # 0
  BY <1>1
<1>6. \A i \in 1..n : f[i] = HandleSection(c, secs[i], f[i - 1])
  BY <1>4, <1>5, Zenon DEF Iterates
<1>7. f = [i \in 0..n |-> IF i = 0 THEN config[c] ELSE HandleSection(c, secs[i], f[i - 1])]
  <2>1. \A i \in 0..n : i # 0 => i \in 1..n
    BY <1>1
  <2>2. f[0] = config[c] /\ f = [i \in 0..n |-> f[i]]
    BY <1>4, Zenon DEF Iterates
  <2> HIDE DEF secs
  <2>3. QED
    BY <2>1, <2>2, <1>6, Zenon
<1>8. F = [i \in 0..n |-> IF i = 0 THEN config[c] ELSE HandleSection(c, secs[i], F[i - 1])]
  <2> HIDE DEF secs
  <2>1. QED
    BY <1>7, Zenon
<1> HIDE DEF F
<1>9. F[0] = config[c] /\ \A i \in 1..n : F[i] = HandleSection(c, secs[i], F[i - 1])
  <2>1. 0 \in 0..n
    BY <1>1
  <2>2. QED
    BY <2>1, <1>5, <1>8, Zenon
<1>10. Follows(F, X, n, config[c], step)
  <2> HIDE DEF secs
  <2>1. QED
    BY <1>9, Zenon DEF Follows
<1>11. \A i \in 0..n : F[i] = f[i]
  <2> HIDE DEF step
  <2>1. QED
    BY <1>1, <1>3, <1>4, <1>10, <1>x, Unfolds
<1>12. \A i \in 0..n : F[i] \in X
  BY <1>4, <1>11 DEF Iterates
<1>13. QED
  BY <1>2, <1>9, <1>12, Zenon DEF X, n

\* What is read may be written.
LEMMA ReadWritable ==
  ASSUME NEW c, NEW cfg \in ReadConfigs(c)
  PROVE  Writable(cfg)
<1>1. /\ ConfigRecord(cfg) /\ cfg.paths = Blank /\ cfg.mounts \in Seq(BundleMounts(c))
      /\ cfg.vm = NoVM /\ cfg.pod \in Pods(c)
  BY ReadConfigMembers, Zenon
<1>2. IsSeq(cfg.mounts)
  BY <1>1, TypedIsSeq, Zenon
<1>3. /\ cfg.vm = [pid |-> cfg.vm.pid, image |-> cfg.vm.image,
                   kernel_params |-> cfg.vm.kernel_params]
      /\ cfg.vm.image # Null
  BY <1>1, Strings DEF NoVM
<1>4. /\ cfg.pod.set \in BOOLEAN
      /\ ~cfg.pod.set => cfg.pod.sandbox = FALSE /\ cfg.pod.sandbox_name = Null
  <2>1. CASE cfg.pod = NoPod
    BY <2>1 DEF NoPod
  <2>2. CASE cfg.pod \in PodRecords(c, {TRUE})
    BY <2>2, Zenon DEF PodRecords
  <2>3. QED
    BY <1>1, <2>1, <2>2, Zenon DEF Pods
<1>5. QED
  BY <1>1, <1>2, <1>3, <1>4, Strings, Zenon DEF Writable

-----------------------------------------------------------------------------
(* The inductive invariant.                                                  *)

\* What is kept of one container, in memory and in its state file.
Kept(c) ==
  /\ file[c] = NoFile \/ FileOK(file[c])
  /\ pc[c] = "new" => config[c] = NewConfig
  /\ pc[c] \in {"parsed", "mounts", "launch"} => Writable(config[c])
  /\ pc[c] = "launch" => file[c] # NoFile /\ file[c] = StateFileCreate(config[c], "now")
  /\ pc[c] \in {"saved", "unmount", "remove"} => FileOK(file[c])
  /\ pc[c] = "saved" /\ config[c].root # Blank => Gives(config[c], file[c])
  /\ pc[c] \in {"unmount", "remove"} => config[c].root = Blank

\* The inductive invariant for the state files.
BInv ==
  /\ bundle \in Scenarios
  /\ DOMAIN config = DOMAIN bundle /\ DOMAIN file = DOMAIN bundle /\ DOMAIN pc = DOMAIN bundle
  /\ \A c \in DOMAIN bundle : Kept(c)

\* A step of the command on c leaves the other containers alone.
Only(c) ==
  /\ bundle' = bundle
  /\ DOMAIN config' = DOMAIN config /\ DOMAIN file' = DOMAIN file /\ DOMAIN pc' = DOMAIN pc
  /\ \A d \in DOMAIN bundle \ {c} :
       config'[d] = config[d] /\ file'[d] = file[d] /\ pc'[d] = pc[d]

\* So that the invariant is to be shown of c alone.
LEMMA OnlyOne ==
  ASSUME BInv, NEW c \in DOMAIN bundle, Only(c), Kept(c)'
  PROVE  BInv'
<1>1. ASSUME NEW d \in DOMAIN bundle
      PROVE  Kept(d)'
  <2>1. CASE d = c
    BY <2>1, Zenon
  <2>2. CASE d # c
    <3>1. Kept(d)
      BY Zenon DEF BInv
    <3>2. config'[d] = config[d] /\ file'[d] = file[d] /\ pc'[d] = pc[d]
      BY <2>2, Zenon DEF Only
    <3>3. QED
      BY <3>1, <3>2, Zenon DEF Kept
  <2>3. QED
    BY <2>1, <2>2, Zenon
<1>2. QED
  BY <1>1, Zenon DEF BInv, Only

\* A file that can be read is there.
LEMMA NoFileIsNone ==
  /\ ~NoFile.there
  /\ \A f : FileOK(f) => f # NoFile
  BY DEF NoFile, FileOK, FileRecord

\* A step that changes what is kept of c.
LEMMA StepOf ==
  ASSUME BInv, NEW c \in DOMAIN bundle, NEW cfg, NEW f, NEW where, bundle' = bundle,
         config' = [config EXCEPT ![c] = cfg] \/ (config' = config /\ cfg = config[c]),
         file' = [file EXCEPT ![c] = f] \/ (file' = file /\ f = file[c]),
         pc' = [pc EXCEPT ![c] = where] \/ (pc' = pc /\ where = pc[c])
  PROVE  Only(c) /\ config'[c] = cfg /\ file'[c] = f /\ pc'[c] = where
<1>1. c \in DOMAIN config /\ c \in DOMAIN file /\ c \in DOMAIN pc
  BY Zenon DEF BInv
<1>2. /\ config'[c] = cfg /\ DOMAIN config' = DOMAIN config
      /\ \A d \in DOMAIN config \ {c} : config'[d] = config[d]
  BY <1>1
<1>3. /\ file'[c] = f /\ DOMAIN file' = DOMAIN file
      /\ \A d \in DOMAIN file \ {c} : file'[d] = file[d]
  BY <1>1, Zenon
<1>4. /\ pc'[c] = where /\ DOMAIN pc' = DOMAIN pc
      /\ \A d \in DOMAIN pc \ {c} : pc'[d] = pc[d]
  BY <1>1, Zenon
<1>5. QED
  BY <1>2, <1>3, <1>4, Zenon DEF Only, BInv

\* No command has run.
LEMMA BInit == Init => BInv
<1> SUFFICES ASSUME Init
             PROVE  BInv
  OBVIOUS
<1>1. ASSUME NEW c \in DOMAIN bundle
      PROVE  Kept(c)
  BY Zenon DEF Init, Kept
<1>2. QED
  BY <1>1, Zenon DEF Init, BInv

\* A configuration stays one that may be written when its pid, its paths or one
\* of its mounts change, and when the VM runs.
LEMMA StillWritable ==
  ASSUME NEW cfg, Writable(cfg)
  PROVE  /\ Writable([cfg EXCEPT !.pid = 1])
         /\ Writable([cfg EXCEPT !.paths = "paths"])
         /\ \A ms : IsSeq(ms) => Writable([cfg EXCEPT !.mounts = ms])
<1>1. DOMAIN cfg = Members
  BY Zenon DEF Writable, ConfigRecord
<1>2. "paths" # Null
  BY DEF Null
<1>3. ASSUME NEW k \in {"pid", "paths", "mounts"}, NEW v, k = "paths" => v # Null,
             k = "mounts" => IsSeq(v)
      PROVE  Writable([cfg EXCEPT ![k] = v])
  <2> DEFINE new == [cfg EXCEPT ![k] = v]
  <2>1. /\ ConfigRecord(new) /\ new.vm = cfg.vm /\ new.pod = cfg.pod
        /\ new.paths = IF k = "paths" THEN v ELSE cfg.paths
        /\ new.mounts = IF k = "mounts" THEN v ELSE cfg.mounts
    BY <1>1, Zenon DEF ConfigRecord, Members
  <2> HIDE DEF new
  <2>2. QED
    BY <1>3, <2>1, Zenon DEF Writable, new
<1>4. QED
  BY <1>2, <1>3

\* What cc_oci_vm_launch changes once the VM runs.
LEMMA LaunchedFields ==
  ASSUME NEW cfg, Writable(cfg), NEW new, new = Launched(cfg)
  PROVE  /\ Writable(new) /\ new.paths = cfg.paths /\ new.status = cfg.status
         /\ new.process = cfg.process /\ new.root = cfg.root /\ new.mounts = cfg.mounts
<1>1. DOMAIN cfg = Members
  BY DEF Writable, ConfigRecord
<1>2. DOMAIN new = Members /\ ConfigRecord(new)
  BY <1>1, Zenon DEF Launched, ConfigRecord
<1>3. /\ new.paths = cfg.paths /\ new.status = cfg.status
      /\ new.process = cfg.process /\ new.root = cfg.root /\ new.mounts = cfg.mounts
      /\ new.pod = cfg.pod /\ new.vm = [cfg.vm EXCEPT !.pid = 2]
  BY <1>1 DEF Launched, Members
<1>4. /\ new.vm = [pid |-> new.vm.pid, image |-> new.vm.image,
                   kernel_params |-> new.vm.kernel_params]
      /\ new.vm.image # Null
  BY <1>3, Zenon DEF Writable
<1>5. QED
  BY <1>2, <1>3, <1>4, Zenon DEF Writable

\* Reading config.json gives a configuration that may be written.
LEMMA ProcessConfigKeeps ==
  ASSUME BInv, NEW c \in DOMAIN bundle, ProcessConfig(c)
  PROVE  BInv'
<1> DEFINE new == ReadSections(c)[Len(bundle[c].sections)]
<1>1. bundle \in Scenarios /\ Kept(c) /\ bundle' = bundle /\ file' = file
  BY Zenon DEF BInv, ProcessConfig
<1>2. config[c] \in ReadConfigs(c)
  BY <1>1, NewConfigRead, Zenon DEF Kept, ProcessConfig
<1>3. Writable(new)
  <2>1. Len(bundle[c].sections) \in 0..Len(bundle[c].sections)
    BY <1>1, BundleSeqs
  <2>2. new \in ReadConfigs(c)
    BY <1>1, <1>2, <2>1, SectionsLoop, Zenon
  <2>3. QED
    BY <2>2, ReadWritable, Zenon
<1> HIDE DEF new
<1>4. CASE config' = config /\ pc' = [pc EXCEPT ![c] = "refused"]
  <2>1. Only(c) /\ config'[c] = config[c] /\ file'[c] = file[c] /\ pc'[c] = "refused"
    BY <1>1, <1>4, StepOf, Zenon
  <2>2. Kept(c)'
    BY <1>1, <2>1 DEF Kept
  <2>3. QED
    BY <2>1, <2>2, OnlyOne, Zenon
<1>5. CASE config' = [config EXCEPT ![c] = new] /\ pc' = [pc EXCEPT ![c] = "parsed"]
  <2>1. Only(c) /\ config'[c] = new /\ file'[c] = file[c] /\ pc'[c] = "parsed"
    BY <1>1, <1>5, StepOf, Zenon
  <2>2. Kept(c)'
    BY <1>1, <1>3, <2>1, Zenon DEF Kept
  <2>3. QED
    BY <2>1, <2>2, OnlyOne, Zenon
<1>6. QED
  BY <1>4, <1>5, Zenon DEF ProcessConfig, Goto, Set, new

\* So does the check of its version, with the paths of the runtime.
LEMMA ConfigCheckKeeps ==
  ASSUME BInv, NEW c \in DOMAIN bundle, ConfigCheck(c)
  PROVE  BInv'
<1> DEFINE new == [config[c] EXCEPT !.paths = "paths"]
<1>1. Kept(c) /\ bundle' = bundle /\ file' = file
  BY Zenon DEF BInv, ConfigCheck
<1>2. Writable(new)
  BY <1>1, StillWritable, Zenon DEF Kept, ConfigCheck
<1> HIDE DEF new
<1>3. CASE config' = config /\ pc' = [pc EXCEPT ![c] = "refused"]
  <2>1. Only(c) /\ config'[c] = config[c] /\ file'[c] = file[c] /\ pc'[c] = "refused"
    BY <1>1, <1>3, StepOf, Zenon
  <2>2. Kept(c)'
    BY <1>1, <2>1, Zenon DEF Kept
  <2>3. QED
    BY <2>1, <2>2, OnlyOne, Zenon
<1>4. CASE config' = [config EXCEPT ![c] = new] /\ pc' = [pc EXCEPT ![c] = "mounts"]
  <2>1. Only(c) /\ config'[c] = new /\ file'[c] = file[c] /\ pc'[c] = "mounts"
    BY <1>1, <1>4, StepOf, Zenon
  <2>2. Kept(c)'
    BY <1>1, <1>2, <2>1 DEF Kept
  <2>3. QED
    BY <2>1, <2>2, OnlyOne, Zenon
<1>5. QED
  BY <1>3, <1>4, Zenon DEF ConfigCheck, Goto, Set, new

\* A step that changes one mount of the list.
LEMMA SetMountFields ==
  ASSUME BInv, NEW c \in DOMAIN bundle, AtMount(c), NEW m, SetMount(c, m)
  PROVE  /\ config' = [config EXCEPT ![c] = [config[c] EXCEPT !.mounts =
                                               [config[c].mounts EXCEPT ![at[c]] = m]]]
         /\ Writable(config[c])
         /\ IsSeq([config[c].mounts EXCEPT ![at[c]] = m])
<1> DEFINE ms == config[c].mounts
           new == [ms EXCEPT ![at[c]] = m]
<1>1. Writable(config[c]) /\ IsSeq(ms) /\ at[c] \in DOMAIN ms /\ "mounts" \in DOMAIN config[c]
  <2>1. Writable(config[c])
    BY Zenon DEF BInv, Kept, AtMount
  <2>2. DOMAIN config[c] = Members /\ "mounts" \in Members
    BY <2>1 DEF Writable, ConfigRecord, Members
  <2>3. QED
    BY <2>1, <2>2, Zenon DEF Writable, AtMount
<1>2. [config[c] EXCEPT !.mounts[at[c]] = m] = [config[c] EXCEPT !.mounts = new]
  BY <1>1, Zenon
<1>3. IsSeq(new)
  <2>1. Len(ms) \in Nat /\ DOMAIN ms = 1..Len(ms)
    BY <1>1 DEF IsSeq
  <2>2. DOMAIN new = 1..Len(ms)
    BY <2>1, Zenon
  <2>3. new = [i \in 1..Len(ms) |-> new[i]]
    BY <2>2
  <2> HIDE DEF new
  <2>4. QED
    BY <2>1, <2>3, FunctionIsSeq
<1>4. QED
  BY <1>1, <1>2, <1>3, Zenon DEF SetMount, Set

\* The list of the mounts is still one.
LEMMA SetMountKeeps ==
  ASSUME BInv, NEW c \in DOMAIN bundle, AtMount(c), NEW m, SetMount(c, m),
         bundle' = bundle, file' = file, pc' = pc
  PROVE  BInv'
<1> DEFINE ms == [config[c].mounts EXCEPT ![at[c]] = m]
           new == [config[c] EXCEPT !.mounts = ms]
<1>1. config' = [config EXCEPT ![c] = new] /\ Writable(config[c]) /\ IsSeq(ms)
  BY SetMountFields, Zenon
<1> HIDE DEF ms
<1>2. Writable(new)
  BY <1>1, StillWritable, Zenon
<1> HIDE DEF new
<1>3. Only(c) /\ config'[c] = new /\ file'[c] = file[c] /\ pc'[c] = pc[c]
  BY <1>1, StepOf, Zenon
<1>4. Kept(c) /\ pc[c] = "mounts"
  BY Zenon DEF BInv, AtMount
<1>5. Kept(c)'
  BY <1>2, <1>3, <1>4 DEF Kept
<1>6. QED
  BY <1>3, <1>5, OnlyOne, Zenon

\* The steps of cc_oci_handle_mounts, ...
LEMMA MountsKeep ==
  ASSUME BInv, NEW c \in DOMAIN bundle,
         SkipIgnored(c) \/ SkipMissing(c) \/ HandleMount(c)
  PROVE  BInv'
<1>1. PICK m : AtMount(c) /\ SetMount(c, m) /\ bundle' = bundle /\ file' = file /\ pc' = pc
  BY Zenon DEF SkipIgnored, SkipMissing, HandleMount
<1>2. QED
  BY <1>1, SetMountKeeps, Zenon

\* ... and the one that ends create.
LEMMA MountFailsKeeps ==
  ASSUME BInv, NEW c \in DOMAIN bundle, MountFails(c)
  PROVE  BInv'
<1>1. /\ Kept(c) /\ bundle' = bundle /\ file' = file /\ config' = config
      /\ pc' = [pc EXCEPT ![c] = "failed"]
  BY Zenon DEF BInv, MountFails, Goto
<1>2. Only(c) /\ config'[c] = config[c] /\ file'[c] = file[c] /\ pc'[c] = "failed"
  BY <1>1, StepOf, Zenon
<1>3. Kept(c)'
  BY <1>1, <1>2 DEF Kept
<1>4. QED
  BY <1>2, <1>3, OnlyOne, Zenon

\* The file of a VM that is to run is complete, or create fails.
LEMMA LaunchKeeps ==
  ASSUME BInv, NEW c \in DOMAIN bundle, Launch(c)
  PROVE  BInv'
<1> DEFINE f == StateFileCreate(config[c], "now")
           where == IF f = NoFile THEN "failed" ELSE "launch"
<1>1. /\ Kept(c) /\ bundle' = bundle /\ config' = config /\ pc[c] = "mounts"
      /\ file' = [file EXCEPT ![c] = f] /\ c \in DOMAIN file
  BY Zenon DEF BInv, Launch
<1>2. pc' = [pc EXCEPT ![c] = where]
  BY <1>1, Zenon DEF Launch, Goto
<1>3. "now" # Null
  BY DEF Null
<1>4. Writable(config[c])
  BY <1>1 DEF Kept
<1> HIDE DEF f
<1>5. f # NoFile => FileOK(f)
  BY <1>3, <1>4, CreatedFile, Zenon DEF f
<1> HIDE DEF where
<1>6. Only(c) /\ config'[c] = config[c] /\ file'[c] = f /\ pc'[c] = where
  BY <1>1, <1>2, StepOf, Zenon
<1>7. Kept(c)'
  <2>1. CASE f = NoFile
    <3>1. where = "failed"
      BY <2>1, Zenon DEF where
    <3>2. QED
      BY <3>1, <2>1, <1>6, Zenon DEF Kept
  <2>2. CASE f # NoFile
    <3>1. where = "launch"
      BY <2>2 DEF where
    <3>2. (file[c] # NoFile /\ file[c] = StateFileCreate(config[c], "now"))'
      BY <2>2, <1>6, Zenon DEF f
    <3>3. QED
      BY <3>1, <3>2, <1>4, <1>5, <1>6 DEF Kept
  <2>3. QED
    BY <2>1, <2>2, Zenon
<1>8. QED
  BY <1>6, <1>7, OnlyOne, Zenon

\* The file of a VM that runs is there because the one before it was.
LEMMA LaunchEndsKeeps ==
  ASSUME BInv, NEW c \in DOMAIN bundle, LaunchEnds(c)
  PROVE  BInv'
<1> DEFINE new == Launched(config[c])
           f == StateFileCreate(new, "now")
<1>1. /\ Kept(c) /\ bundle' = bundle /\ pc[c] = "launch"
      /\ pc' = [pc EXCEPT ![c] = "saved"]
  BY Zenon DEF BInv, LaunchEnds, Goto
<1>2. /\ Writable(config[c]) /\ file[c] # NoFile
      /\ file[c] = StateFileCreate(config[c], "now") /\ FileOK(file[c])
  BY <1>1 DEF Kept
<1>3. "now" # Null
  BY Zenon DEF Null
<1>4. /\ Writable(new) /\ new.paths = config[c].paths /\ new.status = config[c].status
      /\ new.process = config[c].process
  BY <1>2, LaunchedFields, Zenon
<1> HIDE DEF new
<1>5. f # NoFile
  <2>1. /\ config[c].paths # Blank /\ config[c].status \in Statuses
        /\ config[c].process.args # Null /\ config[c].process.cwd # Blank
    BY <1>2, Zenon DEF StateFileCreate
  <2>2. f.there
    BY <1>4, <2>1, Zenon DEF StateFileCreate
  <2>3. QED
    BY <2>2, NoFileIsNone
<1> HIDE DEF f
<1>6. FileOK(f) /\ Gives(new, f)
  BY <1>3, <1>4, <1>5, CreatedFile, Zenon DEF f
<1>7. CASE config' = [config EXCEPT ![c] = new] /\ file' = [file EXCEPT ![c] = f]
  <2>1. Only(c) /\ config'[c] = new /\ file'[c] = f /\ pc'[c] = "saved"
    BY <1>1, <1>7, StepOf, Zenon
  <2>2. Kept(c)'
    BY <1>6, <2>1 DEF Kept
  <2>3. QED
    BY <2>1, <2>2, OnlyOne, Zenon
<1>8. CASE config' = [config EXCEPT ![c] = NewConfig] /\ file' = file
  <2>1. Only(c) /\ config'[c] = NewConfig /\ file'[c] = file[c] /\ pc'[c] = "saved"
    BY <1>1, <1>8, StepOf, Zenon
  <2>2. NewConfig.root = Blank
    BY Zenon DEF NewConfig
  <2>3. Kept(c)'
    BY <1>2, <2>1, <2>2 DEF Kept
  <2>4. QED
    BY <2>1, <2>3, OnlyOne, Zenon
<1>9. QED
  BY <1>7, <1>8, Zenon DEF LaunchEnds, Set, new, f

\* The one file of a container in a pod is complete, or create fails.
LEMMA PodCreateKeeps ==
  ASSUME BInv, NEW c \in DOMAIN bundle, PodCreate(c)
  PROVE  BInv'
<1> DEFINE new == [config[c] EXCEPT !.pid = 1]
           f == StateFileCreate(new, "now")
           where == IF f = NoFile THEN "failed" ELSE "saved"
<1>1. /\ Kept(c) /\ bundle' = bundle /\ pc[c] = "mounts"
      /\ c \in DOMAIN file /\ c \in DOMAIN config
  BY Zenon DEF BInv, PodCreate
<1>2. "now" # Null
  BY Zenon DEF Null
<1>3. Writable(config[c])
  BY <1>1 DEF Kept
<1>4. Writable(new)
  BY <1>3, StillWritable, Zenon
<1>5. CASE config' = config /\ file' = file /\ pc' = [pc EXCEPT ![c] = "failed"]
  <2>1. Only(c) /\ config'[c] = config[c] /\ file'[c] = file[c] /\ pc'[c] = "failed"
    BY <1>1, <1>5, StepOf, Zenon
  <2>2. Kept(c)'
    BY <1>1, <2>1, Zenon DEF Kept
  <2>3. QED
    BY <2>1, <2>2, OnlyOne, Zenon
<1> HIDE DEF new
<1>6. CASE /\ config' = [config EXCEPT ![c] = new]
           /\ file' = [file EXCEPT ![c] = StateFileCreate(config'[c], "now")]
           /\ pc' = [pc EXCEPT ![c] = IF file'[c] = NoFile THEN "failed" ELSE "saved"]
  <2>1. config'[c] = new
    BY <1>1, <1>6, Zenon
  <2>2. file' = [file EXCEPT ![c] = f]
    BY <1>6, <2>1, Zenon
  <2>3. file'[c] = f
    BY <1>1, <2>2, Zenon
  <2>4. pc' = [pc EXCEPT ![c] = where]
    BY <1>6, <2>3, Zenon
  <2> HIDE DEF f
  <2>5. f # NoFile => FileOK(f) /\ Gives(new, f)
    BY <1>2, <1>4, CreatedFile, Zenon DEF f
  <2> HIDE DEF where
  <2>6. Only(c) /\ config'[c] = new /\ file'[c] = f /\ pc'[c] = where
    <3>1. config' = [config EXCEPT ![c] = new] /\ bundle' = bundle
      BY <1>1, <1>6, Zenon
    <3>2. QED
      BY <3>1, <2>2, <2>4, StepOf, Zenon
  <2>7. Kept(c)'
    <3>1. CASE f = NoFile
      <4>1. where = "failed"
        BY <3>1, Zenon DEF where
      <4>2. QED
        BY <4>1, <3>1, <2>6 DEF Kept
    <3>2. CASE f # NoFile
      <4>1. where = "saved"
        BY <3>2, Zenon DEF where
      <4>2. QED
        BY <4>1, <3>2, <2>5, <2>6 DEF Kept
    <3>3. QED
      BY <3>1, <3>2, Zenon
  <2>8. QED
    BY <2>6, <2>7, OnlyOne, Zenon
<1>7. QED
  BY <1>5, <1>6, Zenon DEF PodCreate, Set, Goto, new

\* A rewrite from a configuration that gives what the file holds changes the
\* status and the annotations of the file alone.
LEMMA RewriteGives ==
  ASSUME BInv, NEW c \in DOMAIN bundle, pc[c] = "saved",
         NEW cfg, Gives(cfg, file[c]), NEW status \in Statuses, Rewrite(c, cfg, status)
  PROVE  BInv' /\ file'[c].there /\ Lasting(file'[c]) = Lasting(file[c])
<1> DEFINE new == [cfg EXCEPT !.status = status]
           f == Updated(file[c], status, cfg.annotations)
<1>1. /\ Kept(c) /\ bundle' = bundle /\ pc' = pc /\ c \in DOMAIN file
      /\ config' = [config EXCEPT ![c] = new]
      /\ file' = [file EXCEPT ![c] = StateFileCreate(new, file[c].created)]
  BY Zenon DEF BInv, Rewrite, Set
<1>2. FileOK(file[c])
  BY <1>1 DEF Kept
<1>3. StateFileCreate(new, file[c].created) = f
  BY <1>2, Rewritten, Zenon
<1>4. FileOK(f) /\ Lasting(f) = Lasting(file[c]) /\ f.there
  BY <1>2, UpdatedFile, Zenon
<1>5. Gives(new, f)
  BY <1>2, StatusGives, Zenon
<1> HIDE DEF new, f
<1>6. file' = [file EXCEPT ![c] = f]
  BY <1>1, <1>3, Zenon
<1>7. Only(c) /\ config'[c] = new /\ file'[c] = f /\ pc'[c] = pc[c]
  BY <1>1, <1>6, StepOf, Zenon
<1>8. Kept(c)'
  BY <1>1, <1>4, <1>5, <1>7 DEF Kept
<1>9. BInv'
  BY <1>7, <1>8, OnlyOne, Zenon
<1>10. QED
  BY <1>4, <1>7, <1>9, Zenon

\* Start, pause, resume and kill rewrite the file so.
LEMMA RewritesKeep ==
  ASSUME BInv, NEW c \in DOMAIN bundle, Start(c) \/ Toggle(c) \/ Kill(c)
  PROVE  BInv' /\ file'[c].there /\ Lasting(file'[c]) = Lasting(file[c])
<1>1. pc[c] = "saved" /\ Kept(c)
  BY Zenon DEF BInv, Start, Toggle, Kill
<1>2. FileOK(file[c])
  BY <1>1, Zenon DEF Kept
<1>3. Gives(FromFile(c), file[c]) /\ file[c].status \in Statuses
  BY <1>2, FromFileGives, Zenon DEF FileOK
<1>4. {"running", "paused", "stopped", "stopping"} \subseteq Statuses
  BY Zenon DEF Statuses
<1>5. \/ \E status \in Statuses : Rewrite(c, FromFile(c), status)
      \/ /\ config[c].root # Blank
         /\ Rewrite(c, ConfigUpdate(config[c], StateFileRead(file[c])), "running")
  <2>1. CASE Start(c)
    BY <1>4, <2>1, Zenon DEF Start
  <2>2. CASE Toggle(c)
    BY <1>4, <2>2, Zenon DEF Toggle
  <2>3. CASE Kill(c)
    BY <1>3, <1>4, <2>3, Zenon DEF Kill
  <2>4. QED
    BY <2>1, <2>2, <2>3, Zenon
<1>6. CASE \E status \in Statuses : Rewrite(c, FromFile(c), status)
  BY <1>1, <1>3, <1>6, RewriteGives, Zenon
<1>7. CASE /\ config[c].root # Blank
           /\ Rewrite(c, ConfigUpdate(config[c], StateFileRead(file[c])), "running")
  <2> DEFINE cfg == ConfigUpdate(config[c], StateFileRead(file[c]))
  <2>1. Gives(config[c], file[c])
    BY <1>1, <1>7, Zenon DEF Kept
  <2>2. Gives(cfg, file[c])
    BY <2>1, <1>2, InMemoryGives, Zenon
  <2>3. "running" \in Statuses /\ Rewrite(c, cfg, "running")
    BY <1>4, <1>7, Zenon
  <2> HIDE DEF cfg
  <2>4. QED
    BY <1>1, <2>2, <2>3, RewriteGives, Zenon
<1>8. QED
  BY <1>5, <1>6, <1>7, Zenon

\* Delete reads the file and leaves it.
LEMMA StopKeeps ==
  ASSUME BInv, NEW c \in DOMAIN bundle, Stop(c)
  PROVE  BInv'
<1> DEFINE new == FromFile(c)
<1>1. /\ Kept(c) /\ bundle' = bundle /\ pc[c] = "saved" /\ file' = file
      /\ config' = [config EXCEPT ![c] = new] /\ pc' = [pc EXCEPT ![c] = "unmount"]
  BY Zenon DEF BInv, Stop, Set, Goto
<1>2. FileOK(file[c])
  BY <1>1, Zenon DEF Kept
<1>3. new.root = Blank
  BY <1>2, FromFileGives, Zenon
<1> HIDE DEF new
<1>4. Only(c) /\ config'[c] = new /\ file'[c] = file[c] /\ pc'[c] = "unmount"
  BY <1>1, StepOf, Zenon
<1>5. Kept(c)'
  BY <1>2, <1>3, <1>4 DEF Kept
<1>6. QED
  BY <1>4, <1>5, OnlyOne, Zenon

\* The steps of delete, up to the state file.
LEMMA DeleteKeeps ==
  ASSUME BInv, NEW c \in DOMAIN bundle, Unmount(c) \/ UnmountEnds(c) \/ RemoveDirectory(c)
  PROVE  BInv' /\ file' = file
<1>1. Kept(c) /\ bundle' = bundle /\ file' = file /\ config' = config
      /\ pc[c] \in {"unmount", "remove"}
  BY Zenon DEF BInv, Unmount, UnmountEnds, RemoveDirectory
<1>2. PICK where \in {"saved", "unmount", "remove"} :
        pc' = [pc EXCEPT ![c] = where] \/ (pc' = pc /\ where = pc[c])
  <2>1. CASE Unmount(c)
    BY <1>1, <2>1, Zenon DEF Unmount, Goto
  <2>2. CASE UnmountEnds(c)
    BY <2>2, Zenon DEF UnmountEnds, Goto
  <2>3. CASE RemoveDirectory(c)
    BY <1>1, <2>3, Zenon DEF RemoveDirectory
  <2>4. QED
    BY <2>1, <2>2, <2>3, Zenon
<1>3. Only(c) /\ config'[c] = config[c] /\ file'[c] = file[c] /\ pc'[c] = where
  BY <1>1, <1>2, StepOf, Zenon
<1>4. FileOK(file[c]) /\ config[c].root = Blank
  BY <1>1 DEF Kept
<1>5. Kept(c)'
  BY <1>2, <1>3, <1>4 DEF Kept
<1>6. QED
  BY <1>1, <1>3, <1>5, OnlyOne, Zenon

\* Cleanup ends with the runtime directory removed or not.
LEMMA CleanupEnds ==
  ASSUME NEW c, Cleanup(c)
  PROVE  \E where \in {"gone", "unremoved"} : pc' = [pc EXCEPT ![c] = where]
<1> DEFINE there == Resolve(RuntimeDir(c)) \in dirs'
<1>1. Goto(c, IF there THEN "unremoved" ELSE "gone")
  BY Zenon DEF Cleanup
<1> HIDE DEF there
<1> QED
  BY <1>1, Zenon DEF Goto

\* The file goes at the end.
LEMMA CleanupKeeps ==
  ASSUME BInv, NEW c \in DOMAIN bundle, Cleanup(c)
  PROVE  BInv' /\ file' = [file EXCEPT ![c] = NoFile]
<1>1. PICK where \in {"gone", "unremoved"} :
        /\ bundle' = bundle /\ config' = config /\ pc' = [pc EXCEPT ![c] = where]
        /\ file' = [file EXCEPT ![c] = NoFile]
  BY CleanupEnds, Zenon DEF Cleanup
<1>2. Only(c) /\ config'[c] = config[c] /\ file'[c] = NoFile /\ pc'[c] = where
  BY <1>1, StepOf, Zenon
<1>3. Kept(c)'
  BY <1>2, Zenon DEF Kept
<1>4. QED
  BY <1>1, <1>2, <1>3, OnlyOne, Zenon

\* A step of the command on c.
Acts(c) ==
  \/ ProcessConfig(c) \/ ConfigCheck(c)
  \/ SkipIgnored(c) \/ SkipMissing(c) \/ HandleMount(c) \/ MountFails(c)
  \/ Launch(c) \/ LaunchEnds(c) \/ PodCreate(c)
  \/ Start(c) \/ Toggle(c) \/ Kill(c)
  \/ Stop(c) \/ Unmount(c) \/ UnmountEnds(c) \/ RemoveDirectory(c) \/ Cleanup(c)

\* Every step keeps the invariant.
LEMMA BNext == BInv /\ [Next]_vars => BInv'
<1> SUFFICES ASSUME BInv, [Next]_vars
             PROVE  BInv'
  BY Zenon
<1>1. CASE UNCHANGED vars
  BY <1>1, Zenon DEF vars, BInv, Kept
<1>2. ASSUME NEW c \in DOMAIN bundle,
             Acts(c)
      PROVE  BInv'
  <2>1. CASE ProcessConfig(c) \/ ConfigCheck(c)
    BY <2>1, ProcessConfigKeeps, ConfigCheckKeeps, Zenon
  <2>2. CASE SkipIgnored(c) \/ SkipMissing(c) \/ HandleMount(c) \/ MountFails(c)
    BY <2>2, MountsKeep, MountFailsKeeps, Zenon
  <2>3. CASE Launch(c) \/ LaunchEnds(c) \/ PodCreate(c)
    BY <2>3, LaunchKeeps, LaunchEndsKeeps, PodCreateKeeps, Zenon
  <2>4. CASE Start(c) \/ Toggle(c) \/ Kill(c)
    BY <2>4, RewritesKeep, Zenon
  <2>5. CASE \/ Stop(c) \/ Unmount(c) \/ UnmountEnds(c) \/ RemoveDirectory(c)
             \/ Cleanup(c)
    BY <2>5, StopKeeps, DeleteKeeps, CleanupKeeps, Zenon
  <2>6. QED
    BY <1>2, <2>1, <2>2, <2>3, <2>4, <2>5, Zenon DEF Acts
<1>3. QED
  BY <1>1, <1>2, Zenon DEF Next, Acts

\* The step of another container leaves the file alone, and one of a container
\* that is saved changes the file in a rewrite only.
LEMMA FileChanges ==
  ASSUME BInv, NEW d \in DOMAIN bundle,
         Acts(d),
         NEW c \in DOMAIN bundle, file'[c] # file[c], pc[c] = "saved"
  PROVE  file'[c].there /\ Lasting(file'[c]) = Lasting(file[c])
<1>1. PICK f : file' = file \/ file' = [file EXCEPT ![d] = f]
  BY Zenon DEF Acts, ProcessConfig, ConfigCheck, SkipIgnored, SkipMissing, HandleMount,
    MountFails, Launch, LaunchEnds, PodCreate, Start, Toggle, Kill, Rewrite, Stop,
    Unmount, UnmountEnds, RemoveDirectory, Cleanup
<1>2. d = c
  <2>1. c \in DOMAIN file
    BY Zenon DEF BInv
  <2>2. QED
    BY <1>1, <2>1
<1>3. CASE Start(d) \/ Toggle(d) \/ Kill(d)
  BY <1>2, <1>3, RewritesKeep, Zenon
<1>4. CASE Stop(d)
  BY <1>4, Zenon DEF Stop
<1>5. CASE \/ ProcessConfig(d) \/ ConfigCheck(d)
           \/ SkipIgnored(d) \/ SkipMissing(d) \/ HandleMount(d) \/ MountFails(d)
           \/ Launch(d) \/ LaunchEnds(d) \/ PodCreate(d)
           \/ Unmount(d) \/ UnmountEnds(d) \/ RemoveDirectory(d) \/ Cleanup(d)
  <2>1. pc[d] \in {"new", "parsed", "mounts", "launch", "unmount", "remove"}
    BY <1>5, Zenon DEF ProcessConfig, ConfigCheck, AtMount, SkipIgnored, SkipMissing,
      HandleMount, MountFails, Launch, LaunchEnds, PodCreate, Unmount, UnmountEnds,
      RemoveDirectory, Cleanup
  <2>2. QED
    BY <1>2, <2>1
<1>6. QED
  BY <1>3, <1>4, <1>5, Zenon DEF Acts

\* Every state file that cc_oci_state_file_create writes is one that
\* cc_oci_state_file_read accepts, and start, pause, resume and kill write back, in
\* every element but the status and the annotations, what they read: for any
\* bundles, with any sections, mounts and annotations.
THEOREM RewriteTheorem == Spec => RewriteKeeps
<1> DEFINE Keeps == \A c \in DOMAIN bundle :
                      file'[c] # file[c] =>
                        /\ file'[c].there => Complete(file'[c])
                        /\ pc[c] = "saved" =>
                             file'[c].there /\ Lasting(file'[c]) = Lasting(file[c])
<1>1. ASSUME BInv, BInv', Next
      PROVE  Keeps
  <2> SUFFICES ASSUME NEW c \in DOMAIN bundle, file'[c] # file[c]
               PROVE  /\ file'[c].there => Complete(file'[c])
                      /\ pc[c] = "saved" =>
                           file'[c].there /\ Lasting(file'[c]) = Lasting(file[c])
    BY Zenon
  <2>1. PICK d \in DOMAIN bundle : Acts(d)
    BY <1>1, Zenon DEF Next, Acts
  <2>2. bundle' = bundle
    BY <2>1, Zenon DEF Acts, ProcessConfig, ConfigCheck, SkipIgnored, SkipMissing, HandleMount,
      MountFails, Launch, LaunchEnds, PodCreate, Start, Toggle, Kill, Rewrite, Stop,
      Unmount, UnmountEnds, RemoveDirectory, Cleanup
  <2>3. file'[c] = NoFile \/ FileOK(file'[c])
    BY <1>1, <2>2, Zenon DEF BInv, Kept
  <2>4. file'[c].there => Complete(file'[c])
    BY <2>3, NoFileIsNone, CompleteFile
  <2>5. QED
    BY <1>1, <2>1, <2>4, FileChanges, Zenon
<1>2. BInv /\ BInv' /\ [Next]_vars => [Keeps]_vars
  BY <1>1, Zenon
<1>3. QED
  BY <1>2, BInit, BNext, PTL DEF Spec, RewriteKeeps

\* A container that create has saved, until it is deleted, has a state file that
\* the next command can read; and what that command then has in memory is what the
\* file holds, in every element that it writes.
Readable ==
  \A c \in DOMAIN bundle :
    pc[c] \in {"saved", "unmount", "remove"} =>
      file[c].there /\ Complete(file[c]) /\ Gives(FromFile(c), file[c])

\* A container is never without a state file that can be read, whichever
\* system calls fail and in whatever order its commands come.
THEOREM ReadableTheorem == Spec => []Readable
<1>1. BInv => Readable
  <2> SUFFICES ASSUME BInv, NEW c \in DOMAIN bundle,
                      pc[c] \in {"saved", "unmount", "remove"}
               PROVE  file[c].there /\ Complete(file[c]) /\ Gives(FromFile(c), file[c])
    BY Zenon DEF Readable
  <2>1. FileOK(file[c])
    BY Zenon DEF BInv, Kept
  <2>2. QED
    BY <2>1, CompleteFile, FromFileGives, Zenon
<1>2. QED
  BY <1>1, BInit, BNext, PTL DEF Spec

-----------------------------------------------------------------------------
(* What the sections leave on the list of the mounts.                        *)

\* The order in which the specification lists the sections.
InOrder == <<"process", "root", "mounts", "annotations">>

\* A mount with that destination and source is on the list of cfg.
Listed(cfg, dir, src) ==
  \E j \in 1..Len(cfg.mounts) : cfg.mounts[j].dir = dir /\ cfg.mounts[j].src = src

\* The mounts of a list have a destination and a source.
Records(ms) == \A j \in 1..Len(ms) : "dir" \in DOMAIN ms[j] /\ "src" \in DOMAIN ms[j]

\* The mounts of the bundle are on the list of cfg, and so is the root directory
\* of a container that names its pod.
Loaded(c, cfg) ==
  /\ \A i \in 1..Len(bundle[c].mounts) :
       Listed(cfg, bundle[c].mounts[i].dir, bundle[c].mounts[i].src)
  /\ cfg.pod.sandbox_name # Null => Listed(cfg, <<c, "rootfs">>, "dir")

\* The mounts section, read into an empty list.
LEMMA MountsLoaded ==
  ASSUME NEW c, NEW cfg \in ReadConfigs(c), IsSeq(bundle[c].mounts), cfg.mounts = << >>,
         cfg.pod = NoPod, NEW r, r = MountsHandleSection(c, cfg)
  PROVE  Loaded(c, r) /\ r.root = cfg.root
<1> DEFINE ms == [i \in DOMAIN bundle[c].mounts |->
                    Mount(bundle[c].mounts[i].dir, bundle[c].mounts[i].src)]
           n == Len(bundle[c].mounts)
<1>1. n \in Nat /\ DOMAIN bundle[c].mounts = 1..n
  BY SMTT(30) DEF IsSeq
<1>2. /\ Len(ms) = n
      /\ \A i \in 1..n : ms[i].dir = bundle[c].mounts[i].dir /\ ms[i].src = bundle[c].mounts[i].src
  BY <1>1 DEF Mount
<1> HIDE DEF ms
<1>3. r = [cfg EXCEPT !.mounts = ms]
  BY Zenon DEF MountsHandleSection, ms
<1>4. r.mounts = ms /\ r.pod = NoPod /\ r.root = cfg.root
  BY <1>3 DEF ReadConfigs
<1>5. NoPod.sandbox_name = Null
  BY Zenon DEF NoPod
<1>6. QED
  BY <1>2, <1>4, <1>5, Zenon DEF Loaded, Listed

\* A mount more leaves the others on the list.
LEMMA ListedAppend ==
  ASSUME NEW S, NEW cfg, cfg.mounts \in Seq(S), NEW m \in S,
         NEW r, r.mounts = Append(cfg.mounts, m)
  PROVE  /\ Listed(r, m.dir, m.src)
         /\ \A dir, src : Listed(cfg, dir, src) => Listed(r, dir, src)
<1>1. /\ Len(cfg.mounts) \in Nat /\ Len(r.mounts) = Len(cfg.mounts) + 1
      /\ r.mounts[Len(cfg.mounts) + 1] = m
      /\ \A j \in 1..Len(cfg.mounts) : r.mounts[j] = cfg.mounts[j]
  OBVIOUS
<1>2. /\ Len(cfg.mounts) + 1 \in 1..Len(r.mounts)
      /\ \A j \in 1..Len(cfg.mounts) : j \in 1..Len(r.mounts)
  BY <1>1
<1>3. QED
  BY <1>1, <1>2, Zenon DEF Listed

\* One annotation.
LEMMA AnnotationLoaded ==
  ASSUME NEW c, NEW cfg \in ReadConfigs(c), NEW i \in 1..Len(bundle[c].annotations),
         Loaded(c, cfg), cfg.root = "dir", NEW r,
         r = AnnotationStep(c, cfg, bundle[c].annotations[i])
  PROVE  Loaded(c, r) /\ r.root = "dir"
<1>1. /\ r \in ReadConfigs(c) /\ r.root = cfg.root
      /\ \/ r.mounts = cfg.mounts /\ r.pod.sandbox_name = cfg.pod.sandbox_name
         \/ r.mounts = Append(cfg.mounts, RootMount(c, cfg))
  <2>1. Annotated(c, r, cfg)
    BY AnnotationStepRead, Zenon
  <2>2. QED
    BY <2>1, Zenon DEF Annotated
<1>2. CASE r.mounts = cfg.mounts /\ r.pod.sandbox_name = cfg.pod.sandbox_name
  BY <1>1, <1>2, Zenon DEF Loaded, Listed
<1>3. CASE r.mounts = Append(cfg.mounts, RootMount(c, cfg))
  <2> DEFINE m == RootMount(c, cfg)
  <2>1. m.dir = <<c, "rootfs">> /\ m.src = "dir"
    BY Zenon DEF RootMount, Mount, Blank
  <2> HIDE DEF m
  <2>2. cfg.mounts \in Seq(BundleMounts(c) \cup {m}) /\ m \in BundleMounts(c) \cup {m}
    BY ReadConfigMembers, SMTT(30)
  <2>3. /\ Listed(r, m.dir, m.src)
        /\ \A dir, src : Listed(cfg, dir, src) => Listed(r, dir, src)
    <3>1. r.mounts = Append(cfg.mounts, m)
      BY <1>3, Zenon DEF m
    <3>2. QED
      BY <2>2, <3>1, ListedAppend, Zenon
  <2>4. QED
    BY <1>1, <2>1, <2>3, Zenon DEF Loaded
<1>4. QED
  BY <1>1, <1>2, <1>3, Zenon

\* All of them, by induction on how many have been read.
LEMMA AnnotationsLoaded ==
  ASSUME NEW c, NEW cfg \in ReadConfigs(c), IsSeq(bundle[c].annotations),
         Loaded(c, cfg), cfg.root = "dir"
  PROVE  Loaded(c, AnnotationsHandleSection(c, cfg))
<1> DEFINE n == Len(bundle[c].annotations)
<1>1. PICK f : /\ f \in [0..n -> ReadConfigs(c)] /\ f[0] = cfg
               /\ \A i \in 1..n : f[i] = AnnotationStep(c, f[i - 1], bundle[c].annotations[i])
               /\ AnnotationsHandleSection(c, cfg) = f[n]
  BY AnnotationsLoop
<1>2. n \in Nat
  BY DEF IsSeq
<1> DEFINE S == {i \in Nat : i <= n => Loaded(c, f[i]) /\ f[i].root = "dir"}
<1>3. 0 \in S
  BY <1>1, <1>2, Zenon
<1>4. ASSUME NEW i \in Nat, i \in S
      PROVE  i + 1 \in S
  <2>1. CASE i + 1 > n
    BY <2>1, <1>2
  <2>2. CASE i + 1 <= n
    <3>1. i \in 0..n /\ i + 1 \in 1..n /\ (i + 1) - 1 = i /\ i <= n
      BY <2>2, <1>2
    <3>2. /\ f[i] \in ReadConfigs(c) /\ Loaded(c, f[i]) /\ f[i].root = "dir"
          /\ f[i + 1] = AnnotationStep(c, f[i], bundle[c].annotations[i + 1])
      BY <1>1, <1>4, <3>1, Zenon
    <3>3. Loaded(c, f[i + 1]) /\ f[i + 1].root = "dir"
      BY <3>1, <3>2, AnnotationLoaded
    <3>4. QED
      BY <3>3
  <2>3. QED
    BY <1>2, <2>1, <2>2
<1>5. Nat \subseteq S
  <2> HIDE DEF S
  <2>1. QED
    BY <1>3, <1>4, Induction, Zenon
<1>6. QED
  BY <1>1, <1>2, <1>5, SMTT(30)

\* The four sections, in the order of the specification.
LEMMA SectionsRead ==
  ASSUME bundle \in Scenarios, NEW c \in DOMAIN bundle, config[c] = NewConfig,
         bundle[c].sections = InOrder
  PROVE  Loaded(c, ReadSections(c)[Len(bundle[c].sections)])
<1> DEFINE r == ReadSections(c)
<1>1. /\ Len(bundle[c].sections) = 4 /\ bundle[c].sections[1] = "process"
      /\ bundle[c].sections[2] = "root" /\ bundle[c].sections[3] = "mounts"
      /\ bundle[c].sections[4] = "annotations"
  BY DEF InOrder
<1>2. config[c] \in ReadConfigs(c)
  BY NewConfigRead, Zenon
<1>3. /\ r[0] = NewConfig
      /\ \A i \in 0..4 : r[i] \in ReadConfigs(c)
      /\ \A i \in 1..4 : r[i] = HandleSection(c, bundle[c].sections[i], r[i - 1])
  BY <1>1, <1>2, SectionsLoop, Zenon
<1> HIDE DEF r
<1>4. /\ r[1] = HandleSection(c, "process", NewConfig) /\ r[2] = HandleSection(c, "root", r[1])
      /\ r[3] = HandleSection(c, "mounts", r[2]) /\ r[4] = HandleSection(c, "annotations", r[3])
  BY <1>1, <1>3
<1>5. r[1] = ProcessHandleSection(c, NewConfig) /\ r[2] = RootHandleSection(c, r[1])
  BY <1>4, Zenon DEF HandleSection
<1>6. r[3] = MountsHandleSection(c, r[2]) /\ r[4] = AnnotationsHandleSection(c, r[3])
  BY <1>4 DEF HandleSection
<1>7. r[1] \in ReadConfigs(c) /\ r[2] \in ReadConfigs(c) /\ r[3] \in ReadConfigs(c)
  BY <1>3
<1>8. r[1].mounts = << >> /\ r[1].pod = NoPod
  BY <1>5, Zenon DEF ProcessHandleSection, NewConfig
<1>9. r[2].mounts = << >> /\ r[2].pod = NoPod /\ r[2].root = "dir"
  BY <1>5, <1>7, <1>8, Zenon DEF RootHandleSection, ReadConfigs
<1>10. Loaded(c, r[3]) /\ r[3].root = "dir"
  BY <1>6, <1>7, <1>9, MountsLoaded, BundleSeqs, SMTT(30)
<1>11. Loaded(c, r[4])
  BY <1>6, <1>7, <1>10, AnnotationsLoaded, BundleSeqs
<1>12. QED
  BY <1>1, <1>11, Zenon DEF r

\* What is loaded of c until its mounts are made.
LoadedAt(c) ==
  pc[c] \in {"parsed", "mounts"} =>
    /\ Records(config[c].mounts)
    /\ bundle[c].sections = InOrder => Loaded(c, config[c])

\* The inductive invariant for the mounts on the list.
LInv == BInv /\ \A c \in DOMAIN bundle : LoadedAt(c)

\* The mounts that are read have both.
LEMMA ReadRecords ==
  ASSUME NEW c, NEW cfg \in ReadConfigs(c)
  PROVE  Records(cfg.mounts)
<1>1. cfg.mounts \in Seq(BundleMounts(c))
  BY ReadConfigMembers, Zenon
<1>2. \A j \in 1..Len(cfg.mounts) : cfg.mounts[j] \in BundleMounts(c)
  BY <1>1
<1>3. \A m \in BundleMounts(c) : "dir" \in DOMAIN m /\ "src" \in DOMAIN m
  BY DEF BundleMounts, Mount
<1>4. QED
  BY <1>2, <1>3, Zenon DEF Records

\* A mount that keeps its directory and its source.
LEMMA SetMountLoads ==
  ASSUME BInv, NEW c \in DOMAIN bundle, LoadedAt(c), AtMount(c), NEW m, SetMount(c, m),
         DOMAIN m = DOMAIN config[c].mounts[at[c]],
         m.dir = config[c].mounts[at[c]].dir, m.src = config[c].mounts[at[c]].src,
         bundle' = bundle, file' = file, pc' = pc
  PROVE  LoadedAt(c)'
<1> DEFINE old == config[c].mounts
           ms == [old EXCEPT ![at[c]] = m]
           new == [config[c] EXCEPT !.mounts = ms]
<1>1. config' = [config EXCEPT ![c] = new] /\ Writable(config[c])
  BY SetMountFields, Zenon
<1>2. /\ Len(old) \in Nat /\ DOMAIN old = 1..Len(old) /\ at[c] \in 1..Len(old)
      /\ DOMAIN config[c] = Members
  <2>1. IsSeq(old) /\ DOMAIN config[c] = Members
    BY <1>1, Zenon DEF Writable, ConfigRecord
  <2>2. at[c] \in DOMAIN old
    BY Zenon DEF AtMount
  <2>3. QED
    BY <2>1, <2>2 DEF IsSeq
<1>3. /\ Len(ms) = Len(old)
      /\ \A j \in 1..Len(old) : ms[j] = IF j = at[c] THEN m ELSE old[j]
  BY <1>2
<1> HIDE DEF ms
<1>4. new.mounts = ms /\ new.pod = config[c].pod
  BY <1>2 DEF Members
<1> HIDE DEF new
<1>5. config'[c] = new
  BY <1>1, Zenon DEF BInv
<1>6. Records(old) /\ (bundle[c].sections = InOrder => Loaded(c, config[c]))
  BY Zenon DEF LoadedAt, AtMount
<1>7. Records(ms)
  BY <1>2, <1>3, <1>6, Zenon DEF Records
<1>8. \A j \in 1..Len(old) : ms[j].dir = old[j].dir /\ ms[j].src = old[j].src
  BY <1>3, Zenon
<1>9. ASSUME NEW dir, NEW src, Listed(config[c], dir, src)
      PROVE  Listed(new, dir, src)
  BY <1>3, <1>4, <1>8, <1>9, Zenon DEF Listed
<1>10. bundle[c].sections = InOrder => Loaded(c, new)
  BY <1>4, <1>6, <1>9, Zenon DEF Loaded
<1>11. QED
  BY <1>4, <1>5, <1>7, <1>10, Zenon DEF LoadedAt, Loaded

\* cc_oci_handle_mounts sets other members of a mount.
LEMMA MountsLoad ==
  ASSUME BInv, NEW c \in DOMAIN bundle, LoadedAt(c),
         SkipIgnored(c) \/ SkipMissing(c) \/ HandleMount(c)
  PROVE  LoadedAt(c)'
<1> DEFINE m == config[c].mounts[at[c]]
<1>1. AtMount(c) /\ bundle' = bundle /\ file' = file /\ pc' = pc
  BY Zenon DEF SkipIgnored, SkipMissing, HandleMount
<1>2. "dir" \in DOMAIN m /\ "src" \in DOMAIN m
  <2>1. Writable(config[c]) /\ Records(config[c].mounts)
    BY <1>1, Zenon DEF BInv, Kept, LoadedAt, AtMount
  <2>2. at[c] \in 1..Len(config[c].mounts)
    BY <1>1, <2>1 DEF AtMount, Writable, IsSeq
  <2>3. QED
    BY <2>1, <2>2, Zenon DEF Records
<1>3. PICK n : SetMount(c, n) /\ DOMAIN n = DOMAIN m /\ n.dir = m.dir /\ n.src = m.src
  <2> HIDE DEF m
  <2>1. CASE SkipIgnored(c)
    <3>1. SetMount(c, [m EXCEPT !.ignore = TRUE])
      BY <2>1, Zenon DEF SkipIgnored, m
    <3>2. QED
      BY <1>2, <3>1
  <2>2. CASE SkipMissing(c)
    <3> DEFINE dest == Dest(c, m)
    <3>1. SetMount(c, [m EXCEPT !.dest = dest])
      BY <2>2, Zenon DEF SkipMissing, m
    <3> HIDE DEF dest
    <3>2. QED
      BY <1>2, <3>1
  <2>3. CASE HandleMount(c)
    <3> DEFINE dest == Dest(c, m)
               made == FirstMissing(MountDir(c, m))
               new == [m EXCEPT !.dest = dest, !.created = made]
    <3>1. SetMount(c, new)
      BY <2>3, Zenon DEF HandleMount, m
    <3> HIDE DEF dest, made
    <3>2. DOMAIN new = DOMAIN m /\ new.dir = m.dir /\ new.src = m.src
      BY <1>2
    <3>3. QED
      BY <3>1, <3>2, Zenon
  <2>4. QED
    BY <2>1, <2>2, <2>3, Zenon
<1>4. QED
  BY <1>1, <1>3, SetMountLoads, Zenon

\* Reading config.json loads its mounts.
LEMMA ProcessConfigLoads ==
  ASSUME BInv, NEW c \in DOMAIN bundle, ProcessConfig(c)
  PROVE  LoadedAt(c)'
<1> DEFINE new == ReadSections(c)[Len(bundle[c].sections)]
<1>1. /\ bundle \in Scenarios /\ Kept(c) /\ bundle' = bundle
      /\ c \in DOMAIN config /\ c \in DOMAIN pc
  BY Zenon DEF BInv, ProcessConfig
<1>2. config[c] = NewConfig
  BY <1>1, Zenon DEF Kept, ProcessConfig
<1>3. Records(new.mounts)
  <2>1. Len(bundle[c].sections) \in 0..Len(bundle[c].sections)
    BY <1>1, BundleSeqs
  <2>2. config[c] \in ReadConfigs(c)
    BY <1>2, NewConfigRead, Zenon
  <2>3. new \in ReadConfigs(c)
    BY <1>1, <2>1, <2>2, SectionsLoop, Zenon
  <2>4. QED
    BY <2>3, ReadRecords, Zenon
<1>4. bundle[c].sections = InOrder => Loaded(c, new)
  BY <1>1, <1>2, SectionsRead, Zenon
<1> HIDE DEF new
<1>5. CASE config' = config /\ pc' = [pc EXCEPT ![c] = "refused"]
  BY <1>1, <1>5 DEF LoadedAt
<1>6. CASE config' = [config EXCEPT ![c] = new] /\ pc' = [pc EXCEPT ![c] = "parsed"]
  <2>1. config'[c] = new
    BY <1>1, <1>6, Zenon
  <2>2. QED
    BY <1>1, <1>3, <1>4, <2>1, Zenon DEF LoadedAt, Loaded
<1>7. QED
  BY <1>5, <1>6, Zenon DEF ProcessConfig, Goto, Set, new

\* The check of the version leaves them on the list.
LEMMA ConfigCheckLoads ==
  ASSUME BInv, NEW c \in DOMAIN bundle, LoadedAt(c), ConfigCheck(c)
  PROVE  LoadedAt(c)'
<1> DEFINE new == [config[c] EXCEPT !.paths = "paths"]
<1>1. /\ Kept(c) /\ bundle' = bundle /\ pc[c] = "parsed"
      /\ c \in DOMAIN config /\ c \in DOMAIN pc
  BY Zenon DEF BInv, ConfigCheck
<1>2. new.mounts = config[c].mounts /\ new.pod = config[c].pod
  <2>1. DOMAIN config[c] = Members
    BY <1>1 DEF Kept, Writable, ConfigRecord
  <2>2. QED
    BY <2>1, ZenonT(30) DEF Members
<1>3. Records(config[c].mounts) /\ (bundle[c].sections = InOrder => Loaded(c, config[c]))
  BY <1>1, Zenon DEF LoadedAt
<1> HIDE DEF new
<1>4. CASE pc' = [pc EXCEPT ![c] = "refused"]
  BY <1>1, <1>4 DEF LoadedAt
<1>5. CASE config' = [config EXCEPT ![c] = new]
  <2>1. config'[c] = new
    BY <1>1, <1>5, Zenon
  <2>2. Records(new.mounts) /\ (bundle[c].sections = InOrder => Loaded(c, new))
    BY <1>2, <1>3, Zenon DEF Loaded, Listed
  <2>3. QED
    BY <1>1, <2>1, <2>2, Zenon DEF LoadedAt, Loaded
<1>6. QED
  BY <1>4, <1>5, Zenon DEF ConfigCheck, Goto, Set, new

\* The other steps leave the container in no state before its mounts are made.
LEMMA LaterLoads ==
  ASSUME BInv, NEW c \in DOMAIN bundle,
         \/ MountFails(c) \/ Launch(c) \/ LaunchEnds(c) \/ PodCreate(c)
         \/ Start(c) \/ Toggle(c) \/ Kill(c)
         \/ Stop(c) \/ Unmount(c) \/ UnmountEnds(c) \/ RemoveDirectory(c) \/ Cleanup(c)
  PROVE  LoadedAt(c)'
<1>1. c \in DOMAIN pc
  BY Zenon DEF BInv
<1>2. PICK where \in {"failed", "launch", "saved", "unmount", "remove", "gone", "unremoved"} :
        pc' = [pc EXCEPT ![c] = where] \/ (pc' = pc /\ pc[c] = where)
  <2>1. CASE MountFails(c) \/ LaunchEnds(c)
    BY <2>1, Zenon DEF MountFails, LaunchEnds, Goto
  <2>2. CASE Launch(c) \/ PodCreate(c)
    BY <2>2, Zenon DEF Launch, PodCreate, Goto
  <2>3. CASE Start(c) \/ Toggle(c) \/ Kill(c)
    BY <2>3, Zenon DEF Start, Toggle, Kill, Rewrite
  <2>4. CASE Stop(c) \/ UnmountEnds(c) \/ RemoveDirectory(c)
    BY <2>4, Zenon DEF Stop, UnmountEnds, RemoveDirectory, Goto
  <2>7. CASE Cleanup(c)
    BY <2>7, CleanupEnds, Zenon
  <2>5. CASE Unmount(c)
    BY <2>5, Zenon DEF Unmount, Goto
  <2>6. QED
    BY <2>1, <2>2, <2>3, <2>4, <2>5, <2>7, Zenon
<1>3. pc'[c] = where
  BY <1>1, <1>2, Zenon
<1>4. where \notin {"parsed", "mounts"}
  OBVIOUS
<1>5. QED
  BY <1>3, <1>4, Zenon DEF LoadedAt

\* The step of one container leaves the configuration of the others alone.
LEMMA OthersLoaded ==
  ASSUME BInv, NEW c \in DOMAIN bundle, Acts(c), NEW d \in DOMAIN bundle, d # c
  PROVE  bundle' = bundle /\ config'[d] = config[d] /\ pc'[d] = pc[d]
<1>1. d \in DOMAIN config /\ d \in DOMAIN pc
  BY Zenon DEF BInv
<1>2. bundle' = bundle
  BY Zenon DEF Acts, ProcessConfig, ConfigCheck, SkipIgnored, SkipMissing, HandleMount,
    MountFails, Launch, LaunchEnds, PodCreate, Start, Toggle, Kill, Rewrite, Stop,
    Unmount, UnmountEnds, RemoveDirectory, Cleanup
<1>3. PICK cfg : config' = config \/ config' = [config EXCEPT ![c] = cfg]
  BY Zenon DEF Acts, ProcessConfig, ConfigCheck, SkipIgnored, SkipMissing, HandleMount,
    MountFails, Launch, LaunchEnds, PodCreate, Start, Toggle, Kill, Rewrite, Stop,
    Unmount, UnmountEnds, RemoveDirectory, Cleanup, SetMount, Set
<1>4. PICK where : pc' = pc \/ pc' = [pc EXCEPT ![c] = where]
  BY Zenon DEF Acts, ProcessConfig, ConfigCheck, SkipIgnored, SkipMissing, HandleMount,
    MountFails, Launch, LaunchEnds, PodCreate, Start, Toggle, Kill, Rewrite, Stop,
    Unmount, UnmountEnds, RemoveDirectory, Cleanup, Goto
<1>5. QED
  BY <1>1, <1>2, <1>3, <1>4

\* Every step keeps the invariant.
LEMMA LNext == LInv /\ [Next]_vars => LInv'
<1> SUFFICES ASSUME LInv, [Next]_vars
             PROVE  LInv'
  BY Zenon
<1>1. BInv /\ BInv'
  BY BNext, Zenon DEF LInv
<1>2. CASE UNCHANGED vars
  BY <1>1, <1>2, Zenon DEF vars, LInv, LoadedAt, Loaded
<1>3. ASSUME NEW c \in DOMAIN bundle, Acts(c)
      PROVE  LInv'
  <2>1. LoadedAt(c)'
    <3>1. LoadedAt(c)
      BY Zenon DEF LInv
    <3>2. QED
      BY <1>1, <1>3, <3>1, ProcessConfigLoads, ConfigCheckLoads, MountsLoad, LaterLoads,
        Zenon DEF Acts
  <2>2. ASSUME NEW d \in DOMAIN bundle, d # c
        PROVE  LoadedAt(d)'
    <3>1. bundle' = bundle /\ config'[d] = config[d] /\ pc'[d] = pc[d]
      BY <1>1, <1>3, <2>2, OthersLoaded, Zenon
    <3>2. LoadedAt(d)
      BY Zenon DEF LInv
    <3>3. QED
      BY <3>1, <3>2, Zenon DEF LoadedAt, Loaded
  <2>3. bundle' = bundle
    BY <1>3, Zenon DEF Acts, ProcessConfig, ConfigCheck, SkipIgnored, SkipMissing,
      HandleMount, MountFails, Launch, LaunchEnds, PodCreate, Start, Toggle, Kill,
      Rewrite, Stop, Unmount, UnmountEnds, RemoveDirectory, Cleanup
  <2>4. QED
    BY <1>1, <2>1, <2>2, <2>3, Zenon DEF LInv
<1>4. QED
  BY <1>2, <1>3, Zenon DEF Next, Acts

\* When the sections of config.json come in the order of the specification, every
\* mount of it is on the list that cc_oci_handle_mounts goes through, and so is the
\* root directory of a container whose annotations name its pod: for any numbers of
\* mounts and annotations.
THEOREM SectionsTheorem == Spec => []SectionsLoaded
<1>1. Init => LInv
  <2> SUFFICES ASSUME Init
               PROVE  LInv
    BY Zenon
  <2>1. \A c \in DOMAIN bundle : pc[c] = "new"
    BY DEF Init
  <2>2. \A c \in DOMAIN bundle : LoadedAt(c)
    BY <2>1 DEF LoadedAt
  <2>3. QED
    BY <2>2, BInit, Zenon DEF LInv
<1>2. LInv => SectionsLoaded
  <2> SUFFICES ASSUME LInv, NEW c \in DOMAIN bundle, pc[c] = "mounts",
                      bundle[c].sections = <<"process", "root", "mounts", "annotations">>
               PROVE  /\ \A m \in Range(bundle[c].mounts) : \E n \in Range(config[c].mounts) :
                           n.dir = m.dir /\ n.src = m.src
                      /\ config[c].pod.set /\ config[c].pod.sandbox_name # Null =>
                           \E n \in Range(config[c].mounts) :
                             n.dir = <<c, "rootfs">> /\ n.src = "dir"
    BY Zenon DEF SectionsLoaded
  <2>1. Loaded(c, config[c]) /\ Writable(config[c]) /\ IsSeq(bundle[c].mounts)
    <3>1. Loaded(c, config[c])
      BY Zenon DEF LInv, LoadedAt, InOrder
    <3>2. Writable(config[c]) /\ bundle \in Scenarios
      BY Zenon DEF LInv, BInv, Kept
    <3>3. QED
      BY <3>1, <3>2, BundleSeqs, Zenon
  <2>2. /\ DOMAIN config[c].mounts = 1..Len(config[c].mounts)
        /\ DOMAIN bundle[c].mounts = 1..Len(bundle[c].mounts)
    BY <2>1 DEF Writable, IsSeq
  <2>3. ASSUME NEW dir, NEW src, Listed(config[c], dir, src)
        PROVE  \E n \in Range(config[c].mounts) : n.dir = dir /\ n.src = src
    <3>1. PICK j \in 1..Len(config[c].mounts) :
            config[c].mounts[j].dir = dir /\ config[c].mounts[j].src = src
      BY <2>3, Zenon DEF Listed
    <3>2. config[c].mounts[j] \in Range(config[c].mounts)
      BY <2>2, Zenon DEF Range
    <3>3. QED
      BY <3>1, <3>2, Zenon
  <2>4. \A m \in Range(bundle[c].mounts) : \E i \in 1..Len(bundle[c].mounts) :
          m = bundle[c].mounts[i]
    BY <2>2, Zenon DEF Range
  <2>5. ASSUME NEW m \in Range(bundle[c].mounts)
        PROVE  \E n \in Range(config[c].mounts) : n.dir = m.dir /\ n.src = m.src
    <3>1. PICK i \in 1..Len(bundle[c].mounts) : m = bundle[c].mounts[i]
      BY <2>4, Zenon
    <3>2. Listed(config[c], m.dir, m.src)
      BY <2>1, <3>1, Zenon DEF Loaded
    <3>3. QED
      BY <2>3, <3>2
  <2>6. config[c].pod.sandbox_name # Null =>
          \E n \in Range(config[c].mounts) : n.dir = <<c, "rootfs">> /\ n.src = "dir"
    BY <2>1, <2>3 DEF Loaded
  <2>7. QED
    BY <2>5, <2>6, Zenon
<1>3. QED
  BY <1>1, <1>2, LNext, PTL DEF Spec
=============================================================================
