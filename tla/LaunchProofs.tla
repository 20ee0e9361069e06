---------------------------- MODULE LaunchProofs ----------------------------
(***************************************************************************)
(* Proofs about Launch, for any of its commands, any number of hooks and   *)
(* any faults.                                                             *)
(***************************************************************************)
EXTENDS Launch, Integers, SequenceTheorems, TLAPS

StepNames ==
  {"connect", "attach", "fork", "shim", "first", "hooks", "net", "args", "length", "argv",
   "hyperr", "ready", "startpod", "execcmd", "proxyfd", "allocate", "iobase", "iofd",
   "shimerr", "full", "wait", "disconnect", "pidfile", "out"}

\* A command on its regular path has a suffix of its steps before it; one that
\* has left it is about to return, or has returned.
OnPath ==
  /\ todo \in Seq(StepNames)
  /\ 1 <= Len(todo) /\ Len(todo) <= Len(Steps(kind))
  /\ \A j \in 1..Len(todo) :
        todo[j] = Steps(kind)[Len(Steps(kind)) - Len(todo) + j]

PathInv ==
  /\ config \in Options
  /\ \/ OnPath
     \/ todo \in {<<>>, <<"out">>}
     \/ todo = <<"killout">> /\ kind = "exec"

\* On the regular path and not past step s.
Short(s) == Len(todo) > 1 /\ ~Past(s)

\* The shim has all its arguments, in their places.
AllGot == /\ got = [connected |-> TRUE, proxy |-> "proxyfd", base |-> "iobase",
                    io |-> "iofd"]
          /\ proxy.io

GotType == [connected : BOOLEAN, proxy : {"none", "proxyfd"}, base : {"none", "iobase"},
            io : {"none", "iofd"}]

TypeOK ==
  /\ hyp \in {"none", "start", "length", "argv", "noargs", "setup", "exec", "noexec",
              "vm", "up", "gone"} \cup Ended
  /\ shim \in {"none", "proxyfd", "iobase", "iofd", "setup", "exec", "shim", "done"}
                 \cup Ended
  /\ got \in GotType
  /\ proxy \in [up : BOOLEAN, lost : BOOLEAN, vm : BOOLEAN, io : BOOLEAN]
  /\ pid \in {"none", "container", "shim", "failed"}

\* What the steps the command is past have achieved.
Achieved ==
  /\ Past("connect") /\ Short("shim") => proxy.up
  /\ Past("allocate") => proxy.io
  /\ Past("hyperr") => hyp \in {"exec", "noexec", "vm", "up", "gone", "aborted", "killed"}
  /\ Past("startpod") => proxy.vm
  /\ Past("shimerr") => AllGot
  /\ Past("full") => file = "full"
  /\ Short("pidfile") => ~pidfile

\* The shim child: what it has read, and what is on its way to it.
Received ==
  /\ shim = "none" => shimArgs = <<>> /\ shimSock = <<>>
  /\ shim # "none" => got.connected
  /\ shim # "none" <=> pid = "shim"
  /\ shim = "proxyfd" => shimArgs \in {<<>>, <<"proxyfd">>, <<"proxyfd", "iobase">>}
  /\ shim = "iobase" => got.proxy = "proxyfd" /\ shimArgs \in {<<>>, <<"iobase">>}
  /\ shim = "iofd" => got.proxy = "proxyfd" /\ got.base = "iobase"
  /\ shimSock # <<>> => shimSock = <<"iofd">> /\ proxy.io
  /\ shim \in {"setup", "exec", "shim", "done", "aborted"} => AllGot
  /\ shim = "killed" /\ todo # <<>> => AllGot

\* The command: what it has still to send, and what the child waits for.
Sending ==
  /\ Short("shim") => shim = "none"
  /\ Past("shim") => shim # "none"
  /\ Short("iofd") => shimSock = <<>>
  /\ Past("shim") /\ ~Past("proxyfd") /\ shim \notin Ended
        => shim = "proxyfd" /\ shimArgs = <<>>
  /\ Past("proxyfd") /\ ~Past("iobase") /\ shim \notin Ended
        => \/ shim = "proxyfd" /\ shimArgs = <<"proxyfd">>
           \/ shim = "iobase" /\ shimArgs = <<>>
  /\ Past("shimerr") => shim \in {"exec", "shim", "done", "aborted", "killed"}

\* A shim that has read its arguments goes on, once there is a pid file.
PidFile ==
  pidfile /\ kind # "pod" =>
    /\ AllGot /\ shim \in {"exec", "shim", "done", "aborted", "killed"}
    /\ kind = "vm" => file = "full" /\ proxy.vm

\* How a command ends.
Ending ==
  /\ todo # <<>> => result = "none" /\ signalled = {}
  /\ FailureLeavesNoShim

IInv == PathInv /\ TypeOK /\ Achieved /\ Received /\ Sending /\ PidFile /\ Ending

-----------------------------------------------------------------------------
\* Where the steps of cc_oci_vm_launch are.
LEMMA VmIndex ==
  /\ Len(VmSteps) = 21
  /\ \A i \in 1..21 :
        /\ VmSteps[i] = "connect" <=> i = 1
        /\ VmSteps[i] = "fork" <=> i = 2
        /\ VmSteps[i] = "shim" <=> i = 3
        /\ VmSteps[i] = "first" <=> i = 4
        /\ VmSteps[i] = "hooks" <=> i = 5
        /\ VmSteps[i] = "net" <=> i = 6
        /\ VmSteps[i] = "args" <=> i = 7
        /\ VmSteps[i] = "length" <=> i = 8
        /\ VmSteps[i] = "argv" <=> i = 9
        /\ VmSteps[i] = "hyperr" <=> i = 10
        /\ VmSteps[i] = "ready" <=> i = 11
        /\ VmSteps[i] = "startpod" <=> i = 12
        /\ VmSteps[i] = "proxyfd" <=> i = 13
        /\ VmSteps[i] = "allocate" <=> i = 14
        /\ VmSteps[i] = "iobase" <=> i = 15
        /\ VmSteps[i] = "iofd" <=> i = 16
        /\ VmSteps[i] = "shimerr" <=> i = 17
        /\ VmSteps[i] = "full" <=> i = 18
        /\ VmSteps[i] = "disconnect" <=> i = 19
        /\ VmSteps[i] = "pidfile" <=> i = 20
        /\ VmSteps[i] = "out" <=> i = 21
  BY DEF VmSteps

\* Where the steps of cc_pod_container_create are.
LEMMA PodIndex ==
  /\ Len(PodSteps) = 12
  /\ \A i \in 1..12 :
        /\ PodSteps[i] = "connect" <=> i = 1
        /\ PodSteps[i] = "attach" <=> i = 2
        /\ PodSteps[i] = "shim" <=> i = 3
        /\ PodSteps[i] = "pidfile" <=> i = 4
        /\ PodSteps[i] = "proxyfd" <=> i = 5
        /\ PodSteps[i] = "allocate" <=> i = 6
        /\ PodSteps[i] = "iobase" <=> i = 7
        /\ PodSteps[i] = "iofd" <=> i = 8
        /\ PodSteps[i] = "shimerr" <=> i = 9
        /\ PodSteps[i] = "full" <=> i = 10
        /\ PodSteps[i] = "disconnect" <=> i = 11
        /\ PodSteps[i] = "out" <=> i = 12
  BY DEF PodSteps

\* Where the steps of cc_oci_vm_connect are.
LEMMA ExecIndex ==
  /\ Len(ExecSteps) = 12
  /\ \A i \in 1..12 :
        /\ ExecSteps[i] = "connect" <=> i = 1
        /\ ExecSteps[i] = "attach" <=> i = 2
        /\ ExecSteps[i] = "allocate" <=> i = 3
        /\ ExecSteps[i] = "execcmd" <=> i = 4
        /\ ExecSteps[i] = "shim" <=> i = 5
        /\ ExecSteps[i] = "proxyfd" <=> i = 6
        /\ ExecSteps[i] = "iobase" <=> i = 7
        /\ ExecSteps[i] = "iofd" <=> i = 8
        /\ ExecSteps[i] = "shimerr" <=> i = 9
        /\ ExecSteps[i] = "wait" <=> i = 10
        /\ ExecSteps[i] = "pidfile" <=> i = 11
        /\ ExecSteps[i] = "out" <=> i = 12
  BY DEF ExecSteps

\* A command is one of three.
LEMMA ThreeKinds ==
  ASSUME config \in Options
  PROVE  \/ kind = "vm" /\ Steps(kind) = VmSteps
         \/ kind = "pod" /\ Steps(kind) = PodSteps
         \/ kind = "exec" /\ Steps(kind) = ExecSteps
  BY LaunchAssumption, Zenon DEF Options, kind, Steps

\* The step at the head of todo, and the steps it is past.
LEMMA AtStep ==
  ASSUME PathInv, NEW s, At(s), s \notin {"out", "killout"}
  PROVE  /\ OnPath /\ Len(todo) > 1
         /\ Steps(kind)[Len(Steps(kind)) - Len(todo) + 1] = s
         /\ \A t : Past(t) <=> \E j \in 1..Len(Steps(kind)) - Len(todo) : Steps(kind)[j] = t
<1>1. OnPath
  BY DEF PathInv, At
<1>2. Steps(kind)[Len(Steps(kind)) - Len(todo) + 1] = s
  BY <1>1 DEF OnPath, At
<1>3. Len(Steps(kind)) \in Nat /\ Steps(kind)[Len(Steps(kind))] = "out"
  <2>1. Len(VmSteps) = 21 /\ Len(PodSteps) = 12 /\ Len(ExecSteps) = 12
    BY VmIndex, PodIndex, ExecIndex, Zenon
  <2>2. VmSteps[21] = "out" /\ PodSteps[12] = "out" /\ ExecSteps[12] = "out"
    BY VmIndex, PodIndex, ExecIndex
  <2>3. Steps(kind) = VmSteps \/ Steps(kind) = PodSteps \/ Steps(kind) = ExecSteps
    <3>1. config \in Options
      BY Zenon DEF PathInv
    <3> QED
      BY <3>1, ThreeKinds, Zenon
  <2>4. CASE Steps(kind) = VmSteps
    <3>1. Len(Steps(kind)) = 21 /\ Steps(kind)[21] = "out"
      BY <2>1, <2>2, <2>4, Zenon
    <3> QED
      BY <3>1
  <2>5. CASE Steps(kind) = PodSteps
    <3>1. Len(Steps(kind)) = 12 /\ Steps(kind)[12] = "out"
      BY <2>1, <2>2, <2>5, Zenon
    <3> QED
      BY <3>1
  <2>6. CASE Steps(kind) = ExecSteps
    <3>1. Len(Steps(kind)) = 12 /\ Steps(kind)[12] = "out"
      BY <2>1, <2>2, <2>6, Zenon
    <3> QED
      BY <3>1
  <2> QED
    BY <2>3, <2>4, <2>5, <2>6, Zenon
<1>4. Len(todo) > 1
  BY <1>1, <1>2, <1>3 DEF OnPath
<1>5. \A t : Past(t) <=> \E j \in 1..Len(Steps(kind)) - Len(todo) : Steps(kind)[j] = t
  BY <1>1, <1>3, <1>4 DEF Past, OnPath
<1> QED
  BY <1>1, <1>2, <1>4, <1>5, Zenon

\* Only cc_oci_exec_shim has the exit that signals whatever the pid is.
LEMMA OnlyExecKills ==
  ASSUME PathInv, At("killout") PROVE kind = "exec"
<1>1. CASE OnPath
  <2>1. Steps(kind)[Len(Steps(kind)) - Len(todo) + 1] = "killout"
    BY <1>1 DEF OnPath, At
  <2>2. CASE kind = "vm"
    <3> DEFINE i == Len(Steps(kind)) - Len(todo) + 1
    <3>1. Steps(kind) = VmSteps
      BY <2>2, Zenon DEF Steps
    <3>2. Len(Steps(kind)) = 21 /\ Len(todo) \in Nat /\ 1 <= Len(todo) /\ Len(todo) <= 21
      BY <1>1, <3>1, VmIndex DEF OnPath
    <3>3. i \in Int /\ 1 <= i /\ i <= 21
      BY <3>2
    <3>4. VmSteps[i] = "killout"
      BY <2>1, <3>1, Zenon
    <3>5. \A j \in 1..21 : VmSteps[j] # "killout"
      BY DEF VmSteps
    <3> HIDE DEF i
    <3> QED
      BY <3>3, <3>4, <3>5
  <2>3. CASE kind = "pod"
    <3> DEFINE i == Len(Steps(kind)) - Len(todo) + 1
    <3>1. Steps(kind) = PodSteps
      BY <2>3, Zenon DEF Steps
    <3>2. Len(Steps(kind)) = 12 /\ Len(todo) \in Nat /\ 1 <= Len(todo) /\ Len(todo) <= 12
      BY <1>1, <3>1, PodIndex DEF OnPath
    <3>3. i \in Int /\ 1 <= i /\ i <= 12
      BY <3>2
    <3>4. PodSteps[i] = "killout"
      BY <2>1, <3>1, Zenon
    <3>5. \A j \in 1..12 : PodSteps[j] # "killout"
      BY DEF PodSteps
    <3> HIDE DEF i
    <3> QED
      BY <3>3, <3>4, <3>5
  <2>4. config \in Options
    BY Zenon DEF PathInv
  <2> QED
    BY <2>2, <2>3, <2>4, ThreeKinds, Zenon
<1> QED
  BY <1>1 DEF PathInv, At

\* Which steps come before which.
LEMMA Order ==
  ASSUME PathInv, NEW s, At(s), s \notin {"out", "killout"}
  PROVE  /\ s = "shim" => Past("connect") /\ ~Past("shim")
         /\ s = "proxyfd" => Past("shim") /\ ~Past("proxyfd") /\ ~Past("iobase")
         /\ s = "iobase" => Past("proxyfd") /\ ~Past("iobase")
         /\ s = "iofd" => Past("shim") /\ Past("allocate") /\ ~Past("iofd")
         /\ s = "shimerr" => Past("shim")
         /\ s = "disconnect" => Past("shim")
         /\ s \in {"fork", "hyperr"} => ~Past("hyperr")
         /\ s = "pidfile" /\ kind # "pod" => Past("shimerr")
         /\ s = "pidfile" /\ kind = "vm" => Past("full") /\ Past("startpod")
         /\ s \in {"first", "full"} => kind # "exec"
         /\ s \in {"first", "full"} /\ kind = "vm" => ~Past("pidfile")
         /\ s = "first" => ~Past("full")
         /\ kind # "vm" => s # "hyperr"
<1> DEFINE i == Len(Steps(kind)) - Len(todo) + 1
<1>1. /\ OnPath /\ Len(todo) > 1
      /\ Steps(kind)[i] = s
      /\ \A t : Past(t) <=> \E j \in 1..(i - 1) : Steps(kind)[j] = t
  <2>1. Len(Steps(kind)) - Len(todo) = i - 1
    <3>1. Len(Steps(kind)) \in Int /\ Len(todo) \in Int
      BY AtStep, ThreeKinds, VmIndex, PodIndex, ExecIndex DEF OnPath, PathInv
    <3> QED
      BY <3>1
  <2> QED
    BY AtStep, <2>1, Zenon
<1> HIDE DEF i
<1>2. config \in Options
  BY Zenon DEF PathInv
<1>3. CASE kind = "vm"
  <2>1. Steps(kind) = VmSteps
    BY <1>3, Zenon DEF Steps
  <2>2. i \in 1..21
    <3>1. Len(Steps(kind)) = 21 /\ Len(todo) \in Nat /\ 1 <= Len(todo) /\ Len(todo) <= 21
      BY <1>1, <2>1, VmIndex DEF OnPath
    <3>2. i \in Int /\ 1 <= i /\ i <= 21
      BY <3>1 DEF i
    <3> QED
      BY <3>2
  <2>3. /\ VmSteps[1] = "connect" /\ VmSteps[3] = "shim" /\ VmSteps[12] = "startpod"
        /\ VmSteps[13] = "proxyfd" /\ VmSteps[14] = "allocate" /\ VmSteps[17] = "shimerr"
        /\ VmSteps[18] = "full"
    BY VmIndex
  <2>4. \A t : Past(t) <=> \E j \in 1..(i - 1) : VmSteps[j] = t
    BY <1>1, <2>1, Zenon
  <2>5. \A j \in 1..(i - 1) : j \in 1..21 /\ j < i
    BY <2>2
  <2>6. VmSteps[i] = s
    BY <1>1, <2>1, Zenon
  <2>7. /\ s = "shim" => Past("connect") /\ ~Past("shim")
        /\ s = "proxyfd" => Past("shim") /\ ~Past("proxyfd") /\ ~Past("iobase")
        /\ s = "iobase" => Past("proxyfd") /\ ~Past("iobase")
        /\ s = "iofd" => Past("shim") /\ Past("allocate") /\ ~Past("iofd")
        /\ s \in {"shimerr", "disconnect"} => Past("shim")
    BY <2>2, <2>3, <2>4, <2>5, <2>6, VmIndex
  <2>8. /\ s \in {"fork", "hyperr"} => ~Past("hyperr")
        /\ s = "pidfile" => Past("shimerr") /\ Past("full") /\ Past("startpod")
        /\ s \in {"first", "full"} => ~Past("pidfile")
        /\ s = "first" => ~Past("full")
    BY <2>2, <2>3, <2>4, <2>5, <2>6, VmIndex
  <2> QED
    BY <1>3, <2>7, <2>8, Zenon
<1>4. CASE kind = "pod"
  <2>1. Steps(kind) = PodSteps
    BY <1>4, Zenon DEF Steps
  <2>2. i \in 1..12
    <3>1. Len(Steps(kind)) = 12 /\ Len(todo) \in Nat /\ 1 <= Len(todo) /\ Len(todo) <= 12
      BY <1>1, <2>1, PodIndex DEF OnPath
    <3>2. i \in Int /\ 1 <= i /\ i <= 12
      BY <3>1 DEF i
    <3> QED
      BY <3>2
  <2>3. /\ PodSteps[1] = "connect" /\ PodSteps[3] = "shim" /\ PodSteps[5] = "proxyfd"
        /\ PodSteps[6] = "allocate"
    BY PodIndex
  <2> QED
    BY <1>1, <1>4, <2>1, <2>2, <2>3, PodIndex, SMTT(20)
<1>5. CASE kind = "exec"
  <2>1. Steps(kind) = ExecSteps
    BY <1>5, Zenon DEF Steps
  <2>2. i \in 1..12
    <3>1. Len(Steps(kind)) = 12 /\ Len(todo) \in Nat /\ 1 <= Len(todo) /\ Len(todo) <= 12
      BY <1>1, <2>1, ExecIndex DEF OnPath
    <3>2. i \in Int /\ 1 <= i /\ i <= 12
      BY <3>1 DEF i
    <3> QED
      BY <3>2
  <2>3. /\ ExecSteps[1] = "connect" /\ ExecSteps[3] = "allocate" /\ ExecSteps[5] = "shim"
        /\ ExecSteps[6] = "proxyfd" /\ ExecSteps[9] = "shimerr"
    BY ExecIndex
  <2> QED
    BY <1>1, <1>5, <2>1, <2>2, <2>3, ExecIndex, SMTT(20)
<1> QED
  BY <1>2, <1>3, <1>4, <1>5, ThreeKinds, Zenon

-----------------------------------------------------------------------------
\* A step that goes on with the next one is past that step, and past no other
\* it was not past before.
LEMMA Advances ==
  ASSUME PathInv, NEW s, At(s), s \notin {"out", "killout"}, Advance, UNCHANGED config
  PROVE  /\ PathInv' /\ todo # <<>> /\ todo' # <<>> /\ Len(todo) > 1
         /\ Len(todo') \in Nat
         /\ \A t : Past(t)' <=> Len(todo') > 1 /\ (Past(t) \/ t = s)
<1> DEFINE S == Steps(kind)
           n == Len(todo)
           N == Len(S)
<1>1. /\ todo \in Seq(StepNames) /\ n > 1 /\ n <= N /\ n \in Nat /\ N \in Nat
      /\ \A j \in 1..n : todo[j] = S[N - n + j]
      /\ S[N - n + 1] = s
      /\ \A t : Past(t) <=> \E j \in 1..(N - n) : S[j] = t
  <2>1. N \in Nat
    BY ThreeKinds, VmIndex, PodIndex, ExecIndex DEF PathInv
  <2> QED
    BY <2>1, AtStep DEF OnPath
<1>2. /\ todo' \in Seq(StepNames) /\ Len(todo') = n - 1
      /\ \A j \in 1..(n - 1) : todo'[j] = todo[j + 1]
  BY <1>1 DEF Advance
<1>3. S' = S
  BY Zenon DEF kind, Steps
<1>4. \A j \in 1..Len(todo') : todo'[j] = S[N - Len(todo') + j]
  <2> HIDE DEF S, n, N
  <2> SUFFICES ASSUME NEW j \in 1..(n - 1) PROVE todo'[j] = S[N - (n - 1) + j]
    BY <1>2, Zenon
  <2>1. j + 1 \in 1..n /\ N - n + (j + 1) = N - (n - 1) + j
    BY <1>1
  <2> QED
    BY <1>1, <1>2, <2>1, Zenon
<1>5. OnPath' /\ PathInv'
  BY <1>1, <1>2, <1>3, <1>4 DEF OnPath, PathInv
<1>6. ASSUME NEW t PROVE Past(t)' <=> Len(todo') > 1 /\ (Past(t) \/ t = s)
  <2>1. Past(t)' <=> Len(todo') > 1 /\ \E i \in 1..N : S[i] = t /\ n - 1 <= N - i
    BY <1>2, <1>3, Zenon DEF Past
  <2>2. (\E i \in 1..N : S[i] = t /\ n - 1 <= N - i)
           <=> (\E j \in 1..(N - n) : S[j] = t) \/ S[N - n + 1] = t
    <3> HIDE DEF S, n, N
    <3> QED
      BY <1>1
  <2> QED
    BY <1>1, <2>1, <2>2, Zenon
<1> QED
  BY <1>1, <1>2, <1>5, <1>6

\* goto out: no step is past, and none is still to come.
LEMMA GoesOut ==
  ASSUME PathInv, NEW s, At(s), GotoOut, UNCHANGED config
  PROVE  /\ PathInv' /\ todo # <<>> /\ todo' # <<>> /\ Len(todo') = 1
         /\ \A t : ~Past(t)'
<1>1. \/ todo' = <<"out">>
      \/ todo' = <<"killout">> /\ kind = "exec"
  BY Zenon DEF GotoOut
<1>2. Len(todo') = 1 /\ todo' # <<>> /\ todo # <<>>
  BY <1>1 DEF At
<1>3. PathInv'
  BY <1>1, Zenon DEF PathInv, kind
<1> QED
  BY <1>2, <1>3 DEF Past

\* The end of the command.
LEMMA Returns ==
  ASSUME PathInv, todo' = <<>>, UNCHANGED config
  PROVE  PathInv' /\ Len(todo') = 0 /\ \A t : ~Past(t)'
<1>1. Len(todo') = 0
  BY Zenon
<1>2. PathInv'
  BY Zenon DEF PathInv, kind
<1> QED
  BY <1>1, <1>2 DEF Past

\* A step of a child, or of a hook.
LEMMA Stays ==
  ASSUME PathInv, UNCHANGED <<config, todo>>
  PROVE  PathInv' /\ Len(todo') = Len(todo) /\ \A t : Past(t)' <=> Past(t)
<1>1. UNCHANGED Steps(kind)
  BY Zenon DEF kind, Steps
<1>2. PathInv'
  BY <1>1, Zenon DEF PathInv, OnPath, kind
<1> QED
  BY <1>1, <1>2, Zenon DEF Past

-----------------------------------------------------------------------------
\* A step that leaves the shim child and what it has been sent alone.
Quiet ==
  /\ UNCHANGED <<config, result, signalled, shim, shimArgs, shimSock, got>>
  /\ pid' = pid \/ (shim = "none" /\ pid' = "failed")
  /\ proxy.io => proxy'.io
  /\ proxy.vm => proxy'.vm

\* Such a step keeps what is said of the shim child.
LEMMA QuietReceived ==
  ASSUME Received, Quiet, todo' # <<>> => todo # <<>>
  PROVE  Received'
  BY Zenon DEF Received, Quiet, AllGot, Ended

\* It keeps what is said of the pid file, if it does not write the files.
LEMMA QuietPidFile ==
  ASSUME PidFile, Quiet, UNCHANGED <<file, pidfile>>
  PROVE  PidFile'
  BY Zenon DEF PidFile, Quiet, AllGot, kind

\* It keeps what is said of the end.
LEMMA QuietEnding ==
  ASSUME Ending, Quiet, todo' # <<>> => todo # <<>>
  PROVE  Ending'
  BY Zenon DEF Ending, FailureLeavesNoShim, Quiet, kind

\* A quiet step of the command that goes on.
LEMMA QuietAdvance ==
  ASSUME IInv, NEW s, At(s), s \notin {"out", "killout"}, Advance, Quiet,
         s \notin {"shim", "proxyfd", "iobase", "iofd", "shimerr"},
         TypeOK', Achieved', PidFile'
  PROVE  IInv'
<1>1. /\ PathInv' /\ todo # <<>> /\ todo' # <<>> /\ Len(todo) > 1
      /\ \A t : Past(t)' <=> Len(todo') > 1 /\ (Past(t) \/ t = s)
  BY Advances, Zenon DEF IInv, Quiet
<1>2. Received' /\ Ending'
  BY <1>1, QuietReceived, QuietEnding, Zenon DEF IInv
<1>3. Sending'
  BY <1>1, Zenon DEF IInv, Sending, Short, Quiet
<1> QED
  BY <1>1, <1>2, <1>3, Zenon DEF IInv

\* A quiet step of the command that jumps to out.
LEMMA QuietOut ==
  ASSUME IInv, NEW s, At(s), GotoOut, Quiet, TypeOK', UNCHANGED <<file, pidfile>>
  PROVE  IInv'
<1>1. /\ PathInv' /\ todo # <<>> /\ todo' # <<>> /\ Len(todo') = 1
      /\ \A t : ~Past(t)'
  BY GoesOut, Zenon DEF IInv, Quiet
<1>2. Received' /\ Ending' /\ PidFile'
  BY <1>1, QuietReceived, QuietEnding, QuietPidFile, Zenon DEF IInv
<1>3. Sending' /\ Achieved'
  BY <1>1 DEF Sending, Achieved, Short
<1> QED
  BY <1>1, <1>2, <1>3, Zenon DEF IInv

-----------------------------------------------------------------------------
\* The quiet steps of the command keep the inductive invariant.
LEMMA QuietSteps ==
  ASSUME IInv,
         \/ Connect \/ Attach \/ ForkHypervisor \/ HooksDone \/ BuildArgs
         \/ \E s \in {"length", "argv"} : SendHypervisor(s)
         \/ ReadHypervisorError \/ WaitUntilReady
         \/ \E s \in {"startpod", "execcmd"} : HyperCommand(s)
         \/ AllocateIo \/ WaitShim \/ Disconnect
  PROVE  IInv'
<1> USE DEF IInv
<1>1. ASSUME Connect PROVE IInv'
  <2>1. At("connect") /\ "connect" \notin {"out", "killout"} /\ UNCHANGED config
    BY <1>1, Zenon DEF Connect
  <2>2. CASE Advance /\ proxy' = [proxy EXCEPT !.up = TRUE]
    <3>1. Quiet /\ TypeOK'
      <4>1. proxy' \in [up : BOOLEAN, lost : BOOLEAN, vm : BOOLEAN, io : BOOLEAN]
        BY <2>2, Zenon DEF TypeOK
      <4>2. proxy'.vm = proxy.vm /\ proxy'.io = proxy.io
        BY <2>2, Zenon DEF TypeOK
      <4> QED
        BY <1>1, <4>1, <4>2 DEF Connect, Quiet, TypeOK, child, files
    <3>2. Len(todo) > 1 /\ \A t : Past(t)' <=> Len(todo') > 1 /\ (Past(t) \/ t = "connect")
      BY <2>1, <2>2, Advances, Zenon
    <3>3. Achieved'
      BY <1>1, <2>1, <2>2, <3>2, Zenon DEF Connect, Achieved, Short, TypeOK, AllGot, child, files
    <3>4. PidFile'
      BY <1>1, <3>1, QuietPidFile, Zenon DEF Connect, files
    <3> QED
      BY <2>1, <2>2, <3>1, <3>3, <3>4, QuietAdvance, Zenon
  <2>3. CASE GotoOut /\ UNCHANGED proxy
    <3>1. Quiet /\ TypeOK' /\ UNCHANGED <<file, pidfile>>
      BY <1>1, <2>3 DEF Connect, Quiet, TypeOK, child, files
    <3> QED
      BY <2>1, <2>3, <3>1, QuietOut, Zenon
  <2> QED
    BY <1>1, <2>2, <2>3, Zenon DEF Connect, Fail, child, files
<1>2. ASSUME Attach PROVE IInv'
  <2>1. At("attach") /\ "attach" \notin {"out", "killout"} /\ UNCHANGED config
    BY <1>2, Zenon DEF Attach
  <2>2. CASE Advance /\ proxy' = [proxy EXCEPT !.vm = TRUE]
    <3>1. Quiet /\ TypeOK'
      BY <1>2, <2>2, ZenonT(20) DEF Attach, Quiet, TypeOK, child, files
    <3>2. Len(todo) > 1 /\ \A t : Past(t)' <=> Len(todo') > 1 /\ (Past(t) \/ t = "attach")
      BY <2>1, <2>2, Advances, Zenon
    <3>3. Achieved'
      BY <1>2, <2>1, <2>2, <3>2, Zenon DEF Attach, Achieved, Short, TypeOK, AllGot, child, files
    <3>4. PidFile'
      BY <1>2, <3>1, QuietPidFile, Zenon DEF Attach, files
    <3> QED
      BY <2>1, <2>2, <3>1, <3>3, <3>4, QuietAdvance, Zenon
  <2>3. CASE GotoOut /\ UNCHANGED proxy
    <3>1. Quiet /\ TypeOK' /\ UNCHANGED <<file, pidfile>>
      BY <1>2, <2>3 DEF Attach, Quiet, TypeOK, child, files
    <3> QED
      BY <2>1, <2>3, <3>1, QuietOut, Zenon
  <2> QED
    BY <1>2, <2>2, <2>3, Zenon DEF Attach, Fail, child, files
<1>3. ASSUME ForkHypervisor PROVE IInv'
  <2>1. At("fork") /\ "fork" \notin {"out", "killout"} /\ UNCHANGED config
    BY <1>3, Zenon DEF ForkHypervisor
  <2>2. CASE Advance /\ hyp' = "start"
    <3>1. Quiet /\ TypeOK'
      BY <1>3, <2>2, Zenon DEF ForkHypervisor, Quiet, TypeOK, child, files
    <3>2. Len(todo) > 1 /\ \A t : Past(t)' <=> Len(todo') > 1 /\ (Past(t) \/ t = "fork")
      BY <2>1, <2>2, Advances, Zenon
    <3>3. Achieved'
       BY <1>3, <2>1, <2>2, <3>2, Order, Zenon DEF ForkHypervisor, Achieved, Short, TypeOK, AllGot,
         child, files
    <3>4. PidFile'
      BY <1>3, <3>1, QuietPidFile, Zenon DEF ForkHypervisor, files
    <3> QED
      BY <2>1, <2>2, <3>1, <3>3, <3>4, QuietAdvance, Zenon
  <2>3. CASE GotoOut /\ UNCHANGED hyp
    <3>1. Quiet /\ TypeOK' /\ UNCHANGED <<file, pidfile>>
      BY <1>3, <2>3 DEF ForkHypervisor, Quiet, TypeOK, child, files
    <3> QED
      BY <2>1, <2>3, <3>1, QuietOut, Zenon
  <2> QED
    BY <1>3, <2>2, <2>3, Zenon DEF ForkHypervisor, Fail, child, files
<1>4. ASSUME HooksDone PROVE IInv'
  <2>1. At("hooks") /\ "hooks" \notin {"out", "killout"} /\ UNCHANGED config
    BY <1>4, Zenon DEF HooksDone
  <2>2. CASE Advance /\ UNCHANGED <<proxy, hyp>>
    <3>1. Quiet /\ TypeOK'
      BY <1>4, <2>2, Zenon DEF HooksDone, Quiet, TypeOK, child, files
    <3>2. Len(todo) > 1 /\ \A t : Past(t)' <=> Len(todo') > 1 /\ (Past(t) \/ t = "hooks")
      BY <2>1, <2>2, Advances, Zenon
    <3>3. Achieved'
      BY <1>4, <2>1, <2>2, <3>2, Zenon DEF HooksDone, Achieved, Short, TypeOK, AllGot, child, files
    <3>4. PidFile'
      BY <1>4, <3>1, QuietPidFile, Zenon DEF HooksDone, files
    <3> QED
      BY <2>1, <2>2, <3>1, <3>3, <3>4, QuietAdvance, Zenon
  <2> QED
    BY <1>4, <2>2, Zenon DEF HooksDone, child, files
<1>5. ASSUME BuildArgs PROVE IInv'
  <2>1. At("args") /\ "args" \notin {"out", "killout"} /\ UNCHANGED config
    BY <1>5, Zenon DEF BuildArgs
  <2>2. CASE Advance /\ ret' = TRUE
    <3>1. Quiet /\ TypeOK'
      BY <1>5, <2>2 DEF BuildArgs, Quiet, TypeOK, child, files
    <3>2. Len(todo) > 1 /\ \A t : Past(t)' <=> Len(todo') > 1 /\ (Past(t) \/ t = "args")
      BY <2>1, <2>2, Advances, Zenon
    <3>3. Achieved'
      BY <1>5, <2>1, <2>2, <3>2, Zenon DEF BuildArgs, Achieved, Short, TypeOK, AllGot, child, files
    <3>4. PidFile'
      BY <1>5, <3>1, QuietPidFile, Zenon DEF BuildArgs, files
    <3> QED
      BY <2>1, <2>2, <3>1, <3>3, <3>4, QuietAdvance, Zenon
  <2>3. CASE GotoOut /\ ret' = FALSE
    <3>1. Quiet /\ TypeOK' /\ UNCHANGED <<file, pidfile>>
      BY <1>5, <2>3 DEF BuildArgs, Quiet, TypeOK, child, files
    <3> QED
      BY <2>1, <2>3, <3>1, QuietOut, Zenon
  <2> QED
    BY <1>5, <2>2, <2>3, Zenon DEF BuildArgs, Fail, child, files
<1>6. ASSUME NEW s \in {"length", "argv"}, SendHypervisor(s) PROVE IInv'
  <2>1. At(s) /\ s \notin {"out", "killout"} /\ UNCHANGED config
    BY <1>6, Zenon DEF SendHypervisor
  <2>2. CASE Advance /\ UNCHANGED <<proxy, hyp>>
    <3>1. Quiet /\ TypeOK'
      BY <1>6, <2>2, Zenon DEF SendHypervisor, Quiet, TypeOK, child, files
    <3>2. Len(todo) > 1 /\ \A t : Past(t)' <=> Len(todo') > 1 /\ (Past(t) \/ t = s)
      BY <2>1, <2>2, Advances, Zenon
    <3>3. Achieved'
      BY <1>6, <2>1, <2>2, <3>2 DEF SendHypervisor, Achieved, Short, TypeOK, AllGot, child, files
    <3>4. PidFile'
      BY <1>6, <3>1, QuietPidFile, Zenon DEF SendHypervisor, files
    <3> QED
      BY <2>1, <2>2, <3>1, <3>3, <3>4, QuietAdvance, Zenon
  <2>3. CASE GotoOut /\ UNCHANGED <<proxy, hyp>>
    <3>1. Quiet /\ TypeOK' /\ UNCHANGED <<file, pidfile>>
      BY <1>6, <2>3, Zenon DEF SendHypervisor, Quiet, TypeOK, child, files
    <3> QED
      BY <2>1, <2>3, <3>1, QuietOut, Zenon
  <2> QED
    BY <1>6, <2>2, <2>3, Zenon DEF SendHypervisor, Fail, child, files
<1>7. ASSUME ReadHypervisorError PROVE IInv'
  <2>1. At("hyperr") /\ "hyperr" \notin {"out", "killout"} /\ UNCHANGED config
    BY <1>7, Zenon DEF ReadHypervisorError
  <2>2. CASE Advance /\ hyp # "failed" /\ UNCHANGED ret
    <3>1. Quiet /\ TypeOK'
      BY <1>7, <2>2 DEF ReadHypervisorError, Quiet, TypeOK, child, files
    <3>2. Len(todo) > 1 /\ \A t : Past(t)' <=> Len(todo') > 1 /\ (Past(t) \/ t = "hyperr")
      BY <2>1, <2>2, Advances, Zenon
    <3>3. Achieved'
       BY <1>7, <2>1, <2>2, <3>2 DEF ReadHypervisorError, Achieved, Short, TypeOK, AllGot,
         child, files, HypErrClosed, Ended
    <3>4. PidFile'
      BY <1>7, <3>1, QuietPidFile, Zenon DEF ReadHypervisorError, files
    <3> QED
      BY <2>1, <2>2, <3>1, <3>3, <3>4, QuietAdvance, Zenon
  <2>3. CASE GotoOut /\ ret' = FALSE
    <3>1. Quiet /\ TypeOK' /\ UNCHANGED <<file, pidfile>>
      BY <1>7, <2>3 DEF ReadHypervisorError, Quiet, TypeOK, child, files
    <3> QED
      BY <2>1, <2>3, <3>1, QuietOut, Zenon
  <2> QED
    BY <1>7, <2>2, <2>3, Zenon DEF ReadHypervisorError, Fail, child, files
<1>8. ASSUME WaitUntilReady PROVE IInv'
  <2>1. At("ready") /\ "ready" \notin {"out", "killout"} /\ UNCHANGED config
    BY <1>8, Zenon DEF WaitUntilReady
  <2>2. CASE Advance /\ (proxy' = [proxy EXCEPT !.vm = TRUE] \/ UNCHANGED proxy)
    <3>1. Quiet /\ TypeOK'
      BY <1>8, <2>2, ZenonT(20) DEF WaitUntilReady, Quiet, TypeOK, child, files
    <3>2. Len(todo) > 1 /\ \A t : Past(t)' <=> Len(todo') > 1 /\ (Past(t) \/ t = "ready")
      BY <2>1, <2>2, Advances, Zenon
    <3>3. Achieved'
      BY <1>8, <2>1, <2>2, <3>2 DEF WaitUntilReady, Achieved, Short, TypeOK, AllGot, child, files
    <3>4. PidFile'
      BY <1>8, <3>1, QuietPidFile, Zenon DEF WaitUntilReady, files
    <3> QED
      BY <2>1, <2>2, <3>1, <3>3, <3>4, QuietAdvance, Zenon
  <2>3. CASE GotoOut /\ UNCHANGED proxy
    <3>1. Quiet /\ TypeOK' /\ UNCHANGED <<file, pidfile>>
      BY <1>8, <2>3 DEF WaitUntilReady, Quiet, TypeOK, child, files
    <3> QED
      BY <2>1, <2>3, <3>1, QuietOut, Zenon
  <2> QED
    BY <1>8, <2>2, <2>3, Zenon DEF WaitUntilReady, Fail, child, files
<1>9. ASSUME NEW s \in {"startpod", "execcmd"}, HyperCommand(s) PROVE IInv'
  <2>1. At(s) /\ s \notin {"out", "killout"} /\ UNCHANGED config
    BY <1>9, Zenon DEF HyperCommand
  <2>2. CASE Advance /\ proxy.vm
    <3>1. Quiet /\ TypeOK'
      BY <1>9, <2>2 DEF HyperCommand, Quiet, TypeOK, child, files
    <3>2. Len(todo) > 1 /\ \A t : Past(t)' <=> Len(todo') > 1 /\ (Past(t) \/ t = s)
      BY <2>1, <2>2, Advances, Zenon
    <3>3. Achieved'
      BY <1>9, <2>1, <2>2, <3>2 DEF HyperCommand, Achieved, Short, TypeOK, AllGot, child, files
    <3>4. PidFile'
      BY <1>9, <3>1, QuietPidFile, Zenon DEF HyperCommand, files
    <3> QED
      BY <2>1, <2>2, <3>1, <3>3, <3>4, QuietAdvance, Zenon
  <2>3. CASE GotoOut /\ TRUE
    <3>1. Quiet /\ TypeOK' /\ UNCHANGED <<file, pidfile>>
      BY <1>9, <2>3 DEF HyperCommand, Quiet, TypeOK, child, files
    <3> QED
      BY <2>1, <2>3, <3>1, QuietOut, Zenon
  <2> QED
    BY <1>9, <2>2, <2>3, Zenon DEF HyperCommand, Fail, child, files
<1>10. ASSUME AllocateIo PROVE IInv'
  <2>1. At("allocate") /\ "allocate" \notin {"out", "killout"} /\ UNCHANGED config
    BY <1>10, Zenon DEF AllocateIo
  <2>2. CASE Advance /\ proxy' = [proxy EXCEPT !.io = TRUE]
    <3>1. Quiet /\ TypeOK'
      BY <1>10, <2>2, ZenonT(20) DEF AllocateIo, Quiet, TypeOK, child, files
    <3>2. Len(todo) > 1 /\ \A t : Past(t)' <=> Len(todo') > 1 /\ (Past(t) \/ t = "allocate")
      BY <2>1, <2>2, Advances, Zenon
    <3>3. Achieved'
      BY <1>10, <2>1, <2>2, <3>2, Zenon DEF AllocateIo, Achieved, Short, TypeOK, AllGot, child, files
    <3>4. PidFile'
      BY <1>10, <3>1, QuietPidFile, Zenon DEF AllocateIo, files
    <3> QED
      BY <2>1, <2>2, <3>1, <3>3, <3>4, QuietAdvance, Zenon
  <2>3. CASE GotoOut /\ UNCHANGED proxy
    <3>1. Quiet /\ TypeOK' /\ UNCHANGED <<file, pidfile>>
      BY <1>10, <2>3 DEF AllocateIo, Quiet, TypeOK, child, files
    <3> QED
      BY <2>1, <2>3, <3>1, QuietOut, Zenon
  <2> QED
    BY <1>10, <2>2, <2>3, Zenon DEF AllocateIo, Fail, child, files
<1>11. ASSUME WaitShim PROVE IInv'
  <2>1. At("wait") /\ "wait" \notin {"out", "killout"} /\ UNCHANGED config
    BY <1>11, Zenon DEF WaitShim
  <2>2. CASE Advance /\ UNCHANGED ret
    <3>1. Quiet /\ TypeOK'
      BY <1>11, <2>2 DEF WaitShim, Quiet, TypeOK, child, files
    <3>2. Len(todo) > 1 /\ \A t : Past(t)' <=> Len(todo') > 1 /\ (Past(t) \/ t = "wait")
      BY <2>1, <2>2, Advances, Zenon
    <3>3. Achieved'
      BY <1>11, <2>1, <2>2, <3>2, Zenon DEF WaitShim, Achieved, Short, TypeOK, AllGot, child, files
    <3>4. PidFile'
      BY <1>11, <3>1, QuietPidFile, Zenon DEF WaitShim, files
    <3> QED
      BY <2>1, <2>2, <3>1, <3>3, <3>4, QuietAdvance, Zenon
  <2>3. CASE GotoOut /\ ret' = FALSE
    <3>1. Quiet /\ TypeOK' /\ UNCHANGED <<file, pidfile>>
      BY <1>11, <2>3 DEF WaitShim, Quiet, TypeOK, child, files
    <3> QED
      BY <2>1, <2>3, <3>1, QuietOut, Zenon
  <2> QED
    BY <1>11, <2>2, <2>3, ZenonT(20) DEF WaitShim, Fail, child, files
<1>12. ASSUME Disconnect PROVE IInv'
  <2>1. At("disconnect") /\ "disconnect" \notin {"out", "killout"} /\ UNCHANGED config
    BY <1>12, Zenon DEF Disconnect
  <2>2. CASE Advance /\ ret' \in BOOLEAN /\ (proxy' = [proxy EXCEPT !.up = FALSE] \/ UNCHANGED proxy)
    <3>1. Quiet /\ TypeOK'
      <4>1. proxy' \in [up : BOOLEAN, lost : BOOLEAN, vm : BOOLEAN, io : BOOLEAN]
        BY <2>2, Zenon DEF TypeOK
      <4>2. proxy'.vm = proxy.vm /\ proxy'.io = proxy.io
        BY <2>2, Zenon DEF TypeOK
      <4> QED
        BY <1>12, <4>1, <4>2 DEF Disconnect, Quiet, TypeOK, child, files
    <3>2. Len(todo) > 1 /\ \A t : Past(t)' <=> Len(todo') > 1 /\ (Past(t) \/ t = "disconnect")
      BY <2>1, <2>2, Advances, Zenon
    <3>3. Achieved'
       BY <1>12, <2>1, <2>2, <3>2, Order DEF Disconnect, Achieved, Short, TypeOK, AllGot,
         child, files
    <3>4. PidFile'
      BY <1>12, <3>1, QuietPidFile, Zenon DEF Disconnect, files
    <3> QED
      BY <2>1, <2>2, <3>1, <3>3, <3>4, QuietAdvance, Zenon
  <2> QED
    BY <1>12, <2>2, Zenon DEF Disconnect, child, files
<1> QED
  BY <1>1, <1>2, <1>3, <1>4, <1>5, <1>6, <1>7, <1>8, <1>9, <1>10, <1>11, <1>12, Zenon

\* A step beside the command, of a hook or of the hypervisor child.
LEMMA BesideSteps ==
  ASSUME IInv,
         \/ HookSpawn \/ HookWait \/ HookExit \/ Hypervisor \/ HypEnds
  PROVE  IInv'
<1>1. Quiet /\ UNCHANGED <<config, todo, file, pidfile, proxy, pid>>
  <2>1. CASE HookSpawn \/ HookWait \/ HookExit
    BY <2>1, ZenonT(20) DEF HookSpawn, HookWait, HookExit, Quiet, child, files
  <2>2. CASE Hypervisor \/ HypEnds
    BY <2>2, Zenon DEF Hypervisor, HypStart, HypReadLength, HypReadArgs, HypSetup, HypExec, HypUp,
                HypEnds, HypStep, parent, Quiet
  <2> QED
    BY <2>1, <2>2, Zenon
<1>2. /\ TypeOK'
      /\ hyp \in {"exec", "noexec", "vm", "up", "gone", "aborted", "killed"}
            => hyp' \in {"exec", "noexec", "vm", "up", "gone", "aborted", "killed"}
  <2>1. CASE HookSpawn \/ HookWait \/ HookExit
    <3>1. UNCHANGED hyp
      BY <2>1, Zenon DEF HookSpawn, HookWait, HookExit, child
    <3> QED
      BY <1>1, <3>1, SMTT(20) DEF IInv, TypeOK, Quiet
  <2>2. CASE Hypervisor \/ HypEnds
    <3>1. \/ hyp = "start" /\ hyp' \in {"length", "failed"}
          \/ hyp = "length" /\ hyp' \in {"argv", "failed", "noargs"}
          \/ hyp = "argv" /\ hyp' \in {"setup", "noargs"}
          \/ hyp \in {"setup", "noargs"} /\ hyp' \in {"exec", "noexec", "failed", "aborted"}
          \/ hyp \in {"exec", "noexec"} /\ hyp' \in {"vm", "aborted"}
          \/ hyp = "vm" /\ hyp' \in {"up", "killed"}
          \/ hyp = "up" /\ hyp' = "gone"
      BY <2>2, Zenon DEF Hypervisor, HypStart, HypReadLength, HypReadArgs, HypSetup, HypExec, HypUp,
                  HypEnds
    <3>2. hyp' \in {"length", "failed", "argv", "noargs", "setup", "exec", "noexec",
                    "aborted", "vm", "up", "killed", "gone"}
      BY <3>1, Zenon
    <3> QED
      BY <1>1, <3>1, <3>2 DEF IInv, TypeOK, Quiet, Ended
  <2> QED
    BY <2>1, <2>2, Zenon
<1>3. PathInv' /\ Len(todo') = Len(todo) /\ \A t : Past(t)' <=> Past(t)
  BY <1>1, Stays, Zenon DEF IInv
<1>4. Received' /\ PidFile' /\ Ending'
  BY <1>1, QuietReceived, QuietPidFile, QuietEnding, Zenon DEF IInv
<1>5. Achieved'
  BY <1>1, <1>2, <1>3, Zenon DEF IInv, Achieved, Short, AllGot, Quiet
<1>6. Sending'
  BY <1>1, <1>3, Zenon DEF IInv, Sending, Short, Quiet
<1> QED
  BY <1>2, <1>3, <1>4, <1>5, <1>6, Zenon DEF IInv

\* The proxy ends its connection: what it has done remains done.
LEMMA ProxyEndsStep ==
  ASSUME IInv, ProxyEnds
  PROVE  IInv'
<1>2. /\ proxy' = [proxy EXCEPT !.lost = TRUE]
      /\ proxy \in [up : BOOLEAN, lost : BOOLEAN, vm : BOOLEAN, io : BOOLEAN]
  BY Zenon DEF ProxyEnds, IInv, TypeOK
<1>3. /\ proxy' \in [up : BOOLEAN, lost : BOOLEAN, vm : BOOLEAN, io : BOOLEAN]
      /\ proxy'.up = proxy.up /\ proxy'.vm = proxy.vm /\ proxy'.io = proxy.io
  BY <1>2, Zenon
<1>1. Quiet /\ UNCHANGED <<config, todo, file, pidfile, pid, hyp>>
  BY <1>3, Zenon DEF ProxyEnds, Quiet, child, files
<1>4. TypeOK'
  BY <1>1, <1>3, Zenon DEF IInv, TypeOK, Quiet
<1>5. PathInv' /\ Len(todo') = Len(todo) /\ \A t : Past(t)' <=> Past(t)
  BY <1>1, Stays, Zenon DEF IInv
<1>6. Received' /\ PidFile' /\ Ending'
  BY <1>1, <1>3, QuietReceived, QuietPidFile, QuietEnding, Zenon DEF IInv
<1>7. Achieved'
  BY <1>1, <1>3, <1>5, Zenon DEF IInv, Achieved, Short, AllGot, Quiet
<1>8. Sending'
  BY <1>1, <1>3, <1>5, Zenon DEF IInv, Sending, Short, Quiet
<1> QED
  BY <1>4, <1>5, <1>6, <1>7, <1>8, Zenon DEF IInv

\* The steps that write the two files.
LEMMA FileSteps ==
  ASSUME IInv, (\E s \in {"first", "full"} : CreateStateFile(s)) \/ CreatePidFile
  PROVE  IInv'
<1>1. ASSUME NEW s \in {"first", "full"}, CreateStateFile(s) PROVE IInv'
  <2>1. At(s) /\ s \notin {"out", "killout"} /\ UNCHANGED config /\ PathInv
    BY <1>1, Zenon DEF CreateStateFile, IInv
  <2>2. Quiet /\ TypeOK' /\ UNCHANGED <<pidfile, proxy, hyp>>
    BY <1>1 DEF CreateStateFile, Quiet, IInv, TypeOK, child
  <2>3. CASE Advance /\ file' = s
    <3>1. Len(todo) > 1 /\ \A t : Past(t)' <=> Len(todo') > 1 /\ (Past(t) \/ t = s)
      BY <2>1, <2>3, Advances, Zenon
    <3>2. ~(pidfile /\ kind # "pod")
      BY <2>1, <3>1, Order, ThreeKinds, Zenon DEF IInv, Achieved, Short, PathInv
    <3>3. PidFile'
      BY <2>1, <2>2, <3>2, Zenon DEF PidFile, kind
    <3>4. Achieved'
      BY <2>1, <2>2, <2>3, <3>1, Order DEF IInv, Achieved, Short, AllGot, Quiet
    <3> QED
      BY <2>1, <2>2, <2>3, <3>3, <3>4, QuietAdvance, Zenon
  <2>4. CASE GotoOut /\ UNCHANGED file
    BY <2>1, <2>2, <2>4, QuietOut, Zenon
  <2> QED
    BY <1>1, <2>3, <2>4, Zenon DEF CreateStateFile, Fail
<1>2. ASSUME CreatePidFile PROVE IInv'
  <2>1. At("pidfile") /\ UNCHANGED config /\ PathInv
    BY <1>2, Zenon DEF CreatePidFile, IInv
  <2>2. Quiet /\ TypeOK' /\ UNCHANGED <<file, proxy, hyp>>
    BY <1>2 DEF CreatePidFile, Quiet, IInv, TypeOK, child
  <2>3. CASE Advance
    <3>1. Len(todo) > 1 /\ \A t : Past(t)' <=> Len(todo') > 1 /\ (Past(t) \/ t = "pidfile")
      BY <2>1, <2>3, Advances, Zenon
    <3>2. kind # "pod" => Past("shimerr") /\ (kind = "vm" => Past("full") /\ Past("startpod"))
      BY <2>1, Order, Zenon
    <3>3. PidFile'
      BY <2>1, <2>2, <3>2, Zenon DEF IInv, PidFile, Achieved, Sending, AllGot, Quiet, kind
    <3>4. Achieved'
      BY <2>1, <2>2, <3>1, Zenon DEF IInv, Achieved, Short, AllGot, Quiet
    <3> QED
      BY <2>1, <2>2, <2>3, <3>3, <3>4, QuietAdvance, Zenon
  <2>4. CASE GotoOut /\ UNCHANGED pidfile
    BY <2>1, <2>2, <2>4, QuietOut, Zenon
  <2> QED
    BY <1>2, <2>3, <2>4, Zenon DEF CreatePidFile, Fail
<1> QED
  BY <1>1, <1>2, Zenon

\* cc_shim_launch: the child is forked with the connection open, and nothing
\* has been sent to it.
LEMMA ForkStep ==
  ASSUME IInv, ShimLaunch PROVE IInv'
<1>1. At("shim") /\ UNCHANGED config /\ PathInv
  BY Zenon DEF ShimLaunch, IInv
<1>2. CASE /\ Advance /\ shim' = "proxyfd" /\ pid' = "shim"
           /\ got' = [got EXCEPT !.connected = proxy.up]
  <2>1. /\ PathInv' /\ todo # <<>> /\ todo' # <<>> /\ Len(todo) > 1
        /\ \A t : Past(t)' <=> Len(todo') > 1 /\ (Past(t) \/ t = "shim")
    BY <1>1, <1>2, Advances, Zenon
  <2>2. Past("connect") /\ ~Past("shim")
    BY <1>1, Order, Zenon
  <2>3. shim = "none" /\ shimArgs = <<>> /\ shimSock = <<>> /\ proxy.up
    BY <2>1, <2>2, Zenon DEF IInv, Achieved, Received, Sending, Short
  <2>4. UNCHANGED <<result, hyp, hypArgs, shimArgs, shimSock, signalled, proxy, file, pidfile>>
    BY Zenon DEF ShimLaunch, files
  <2>5. got' \in GotType
        /\ got'.connected
    BY <1>2, <2>3, Zenon DEF IInv, TypeOK, GotType
  <2>6. TypeOK'
    BY <1>2, <2>4, <2>5, Zenon DEF IInv, TypeOK
  <2>7. ~Past("shimerr")
    BY <2>3, Zenon DEF IInv, Sending
  <2>8. Achieved'
    BY <2>1, <2>4, <2>7, Zenon DEF IInv, Achieved, Short
  <2>9. Received' /\ Sending'
    BY <1>2, <2>1, <2>3, <2>4, <2>5, <2>7, Zenon DEF IInv, Received, Sending, Short, Ended
  <2>10. PidFile'
    BY <1>1, <2>3, <2>4, Zenon DEF IInv, PidFile, kind
  <2>11. Ending'
    BY <2>1, <2>4, Zenon DEF IInv, Ending, FailureLeavesNoShim, kind
  <2> QED
    BY <2>1, <2>6, <2>8, <2>9, <2>10, <2>11, Zenon DEF IInv
<1>3. CASE GotoOut /\ pid' \in {pid, "failed"} /\ UNCHANGED <<shim, fds, got>>
  <2>1. Len(todo) > 1 /\ ~Past("shim")
    BY <1>1, Order, AtStep, Zenon
  <2>2. shim = "none"
    BY <2>1, Zenon DEF IInv, Sending, Short
  <2>3. Quiet /\ TypeOK' /\ UNCHANGED <<file, pidfile>>
    BY <1>3, <2>2 DEF ShimLaunch, Quiet, IInv, TypeOK, files
  <2> QED
    BY <1>1, <1>3, <2>3, QuietOut, Zenon
<1> QED
  BY <1>2, <1>3, Zenon DEF ShimLaunch

\* What the pipe holds after both numbers.
LEMMA TwoArgs == Append(<<"proxyfd">>, "iobase") = <<"proxyfd", "iobase">>
<1> DEFINE S == {"proxyfd", "iobase"}
           a == Append(<<"proxyfd">>, "iobase")
<1>1. <<"proxyfd">> \in Seq(S)
  OBVIOUS
<1>2. <<"proxyfd", "iobase">> \in Seq(S)
  OBVIOUS
<1>3. a \in Seq(S) /\ Len(a) = 2 /\ a[1] = "proxyfd" /\ a[2] = "iobase"
  BY <1>1
<1>4. \A i \in 1..2 : a[i] = <<"proxyfd", "iobase">>[i]
  BY <1>3
<1> QED
  BY <1>2, <1>3, <1>4, SeqEqual, Zenon

\* The two numbers are sent one after the other to a child that waits for them.
LEMMA SendSteps ==
  ASSUME IInv, NEW s \in {"proxyfd", "iobase"}, SendShim(s) PROVE IInv'
<1>1. At(s) /\ s \notin {"out", "killout"} /\ UNCHANGED config /\ PathInv
  BY Zenon DEF SendShim, IInv
<1>2. UNCHANGED <<result, hyp, hypArgs, shim, shimSock, got, pid, signalled, proxy, file,
                  pidfile>>
  BY Zenon DEF SendShim, files
<1>3. CASE shim \notin Ended /\ Advance /\ shimArgs' = Append(shimArgs, s)
  <2>1. /\ PathInv' /\ todo # <<>> /\ todo' # <<>> /\ Len(todo) > 1
        /\ \A t : Past(t)' <=> Len(todo') > 1 /\ (Past(t) \/ t = s)
    BY <1>1, <1>3, Advances, Zenon
  <2>2. \/ s = "proxyfd" /\ Past("shim") /\ ~Past("proxyfd") /\ ~Past("iobase")
        \/ s = "iobase" /\ Past("proxyfd") /\ ~Past("iobase")
    BY <1>1, Order, Zenon
  <2>3. \/ s = "proxyfd" /\ shim = "proxyfd" /\ shimArgs = <<>>
        \/ s = "iobase" /\ shim = "proxyfd" /\ shimArgs = <<"proxyfd">>
        \/ s = "iobase" /\ shim = "iobase" /\ shimArgs = <<>>
    BY <1>3, <2>2, Zenon DEF IInv, Sending
  <2>4. \/ s = "proxyfd" /\ shimArgs' = <<"proxyfd">>
        \/ s = "iobase" /\ shim = "proxyfd" /\ shimArgs' = <<"proxyfd", "iobase">>
        \/ s = "iobase" /\ shim = "iobase" /\ shimArgs' = <<"iobase">>
    <3>1. Append(<<>>, "proxyfd") = <<"proxyfd">>
      OBVIOUS
    <3>2. Append(<<>>, "iobase") = <<"iobase">>
      OBVIOUS
    <3>3. Append(<<"proxyfd">>, "iobase") = <<"proxyfd", "iobase">>
      BY TwoArgs, Zenon
    <3> QED
      BY <1>3, <2>3, <3>1, <3>2, <3>3, ZenonT(20)
  <2>5. Received'
    BY <1>2, <2>1, <2>3, <2>4, Zenon DEF IInv, Received, AllGot, Ended
  <2>6. Sending'
    <3>1. ~Past("shimerr")
      BY <2>3, Zenon DEF IInv, Sending
    <3> QED
      BY <1>2, <2>1, <2>2, <2>3, <2>4, <3>1, Zenon DEF IInv, Sending, Short, Ended
  <2>7. Achieved' /\ TypeOK'
    BY <1>2, <2>1 DEF IInv, Achieved, Short, AllGot, TypeOK
  <2>8. PidFile' /\ Ending'
    BY <1>1, <1>2, <2>1, Zenon DEF IInv, PidFile, AllGot, Ending, FailureLeavesNoShim, kind
  <2> QED
    BY <2>1, <2>5, <2>6, <2>7, <2>8, Zenon DEF IInv
<1>4. CASE GotoOut /\ UNCHANGED shimArgs
  <2>1. Quiet /\ TypeOK'
    BY <1>1, <1>2, <1>4 DEF Quiet, IInv, TypeOK
  <2> QED
    BY <1>1, <1>2, <1>4, <2>1, QuietOut, Zenon
<1> QED
  BY <1>3, <1>4, Zenon DEF SendShim

\* The I/O descriptor is sent when the proxy has allocated the I/O.
LEMMA SendIoFdStep ==
  ASSUME IInv, SendIoFd PROVE IInv'
<1>1. At("iofd") /\ UNCHANGED config /\ PathInv
  BY Zenon DEF SendIoFd, IInv
<1>2. UNCHANGED <<result, hyp, hypArgs, shim, shimArgs, got, pid, signalled, proxy, file,
                  pidfile>>
  BY Zenon DEF SendIoFd, files
<1>3. CASE shim \notin Ended /\ Advance /\ shimSock' = Append(shimSock, "iofd")
  <2>1. /\ PathInv' /\ todo # <<>> /\ todo' # <<>> /\ Len(todo) > 1
        /\ \A t : Past(t)' <=> Len(todo') > 1 /\ (Past(t) \/ t = "iofd")
    BY <1>1, <1>3, Advances, Zenon
  <2>2. Past("shim") /\ Past("allocate") /\ ~Past("iofd")
    BY <1>1, Order, Zenon
  <2>3. shimSock' = <<"iofd">> /\ proxy.io
    BY <1>3, <2>1, <2>2 DEF IInv, Sending, Achieved, Short
  <2>4. shim # "none"
    BY <2>2, Zenon DEF IInv, Sending
  <2>5. Received'
    BY <1>2, <2>1, <2>3, <2>4, Zenon DEF IInv, Received, AllGot
  <2>6. Sending'
    BY <1>2, <2>1, Zenon DEF IInv, Sending, Short
  <2>7. Achieved' /\ TypeOK'
    BY <1>2, <2>1 DEF IInv, Achieved, Short, AllGot, TypeOK
  <2>8. PidFile' /\ Ending'
    BY <1>1, <1>2, <2>1, Zenon DEF IInv, PidFile, AllGot, Ending, FailureLeavesNoShim, kind
  <2> QED
    BY <2>1, <2>5, <2>6, <2>7, <2>8, Zenon DEF IInv
<1>4. CASE GotoOut /\ UNCHANGED shimSock
  <2>1. Quiet /\ TypeOK'
    BY <1>1, <1>2, <1>4 DEF Quiet, IInv, TypeOK
  <2> QED
    BY <1>1, <1>2, <1>4, <2>1, QuietOut, Zenon
<1> QED
  BY <1>3, <1>4, Zenon DEF SendIoFd, Fail

\* The end of the error pipe without data: the shim has been executed.
LEMMA ReadShimErrorStep ==
  ASSUME IInv, ReadShimError PROVE IInv'
<1>1. At("shimerr") /\ UNCHANGED config /\ PathInv
  BY Zenon DEF ReadShimError, IInv
<1>2. UNCHANGED <<result, hyp, hypArgs, shim, shimArgs, shimSock, got, pid, signalled, proxy,
                  file, pidfile>>
  BY Zenon DEF ReadShimError, child, files
<1>3. CASE shim # "failed" /\ Advance
  <2>1. /\ PathInv' /\ todo # <<>> /\ todo' # <<>> /\ Len(todo) > 1
        /\ \A t : Past(t)' <=> Len(todo') > 1 /\ (Past(t) \/ t = "shimerr")
    BY <1>1, <1>3, Advances, Zenon
  <2>2. shim \in {"exec", "shim", "done", "aborted", "killed"}
    BY <1>3, Zenon DEF ReadShimError, ShimErrClosed, Ended
  <2>3. AllGot
    BY <2>1, <2>2, Zenon DEF IInv, Received
  <2>4. Received' /\ Ending' /\ PidFile' /\ TypeOK'
    BY <1>1, <1>2, <2>1
    DEF IInv, Received, PidFile, AllGot, Ending, FailureLeavesNoShim, TypeOK, kind
  <2>5. Sending'
    BY <1>2, <2>1, <2>2, Zenon DEF IInv, Sending, Short
  <2>6. Achieved'
    BY <1>2, <2>1, <2>3, Zenon DEF IInv, Achieved, Short, AllGot
  <2> QED
    BY <2>1, <2>4, <2>5, <2>6, Zenon DEF IInv
<1>4. CASE GotoOut
  <2>1. Quiet /\ TypeOK'
    BY <1>1, <1>2, <1>4 DEF Quiet, IInv, TypeOK
  <2> QED
    BY <1>1, <1>2, <1>4, <2>1, QuietOut, Zenon
<1> QED
  BY <1>3, <1>4, Zenon DEF ReadShimError, Fail

\* The ends of the command: on its regular path or by goto, in the jump of the
\* parent to child_failed, or by a signal.
LEMMA EndSteps ==
  ASSUME IInv, SetupNetwork \/ Out \/ KillOut \/ Crash PROVE IInv'
<1>1. CASE SetupNetwork
  <2>1. At("net") /\ UNCHANGED config /\ PathInv
    BY <1>1, Zenon DEF SetupNetwork, IInv
  <2>2. UNCHANGED <<signalled, proxy, file, pidfile, pid, child>>
    BY <1>1, Zenon DEF SetupNetwork, files
  <2>3. CASE Advance /\ UNCHANGED result
    <3>1. Quiet /\ TypeOK' /\ PidFile'
      BY <2>1, <2>2, <2>3, QuietPidFile DEF IInv, TypeOK, Quiet, child
    <3>2. Len(todo) > 1 /\ \A t : Past(t)' <=> Len(todo') > 1 /\ (Past(t) \/ t = "net")
      BY <2>1, <2>3, Advances, Zenon
    <3>3. Achieved'
      BY <2>2, <3>2, Zenon DEF IInv, Achieved, Short, AllGot, child
    <3> QED
      BY <2>1, <2>3, <3>1, <3>3, QuietAdvance, Zenon
  <2>4. CASE todo' = <<>> /\ result' = "exit"
    <3>1. PathInv' /\ Len(todo') = 0 /\ \A t : ~Past(t)'
      BY <2>1, <2>4, Returns, Zenon
    <3>2. Achieved' /\ Sending' /\ Ending'
      BY <2>4, <3>1, SMTT(20) DEF Achieved, Sending, Ending, FailureLeavesNoShim, Short
    <3>3. Received' /\ PidFile' /\ TypeOK'
      BY <2>1, <2>2, <2>4 DEF IInv, Received, PidFile, AllGot, TypeOK, child, kind
    <3> QED
      BY <3>1, <3>2, <3>3, Zenon DEF IInv
  <2> QED
    BY <1>1, <2>3, <2>4, Zenon DEF SetupNetwork
<1>2. CASE Crash
  <2>1. /\ todo' = <<>> /\ result' = "killed"
        /\ UNCHANGED <<config, signalled, proxy, file, pidfile, pid, child>> /\ PathInv
    BY <1>2, Zenon DEF Crash, IInv, files
  <2>2. PathInv' /\ Len(todo') = 0 /\ \A t : ~Past(t)'
    BY <2>1, Returns, Zenon
  <2>3. Achieved' /\ Sending' /\ Ending'
    BY <2>1, <2>2, SMTT(20) DEF Achieved, Sending, Ending, FailureLeavesNoShim, Short
  <2>4. Received' /\ PidFile' /\ TypeOK'
    BY <2>1 DEF IInv, Received, PidFile, AllGot, TypeOK, child, kind
  <2> QED
    BY <2>2, <2>3, <2>4, Zenon DEF IInv
<1>3. CASE Out \/ KillOut
  <2>1. /\ todo' = <<>> /\ todo # <<>>
        /\ UNCHANGED <<config, hyp, hypArgs, shimArgs, shimSock, got, pid, proxy, file, pidfile>>
        /\ PathInv
    BY <1>3, Zenon DEF Out, KillOut, At, IInv, files
  <2>2. PathInv' /\ Len(todo') = 0 /\ \A t : ~Past(t)'
    BY <2>1, Returns, Zenon
  <2>3. Achieved' /\ Sending'
    BY <2>2 DEF Achieved, Sending, Short
  <2>4. \/ UNCHANGED shim
        \/ shim \notin Ended \cup {"done"} /\ shim' = "killed" /\ pid = "shim"
    BY <1>3, Zenon DEF Out, KillOut, Signalled
  <2>5. shim # "none" => pid = "shim"
    BY Zenon DEF IInv, Received
  <2>6. TypeOK'
    BY <2>1, <2>4 DEF IInv, TypeOK, Ended
  <2>7. Received'
    <3>1. CASE UNCHANGED shim
      BY <2>1, <3>1, Zenon DEF IInv, Received, AllGot
    <3>2. CASE shim' = "killed" /\ pid = "shim"
      BY <2>1, <2>5, <3>2, Zenon DEF IInv, Received, AllGot
    <3> QED
      BY <2>4, <3>1, <3>2, Zenon
  <2>8. PidFile'
    BY <2>1, <2>4, Zenon DEF IInv, PidFile, AllGot, kind
  <2>9. Ending'
    <3>1. result = "none" /\ signalled = {}
      BY <2>1, Zenon DEF IInv, Ending
    <3>2. CASE Out /\ kind = "vm" /\ ~ret /\ pid = "shim"
      BY <2>1, <3>2, Zenon DEF Out, Signalled, Ending, FailureLeavesNoShim, Ended, kind
    <3>3. CASE Out /\ ~(kind = "vm" /\ ~ret /\ pid = "shim")
      BY <2>1, <2>5, <3>1, <3>3, Zenon DEF Out, Ending, FailureLeavesNoShim, kind
    <3>4. CASE KillOut
      <4>1. kind = "exec"
        BY <2>1, <3>4, OnlyExecKills, Zenon DEF KillOut
      <4> QED
        BY <2>1, <2>5, <3>4, <4>1, Zenon DEF KillOut, Signalled, Ending, FailureLeavesNoShim, Ended, kind
    <3> QED
      BY <1>3, <3>2, <3>3, <3>4, Zenon
  <2> QED
    BY <2>2, <2>3, <2>6, <2>7, <2>8, <2>9, Zenon DEF IInv
<1> QED
  BY <1>1, <1>2, <1>3, Zenon

\* The steps of the shim child, and the end of the shim.
LEMMA ShimSteps ==
  ASSUME IInv, ShimChild \/ ShimEnds PROVE IInv'
<1>1. /\ UNCHANGED <<config, todo, result, signalled, pid, proxy, file, pidfile, hyp>>
      /\ PathInv
  BY Zenon DEF ShimChild, ShimReadProxyFd, ShimReadIoBase, ShimReceiveIoFd, ShimSetup, ShimExec,
         ShimEnds, ShimStep, parent, IInv
<1>2. /\ PathInv' /\ Len(todo') = Len(todo) /\ \A t : Past(t)' <=> Past(t)
      /\ todo' = <<>> <=> todo = <<>>
  BY <1>1, Stays, Zenon
<1>3. shim \notin {"none", "done"} \cup Ended
  BY Zenon DEF ShimChild, ShimReadProxyFd, ShimReadIoBase, ShimReceiveIoFd, ShimSetup, ShimExec,
         ShimEnds, Ended
<1>4. Ending'
  BY <1>1, <1>3, Zenon DEF IInv, Ending, FailureLeavesNoShim, kind
<1>5. got.connected /\ pid = "shim" /\ ~Short("shim")
  BY <1>3, Zenon DEF IInv, Received, Sending
<1>6. got \in GotType
  BY Zenon DEF IInv, TypeOK
<1>7. CASE ShimReadProxyFd \/ ShimReadIoBase \/ ShimReceiveIoFd
  <2>1. shim \in {"proxyfd", "iobase", "iofd"}
    BY <1>7, Zenon DEF ShimReadProxyFd, ShimReadIoBase, ShimReceiveIoFd
  <2>2. ~Past("shimerr") /\ ~(pidfile /\ kind # "pod")
    BY <2>1, Zenon DEF IInv, Sending, PidFile
  <2>3. Achieved' /\ PidFile'
    BY <1>1, <1>2, <2>2, Zenon DEF IInv, Achieved, PidFile, Short, kind
  <2>4. /\ shim' \in {"iobase", "iofd", "setup", "failed"}
        /\ shim' = "iobase" =>
             /\ shim = "proxyfd" /\ shimArgs # <<>> /\ shimArgs' = Tail(shimArgs)
             /\ got' = [got EXCEPT !.proxy = Head(shimArgs)] /\ UNCHANGED shimSock
        /\ shim' = "iofd" =>
             /\ shim = "iobase" /\ shimArgs # <<>> /\ shimArgs' = Tail(shimArgs)
             /\ got' = [got EXCEPT !.base = Head(shimArgs)] /\ UNCHANGED shimSock
        /\ shim' = "setup" =>
             /\ shim = "iofd" /\ shimSock # <<>> /\ shimSock' = Tail(shimSock)
             /\ got' = [got EXCEPT !.io = Head(shimSock)] /\ UNCHANGED shimArgs
        /\ shim' = "failed" => UNCHANGED <<shimArgs, shimSock, got>>
    BY <1>7, Zenon DEF ShimReadProxyFd, ShimReadIoBase, ShimReceiveIoFd
  <2>5. CASE shim' = "iobase"
    <3>1. \/ shimArgs = <<"proxyfd">> /\ shimArgs' = <<>>
          \/ shimArgs = <<"proxyfd", "iobase">> /\ shimArgs' = <<"iobase">>
      <4>1. shimArgs = <<"proxyfd">> \/ shimArgs = <<"proxyfd", "iobase">>
        BY <2>4, <2>5, Zenon DEF IInv, Received
      <4>2. Tail(<<"proxyfd">>) = <<>> /\ Tail(<<"proxyfd", "iobase">>) = <<"iobase">>
        OBVIOUS
      <4> QED
        BY <2>4, <2>5, <4>1, <4>2, Zenon
    <3>2. Head(shimArgs) = "proxyfd"
      BY <3>1
    <3>3. /\ got' \in GotType
          /\ got'.connected /\ got'.proxy = "proxyfd"
      BY <1>5, <1>6, <2>4, <2>5, <3>2, Zenon DEF GotType
    <3>4. TypeOK' /\ Received'
      BY <1>1, <1>5, <2>4, <2>5, <3>1, <3>3 DEF IInv, TypeOK, Received, Ended
    <3>5. Sending'
      BY <1>1, <1>2, <1>5, <2>2, <2>4, <2>5, <3>1 DEF IInv, Sending, Short, Ended
    <3> QED
      BY <1>2, <1>4, <2>3, <3>4, <3>5, Zenon DEF IInv
  <2>6. CASE shim' = "iofd"
    <3>1. shimArgs = <<"iobase">> /\ got.proxy = "proxyfd"
      BY <2>4, <2>6, Zenon DEF IInv, Received
    <3>2. Head(shimArgs) = "iobase"
      BY <3>1
    <3>3. /\ got' \in GotType
          /\ got'.connected /\ got'.proxy = "proxyfd" /\ got'.base = "iobase"
      BY <1>5, <1>6, <2>4, <2>6, <3>1, <3>2, Zenon DEF GotType
    <3>4. TypeOK' /\ Received'
      BY <1>1, <1>5, <2>4, <2>6, <3>1, <3>3, Zenon DEF IInv, TypeOK, Received, Ended
    <3>5. Sending'
      BY <1>1, <1>2, <1>5, <2>2, <2>4, <2>6, <3>1, Zenon DEF IInv, Sending, Short, Ended
    <3> QED
      BY <1>2, <1>4, <2>3, <3>4, <3>5, Zenon DEF IInv
  <2>7. CASE shim' = "setup"
    <3>1. /\ shimSock = <<"iofd">> /\ proxy.io
          /\ got.proxy = "proxyfd" /\ got.base = "iobase"
      BY <2>4, <2>7, Zenon DEF IInv, Received
    <3>2. Head(shimSock) = "iofd" /\ shimSock' = <<>>
      BY <2>4, <2>7, <3>1
    <3>3. got' = [connected |-> TRUE, proxy |-> "proxyfd", base |-> "iobase", io |-> "iofd"]
      BY <1>5, <1>6, <2>4, <2>7, <3>1, <3>2, Zenon DEF GotType
    <3>4. TypeOK'
      BY <1>1, <2>7, <3>3, Zenon DEF IInv, TypeOK, GotType
    <3>5. Received'
      BY <1>1, <1>5, <2>4, <2>7, <3>1, <3>2, <3>3, Zenon DEF IInv, Received, AllGot
    <3>6. Sending'
      BY <1>1, <1>2, <1>5, <2>2, <2>4, <2>7, <3>2, Zenon DEF IInv, Sending, Short, Ended
    <3> QED
      BY <1>2, <1>4, <2>3, <3>4, <3>5, <3>6, Zenon DEF IInv
  <2>8. CASE shim' = "failed"
    <3>1. UNCHANGED <<shimArgs, shimSock, got>>
      BY <2>4, <2>8, Zenon
    <3>2. TypeOK' /\ Received'
      BY <1>1, <1>5, <2>8, <3>1, Zenon DEF IInv, TypeOK, Received, Ended
    <3>3. Sending'
      BY <1>1, <1>2, <1>5, <2>2, <2>8, <3>1, Zenon DEF IInv, Sending, Short, Ended
    <3> QED
      BY <1>2, <1>4, <2>3, <3>2, <3>3, Zenon DEF IInv
  <2> QED
    BY <2>4, <2>5, <2>6, <2>7, <2>8, Zenon
<1>8. CASE ShimSetup \/ ShimExec \/ ShimEnds
  <2>1. /\ UNCHANGED <<shimArgs, shimSock, got>>
        /\ \/ shim = "setup" /\ shim' \in {"exec", "failed"}
           \/ shim = "exec" /\ shim' \in {"shim", "aborted"}
           \/ shim = "shim" /\ shim' \in {"done", "killed"}
    BY <1>8, Zenon DEF ShimSetup, ShimExec, ShimEnds
  <2>2. AllGot /\ AllGot'
    BY <1>1, <2>1, Zenon DEF IInv, Received, AllGot
  <2>3. shim' \in {"exec", "shim", "done"} \cup Ended
    BY <2>1, Zenon DEF Ended
  <2>4. TypeOK' /\ Received'
    BY <1>1, <1>5, <2>1, <2>2, <2>3 DEF IInv, TypeOK, Received, Ended
  <2>5. Achieved'
    BY <1>1, <1>2, <2>2, Zenon DEF IInv, Achieved, Short
  <2>6. PidFile'
    BY <1>1, <2>1, <2>2, Zenon DEF IInv, PidFile, kind
  <2>7. Sending'
    BY <1>1, <1>2, <1>5, <2>1, <2>3, Zenon DEF IInv, Sending, Short, Ended
  <2> QED
    BY <1>2, <1>4, <2>4, <2>5, <2>6, <2>7, Zenon DEF IInv
<1> QED
  BY <1>7, <1>8, Zenon DEF ShimChild

-----------------------------------------------------------------------------
\* Before the first step nothing has been forked, sent or written.
LEMMA InitIInv == Init => IInv
<1> SUFFICES ASSUME Init PROVE IInv
  BY Zenon
<1>1. config \in Options
  BY Zenon DEF Init
<1>2. OnPath
  <2>1. VmSteps \in Seq(StepNames) /\ Len(VmSteps) = 21
    BY DEF VmSteps, StepNames
  <2>2. PodSteps \in Seq(StepNames) /\ Len(PodSteps) = 12
    BY DEF PodSteps, StepNames
  <2>3. ExecSteps \in Seq(StepNames) /\ Len(ExecSteps) = 12
    BY DEF ExecSteps, StepNames
  <2>4. \/ todo = VmSteps /\ Steps(kind) = VmSteps
        \/ todo = PodSteps /\ Steps(kind) = PodSteps
        \/ todo = ExecSteps /\ Steps(kind) = ExecSteps
    BY <1>1, ThreeKinds, Zenon DEF Init
  <2>5. todo = Steps(kind) /\ todo \in Seq(StepNames) /\ Len(todo) \in {12, 21}
    BY <2>1, <2>2, <2>3, <2>4, Zenon
  <2>6. \A j \in 1..Len(todo) : Len(todo) - Len(todo) + j = j
    BY <2>5
  <2> QED
    BY <2>5, <2>6 DEF OnPath
<1>3. \A t : ~Past(t)
  <2>1. todo = Steps(kind) /\ Len(todo) \in Nat
    BY <1>2 DEF Init, OnPath
  <2> QED
    BY <2>1 DEF Past
<1>4. PathInv /\ TypeOK
  <2>1. proxy \in [up : BOOLEAN, lost : BOOLEAN, vm : BOOLEAN, io : BOOLEAN]
    BY DEF Init, NoProxy
  <2> QED
    BY <1>1, <1>2, <2>1, Zenon DEF Init, PathInv, TypeOK, GotType
<1>5. Achieved /\ Received /\ Sending /\ PidFile /\ Ending
  BY <1>3, Zenon DEF Init, Achieved, Received, Sending, PidFile, Ending, FailureLeavesNoShim, Ended,
              Short
<1> QED
  BY <1>4, <1>5, Zenon DEF IInv

\* Every step of the command and of its children keeps the inductive invariant.
LEMMA NextIInv == IInv /\ [Next]_vars => IInv'
<1> SUFFICES ASSUME IInv, [Next]_vars PROVE IInv'
  BY Zenon
<1>1. CASE UNCHANGED vars
  <2>1. PathInv' /\ Len(todo') = Len(todo) /\ \A t : Past(t)' <=> Past(t)
    BY <1>1, Stays, Zenon DEF IInv, vars
  <2>2. Quiet /\ TypeOK'
    BY <1>1 DEF IInv, TypeOK, Quiet, vars
  <2>3. Received' /\ PidFile' /\ Ending'
    BY <1>1, <2>2, QuietReceived, QuietPidFile, QuietEnding, Zenon DEF IInv, vars
  <2>4. Achieved' /\ Sending'
    BY <1>1, <2>1 DEF IInv, Achieved, Sending, Short, AllGot, vars
  <2> QED
    BY <2>1, <2>2, <2>3, <2>4, Zenon DEF IInv
<1>2. CASE Command
  BY <1>2, QuietSteps, FileSteps, ForkStep, SendSteps, SendIoFdStep, ReadShimErrorStep,
     EndSteps, BesideSteps, Zenon
  DEF Command
<1> QED
  BY <1>1, <1>2, BesideSteps, ProxyEndsStep, ShimSteps, EndSteps, Zenon DEF Next

-----------------------------------------------------------------------------
\* A shim that has been given its arguments has been given the right ones, in
\* the right order, on an open connection, and its I/O has been allocated, in
\* each of the three functions and however the parent and the child interleave
\* (cc_shim_launch).
THEOREM ArgumentsTheorem == Spec => []ShimArguments
<1>1. IInv => ShimArguments
  BY Zenon DEF IInv, Received, AllGot, ShimArguments
<1> QED
  BY InitIInv, NextIInv, <1>1, PTL DEF Spec

\* When cc_oci_vm_launch or cc_oci_vm_connect has written the pid file, the shim
\* has all its arguments, and for a create the state file is complete and the
\* VM known to the proxy (process.c:1251).
THEOREM PidFileTheorem == Spec => []PidFileLast
<1>1. IInv => PidFileLast
  BY DEF IInv, PidFile, AllGot, PidFileLast
<1> QED
  BY InitIInv, NextIInv, <1>1, PTL DEF Spec

\* A command never gets past the error pipe of a child that has written to it.
THEOREM ChildErrorTheorem == Spec => []ChildErrorSeen
<1>1. IInv => ChildErrorSeen
  BY Zenon DEF IInv, Achieved, Sending, ChildErrorSeen
<1> QED
  BY InitIInv, NextIInv, <1>1, PTL DEF Spec

\* A create that reports failure, and an exec that fails in cc_oci_exec_shim,
\* leave no shim behind, and the create signals no other process.
THEOREM FailureTheorem == Spec => []FailureLeavesNoShim
<1>1. IInv => FailureLeavesNoShim
  BY Zenon DEF IInv, Ending
<1> QED
  BY InitIInv, NextIInv, <1>1, PTL DEF Spec

=============================================================================
