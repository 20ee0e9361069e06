-------------------------- MODULE ContainerProofs --------------------------
(***************************************************************************)
(* Proofs about Container, for any number of processes, any commands and   *)
(* any faults.                                                             *)
(***************************************************************************)
EXTENDS Container, TLAPS

CreateLabels == {"launch", "hello", "recreate"}
CleanupLabels == {"unmount", "unlink", "rmdir"}
CommandLabels ==
    {"new-container", "started", "open-lock", "wait-shim", "stopping", "signal",
     "revert", "kill-hyper", "stopped", "pause", "resume", "paused", "resumed",
     "destroy", "bye"} \cup CleanupLabels

TypeOK ==
    /\ file \in StateFile
    /\ dir \in {None, "empty", "used", "left"}
    /\ registered \in Procs \cup {None}
    /\ vm \subseteq Procs
    /\ pc \in [Procs -> {"idle"} \cup CreateLabels \cup CommandLabels]
    /\ about \in [Procs -> Procs \cup {None}]
    /\ last \in [Procs -> Status \cup {None}]

\* A command past its first step knows the container it is about.
Informed ==
    \A p \in Procs :
        /\ pc[p] \in CommandLabels => about[p] \in Procs
        /\ pc[p] \in {"hello", "recreate"} => about[p] = p
        /\ pc[p] \in {"stopping", "signal", "revert"} => last[p] \in Status

\* Another command runs beside a create only if it is a create, too.
Exclusive ==
    \A p, q \in Procs : pc[p] \in CreateLabels => pc[q] \notin CommandLabels

\* The directory outlives the state file until a cleanup removes it, or fails to.
DirHolds ==
    /\ file # NoFile => dir \in {"used", "left"}
    /\ dir = "used" => file # NoFile \/ \E p \in Procs : pc[p] = "rmdir"
    /\ dir = "empty" => \A p \in Procs : pc[p] \in {"idle", "launch"}
    /\ \A p \in Procs : pc[p] \in {"hello", "recreate"} => dir = "used"

RInv == TypeOK /\ Informed /\ Exclusive /\ DirHolds

-----------------------------------------------------------------------------
\* What holds when start does not wait: cleanup runs only after a bye.

NoWait == \A p \in Procs : pc[p] \notin {"open-lock", "wait-shim"}

CleanAfterBye == \A p \in Procs : pc[p] \in CleanupLabels => registered = None

GInv == RInv /\ NoWait /\ CleanAfterBye

-----------------------------------------------------------------------------
\* What holds when, besides, an id is created only if it does not exist.

\* One create at a time, on an id without a state file or on its own.
OneCreate ==
    /\ \A p, q \in Procs : pc[p] \in CreateLabels /\ pc[q] \in CreateLabels => p = q
    /\ \A p \in Procs : pc[p] = "launch" => file = NoFile /\ p \notin vm
    /\ \A p \in Procs : pc[p] \in {"hello", "recreate"} => file.owner = p

\* The commands in progress, the state file and the proxy agree on the VM.
SameVM ==
    /\ \A p, q \in Procs :
          pc[p] \in CommandLabels /\ pc[q] \in CommandLabels => about[p] = about[q]
    /\ \A p \in Procs : pc[p] \in CommandLabels /\ file # NoFile => file.owner = about[p]
    /\ registered # None => file.owner = registered

\* A delete past destroypod has left no VM that goes on.
Destroyed ==
    \A p \in Procs :
        pc[p] \in {"bye"} \cup CleanupLabels /\ about[p] \in vm => about[p] \in dying

OInv == GInv /\ OneCreate /\ SameVM /\ Destroyed /\ NoOrphanVM

\* Before the first create there is nothing.
LEMMA InitRInv == Init => RInv
<1> SUFFICES ASSUME Init PROVE RInv
  OBVIOUS
<1>1. /\ file = NoFile /\ dir = None /\ registered = None /\ vm = {}
      /\ pc = [p \in Procs |-> "idle"] /\ about = [p \in Procs |-> None]
      /\ last = [p \in Procs |-> None]
  BY DEF Init
<1>2. TypeOK
  BY <1>1 DEF TypeOK, StateFile, NoFile
<1>3. \A p \in Procs : pc[p] \notin CreateLabels \cup CommandLabels
  BY <1>1 DEF CreateLabels, CommandLabels, CleanupLabels
<1>4. Informed /\ Exclusive
  BY <1>3 DEF Informed, Exclusive, CreateLabels, CommandLabels
<1>5. DirHolds
  BY <1>1, <1>3 DEF DirHolds, CreateLabels, None
<1> QED
  BY <1>2, <1>4, <1>5 DEF RInv

\* Every step keeps RInv.
LEMMA NextRInv == RInv /\ [Next]_vars => RInv'
<1> SUFFICES ASSUME RInv, [Next]_vars PROVE RInv'
  OBVIOUS
<1> USE ProcsAssumption
<1> USE DEF RInv, TypeOK, Informed, Exclusive, DirHolds, CreateLabels, CommandLabels,
            CleanupLabels, StateFile, NoFile, None, Status, diskVars, vmVars, Creating
<1>1. ASSUME NEW p \in Procs, CreateDir(p) PROVE RInv'
  BY <1>1 DEF CreateDir, Goto
<1>2. ASSUME NEW p \in Procs, CreateLaunch(p) PROVE RInv'
  BY <1>2 DEF CreateLaunch, Goto
<1>3. ASSUME NEW p \in Procs, CreateHello(p) PROVE RInv'
  BY <1>3 DEF CreateHello, Continue, Finish, Goto
<1>4. ASSUME NEW p \in Procs, CreateRecreate(p) PROVE RInv'
  BY <1>4 DEF CreateRecreate, WriteState, Finish, Goto
<1>5. ASSUME NEW p \in Procs, CreateFails(p) PROVE RInv'
  BY <1>5 DEF CreateFails, Finish, Goto
<1>6. ASSUME NEW p \in Procs, StartRead(p) PROVE RInv'
  BY <1>6 DEF StartRead, ReadState, Goto
<1>7. ASSUME NEW p \in Procs, StartNewContainer(p) PROVE RInv'
  BY <1>7 DEF StartNewContainer, Continue, Finish, Goto
<1>8. ASSUME NEW p \in Procs, StartWrite(p) PROVE RInv'
  BY <1>8 DEF StartWrite, WriteState, WriteFails, Continue, Finish, Goto
<1>9. ASSUME NEW p \in Procs, StartOpenLock(p) PROVE RInv'
  BY <1>9 DEF StartOpenLock, Continue, Finish, Goto
<1>10. ASSUME NEW p \in Procs, StartWaitShim(p) PROVE RInv'
  BY <1>10 DEF StartWaitShim, Continue, Finish, Goto
<1>11. ASSUME NEW p \in Procs, KillRead(p) PROVE RInv'
  BY <1>11 DEF KillRead, ReadState, Goto
<1>12. ASSUME NEW p \in Procs, KillStopping(p) PROVE RInv'
  BY <1>12 DEF KillStopping, WriteState, WriteFails, Continue, Finish, Goto
<1>13. ASSUME NEW p \in Procs, KillSignal(p) PROVE RInv'
  BY <1>13 DEF KillSignal, Goto
<1>14. ASSUME NEW p \in Procs, KillRevert(p) PROVE RInv'
  BY <1>14 DEF KillRevert, WriteState, WriteFails, Finish, Goto
<1>15. ASSUME NEW p \in Procs, KillHyper(p) PROVE RInv'
  BY <1>15 DEF KillHyper, Continue, Finish, Goto
<1>16. ASSUME NEW p \in Procs, KillStopped(p) PROVE RInv'
  BY <1>16 DEF KillStopped, WriteState, WriteFails, Finish, Goto
<1>17. ASSUME NEW p \in Procs, ToggleRead(p) PROVE RInv'
  BY <1>17 DEF ToggleRead, ReadState, Goto
<1>18. ASSUME NEW p \in Procs, Toggle(p) PROVE RInv'
  BY <1>18 DEF Toggle, Continue, Finish, Goto
<1>19. ASSUME NEW p \in Procs, ToggleWrite(p) PROVE RInv'
  BY <1>19 DEF ToggleWrite, WriteState, WriteFails, Finish, Goto
<1>20. ASSUME NEW p \in Procs, DeleteRead(p) PROVE RInv'
  BY <1>20 DEF DeleteRead, ReadState, Goto
<1>21. ASSUME NEW p \in Procs, DeleteDestroy(p) PROVE RInv'
  BY <1>21 DEF DeleteDestroy, Continue, Finish, Goto
<1>22. ASSUME NEW p \in Procs, DeleteBye(p) PROVE RInv'
  BY <1>22 DEF DeleteBye, Continue, Finish, Goto
<1>23. ASSUME NEW p \in Procs, CleanupUnmount(p) PROVE RInv'
  BY <1>23 DEF CleanupUnmount, Continue, Finish, Goto
<1>24. ASSUME NEW p \in Procs, CleanupUnlink(p) PROVE RInv'
  BY <1>24 DEF CleanupUnlink, Continue, Finish, Goto
<1>25. ASSUME NEW p \in Procs, CleanupRmdir(p) PROVE RInv'
  BY <1>25 DEF CleanupRmdir, Finish, Goto
<1>26. ASSUME NEW v \in Procs, VMExit(v) PROVE RInv'
  BY <1>26 DEF VMExit, procVars
<1>27. ASSUME NEW v \in Procs, ShimExit(v) PROVE RInv'
  BY <1>27 DEF ShimExit, procVars
<1>28. CASE Retire
  BY <1>28 DEF Retire, vmVars, procVars
<1>29. CASE ProxyRestart
  BY <1>29 DEF ProxyRestart, procVars
<1>30. CASE UNCHANGED vars
  BY <1>30 DEF vars, vmVars, procVars
<1> QED
   BY <1>1, <1>2, <1>3, <1>4, <1>5, <1>6, <1>7, <1>8, <1>9, <1>10, <1>11, <1>12, <1>13,
     <1>14, <1>15, <1>16, <1>17, <1>18, <1>19, <1>20, <1>21, <1>22, <1>23, <1>24, <1>25,
     <1>26, <1>27, <1>28, <1>29, <1>30, ZenonT(30)
  DEF Next, Command, Create, Start, Kill, PauseResume, Delete

\* When no command is in progress no cleanup is, and the directory that has held
\* a state file holds one: whatever commands and creates interleave, and whatever
\* else fails, only an rm -rf that fails leaves a container half deleted
\* (cc_oci_cleanup).
THEOREM RemnantTheorem == Spec => []NoRemnant
<1>1. RInv => NoRemnant
  <2> SUFFICES ASSUME DirHolds, \A p \in Procs : pc[p] = "idle"
               PROVE  /\ dir = "used" => file # NoFile
                      /\ file # NoFile => dir \in {"used", "left"}
    BY DEF RInv, NoRemnant
  <2>1. ~\E p \in Procs : pc[p] = "rmdir"
    OBVIOUS
  <2> QED
    BY <2>1, Zenon DEF DirHolds
<1> QED
  BY InitRInv, NextRInv, <1>1, PTL DEF Spec

-----------------------------------------------------------------------------
\* Every step keeps NoWait and CleanAfterBye, if start does not wait.  A hello
\* registers a VM, but no cleanup runs beside a create.
LEMMA NextGInv == ~WaitStart /\ GInv /\ [Next]_vars => (NoWait /\ CleanAfterBye)'
<1> SUFFICES ASSUME ~WaitStart, GInv, [Next]_vars PROVE (NoWait /\ CleanAfterBye)'
  OBVIOUS
<1> USE DEF GInv, RInv, TypeOK, Exclusive, NoWait, CleanAfterBye, CreateLabels,
            CommandLabels, CleanupLabels, diskVars, vmVars
<1>1. ASSUME NEW p \in Procs, CreateDir(p) PROVE (NoWait /\ CleanAfterBye)'
  BY <1>1 DEF CreateDir, Goto
<1>2. ASSUME NEW p \in Procs, CreateLaunch(p) PROVE (NoWait /\ CleanAfterBye)'
  BY <1>2 DEF CreateLaunch, Goto
<1>3. ASSUME NEW p \in Procs, CreateHello(p) PROVE (NoWait /\ CleanAfterBye)'
  BY <1>3 DEF CreateHello, Continue, Finish, Goto
<1>4. ASSUME NEW p \in Procs, CreateRecreate(p) PROVE (NoWait /\ CleanAfterBye)'
  BY <1>4 DEF CreateRecreate, WriteState, Finish, Goto
<1>5. ASSUME NEW p \in Procs, CreateFails(p) PROVE (NoWait /\ CleanAfterBye)'
  BY <1>5 DEF CreateFails, Finish, Goto
<1>6. ASSUME NEW p \in Procs, StartRead(p) PROVE (NoWait /\ CleanAfterBye)'
  BY <1>6 DEF StartRead, ReadState, Goto
<1>7. ASSUME NEW p \in Procs, StartNewContainer(p) PROVE (NoWait /\ CleanAfterBye)'
  BY <1>7 DEF StartNewContainer, Continue, Finish, Goto
<1>8. ASSUME NEW p \in Procs, StartWrite(p) PROVE (NoWait /\ CleanAfterBye)'
  BY <1>8 DEF StartWrite, WriteState, WriteFails, Continue, Finish, Goto
<1>9. ASSUME NEW p \in Procs, StartOpenLock(p) PROVE (NoWait /\ CleanAfterBye)'
  BY <1>9 DEF StartOpenLock, Continue, Finish, Goto
<1>10. ASSUME NEW p \in Procs, StartWaitShim(p) PROVE (NoWait /\ CleanAfterBye)'
  BY <1>10 DEF StartWaitShim, Continue, Finish, Goto
<1>11. ASSUME NEW p \in Procs, KillRead(p) PROVE (NoWait /\ CleanAfterBye)'
  BY <1>11 DEF KillRead, ReadState, Goto
<1>12. ASSUME NEW p \in Procs, KillStopping(p) PROVE (NoWait /\ CleanAfterBye)'
  BY <1>12 DEF KillStopping, WriteState, WriteFails, Continue, Finish, Goto
<1>13. ASSUME NEW p \in Procs, KillSignal(p) PROVE (NoWait /\ CleanAfterBye)'
  BY <1>13 DEF KillSignal, Goto
<1>14. ASSUME NEW p \in Procs, KillRevert(p) PROVE (NoWait /\ CleanAfterBye)'
  BY <1>14 DEF KillRevert, WriteState, WriteFails, Finish, Goto
<1>15. ASSUME NEW p \in Procs, KillHyper(p) PROVE (NoWait /\ CleanAfterBye)'
  BY <1>15 DEF KillHyper, Continue, Finish, Goto
<1>16. ASSUME NEW p \in Procs, KillStopped(p) PROVE (NoWait /\ CleanAfterBye)'
  BY <1>16 DEF KillStopped, WriteState, WriteFails, Finish, Goto
<1>17. ASSUME NEW p \in Procs, ToggleRead(p) PROVE (NoWait /\ CleanAfterBye)'
  BY <1>17 DEF ToggleRead, ReadState, Goto
<1>18. ASSUME NEW p \in Procs, Toggle(p) PROVE (NoWait /\ CleanAfterBye)'
  BY <1>18 DEF Toggle, Continue, Finish, Goto
<1>19. ASSUME NEW p \in Procs, ToggleWrite(p) PROVE (NoWait /\ CleanAfterBye)'
  BY <1>19 DEF ToggleWrite, WriteState, WriteFails, Finish, Goto
<1>20. ASSUME NEW p \in Procs, DeleteRead(p) PROVE (NoWait /\ CleanAfterBye)'
  BY <1>20 DEF DeleteRead, ReadState, Goto
<1>21. ASSUME NEW p \in Procs, DeleteDestroy(p) PROVE (NoWait /\ CleanAfterBye)'
  BY <1>21 DEF DeleteDestroy, Continue, Finish, Goto, HyperSucceeds
<1>22. ASSUME NEW p \in Procs, DeleteBye(p) PROVE (NoWait /\ CleanAfterBye)'
  BY <1>22 DEF DeleteBye, Continue, Finish, Goto
<1>23. ASSUME NEW p \in Procs, CleanupUnmount(p) PROVE (NoWait /\ CleanAfterBye)'
  BY <1>23 DEF CleanupUnmount, Continue, Finish, Goto
<1>24. ASSUME NEW p \in Procs, CleanupUnlink(p) PROVE (NoWait /\ CleanAfterBye)'
  BY <1>24 DEF CleanupUnlink, Continue, Finish, Goto
<1>25. ASSUME NEW p \in Procs, CleanupRmdir(p) PROVE (NoWait /\ CleanAfterBye)'
  BY <1>25 DEF CleanupRmdir, Finish, Goto
<1>26. ASSUME NEW v \in Procs, VMExit(v) PROVE (NoWait /\ CleanAfterBye)'
  BY <1>26 DEF VMExit, procVars
<1>27. ASSUME NEW v \in Procs, ShimExit(v) PROVE (NoWait /\ CleanAfterBye)'
  BY <1>27 DEF ShimExit, procVars
<1>28. CASE Retire
  BY <1>28 DEF Retire, vmVars, procVars
<1>29. CASE ProxyRestart
  BY <1>29 DEF ProxyRestart, procVars
<1>30. CASE UNCHANGED vars
  BY <1>30 DEF vars, vmVars, procVars
<1> QED
   BY <1>1, <1>2, <1>3, <1>4, <1>5, <1>6, <1>7, <1>8, <1>9, <1>10, <1>11, <1>12, <1>13,
     <1>14, <1>15, <1>16, <1>17, <1>18, <1>19, <1>20, <1>21, <1>22, <1>23, <1>24, <1>25,
     <1>26, <1>27, <1>28, <1>29, <1>30, ZenonT(30)
  DEF Next, Command, Create, Start, Kill, PauseResume, Delete

\* With start in the background, a container whose state file is unlinked is
\* not registered in the proxy any more (cc_oci_stop says bye before it cleans
\* up), and no create registers it again before the cleanup ends.
THEOREM UnregisteredTheorem == ~WaitStart => (Spec => []GoneIsUnregistered)
<1> SUFFICES ASSUME ~WaitStart PROVE Spec => []GoneIsUnregistered
  OBVIOUS
<1>1. Init => GInv
  BY InitRInv DEF GInv, NoWait, CleanAfterBye, Init, CleanupLabels
<1>2. GInv /\ [Next]_vars => GInv'
  <2> SUFFICES ASSUME GInv, [Next]_vars PROVE GInv'
    OBVIOUS
  <2>1. RInv'
    BY NextRInv, Zenon DEF GInv
  <2>2. (NoWait /\ CleanAfterBye)'
    BY NextGInv, Zenon
  <2> QED
    BY <2>1, <2>2, Zenon DEF GInv
<1>3. GInv => GoneIsUnregistered
  BY DEF GInv, CleanAfterBye, CleanupLabels, GoneIsUnregistered
<1> QED
  BY <1>1, <1>2, <1>3, PTL DEF Spec

-----------------------------------------------------------------------------
\* Every step keeps the rest of OInv, if start does not wait and no id is reused.
LEMMA NextOInv ==
    ~WaitStart /\ ~ReuseIds /\ OInv /\ [Next]_vars
        => (OneCreate /\ SameVM /\ Destroyed /\ NoOrphanVM)'
<1> SUFFICES ASSUME ~WaitStart, ~ReuseIds, OInv, [Next]_vars
             PROVE  (OneCreate /\ SameVM /\ Destroyed /\ NoOrphanVM)'
  OBVIOUS
<1> USE ProcsAssumption
<1> USE DEF OInv, GInv, RInv, TypeOK, Informed, Exclusive, NoWait, CleanAfterBye,
            OneCreate, SameVM, Destroyed, NoOrphanVM, CreateLabels, CommandLabels,
            CleanupLabels, StateFile, NoFile, None, Status, diskVars, vmVars, Creating
<1>1. ASSUME NEW p \in Procs, CreateDir(p) PROVE (OneCreate /\ SameVM /\ Destroyed /\ NoOrphanVM)'
  BY <1>1 DEF CreateDir, Goto
<1>2. ASSUME NEW p \in Procs, CreateLaunch(p) PROVE (OneCreate /\ SameVM /\ Destroyed /\ NoOrphanVM)'
  BY <1>2 DEF CreateLaunch, Goto
<1>3. ASSUME NEW p \in Procs, CreateHello(p) PROVE (OneCreate /\ SameVM /\ Destroyed /\ NoOrphanVM)'
  BY <1>3 DEF CreateHello, Continue, Finish, Goto
<1>4. ASSUME NEW p \in Procs, CreateRecreate(p) PROVE (OneCreate /\ SameVM /\ Destroyed /\ NoOrphanVM)'
  BY <1>4 DEF CreateRecreate, WriteState, Finish, Goto
<1>5. ASSUME NEW p \in Procs, CreateFails(p) PROVE (OneCreate /\ SameVM /\ Destroyed /\ NoOrphanVM)'
  BY <1>5 DEF CreateFails, Finish, Goto
<1>6. ASSUME NEW p \in Procs, StartRead(p) PROVE (OneCreate /\ SameVM /\ Destroyed /\ NoOrphanVM)'
  BY <1>6 DEF StartRead, ReadState, Goto
<1>7. ASSUME NEW p \in Procs, StartNewContainer(p)
      PROVE  (OneCreate /\ SameVM /\ Destroyed /\ NoOrphanVM)'
  BY <1>7 DEF StartNewContainer, Continue, Finish, Goto
<1>8. ASSUME NEW p \in Procs, StartWrite(p) PROVE (OneCreate /\ SameVM /\ Destroyed /\ NoOrphanVM)'
  BY <1>8 DEF StartWrite, WriteState, WriteFails, Continue, Finish, Goto
<1>9. ASSUME NEW p \in Procs, StartOpenLock(p) PROVE (OneCreate /\ SameVM /\ Destroyed /\ NoOrphanVM)'
  BY <1>9 DEF StartOpenLock, Continue, Finish, Goto
<1>10. ASSUME NEW p \in Procs, StartWaitShim(p) PROVE (OneCreate /\ SameVM /\ Destroyed /\ NoOrphanVM)'
  BY <1>10 DEF StartWaitShim, Continue, Finish, Goto
<1>11. ASSUME NEW p \in Procs, KillRead(p) PROVE (OneCreate /\ SameVM /\ Destroyed /\ NoOrphanVM)'
  BY <1>11 DEF KillRead, ReadState, Goto
<1>12. ASSUME NEW p \in Procs, KillStopping(p) PROVE (OneCreate /\ SameVM /\ Destroyed /\ NoOrphanVM)'
  BY <1>12 DEF KillStopping, WriteState, WriteFails, Continue, Finish, Goto
<1>13. ASSUME NEW p \in Procs, KillSignal(p) PROVE (OneCreate /\ SameVM /\ Destroyed /\ NoOrphanVM)'
  BY <1>13 DEF KillSignal, Goto
<1>14. ASSUME NEW p \in Procs, KillRevert(p) PROVE (OneCreate /\ SameVM /\ Destroyed /\ NoOrphanVM)'
  BY <1>14 DEF KillRevert, WriteState, WriteFails, Finish, Goto
<1>15. ASSUME NEW p \in Procs, KillHyper(p) PROVE (OneCreate /\ SameVM /\ Destroyed /\ NoOrphanVM)'
  BY <1>15 DEF KillHyper, Continue, Finish, Goto
<1>16. ASSUME NEW p \in Procs, KillStopped(p) PROVE (OneCreate /\ SameVM /\ Destroyed /\ NoOrphanVM)'
  BY <1>16 DEF KillStopped, WriteState, WriteFails, Finish, Goto
<1>17. ASSUME NEW p \in Procs, ToggleRead(p) PROVE (OneCreate /\ SameVM /\ Destroyed /\ NoOrphanVM)'
  BY <1>17 DEF ToggleRead, ReadState, Goto
<1>18. ASSUME NEW p \in Procs, Toggle(p) PROVE (OneCreate /\ SameVM /\ Destroyed /\ NoOrphanVM)'
  BY <1>18 DEF Toggle, Continue, Finish, Goto
<1>19. ASSUME NEW p \in Procs, ToggleWrite(p) PROVE (OneCreate /\ SameVM /\ Destroyed /\ NoOrphanVM)'
  BY <1>19 DEF ToggleWrite, WriteState, WriteFails, Finish, Goto
<1>20. ASSUME NEW p \in Procs, DeleteRead(p) PROVE (OneCreate /\ SameVM /\ Destroyed /\ NoOrphanVM)'
  BY <1>20 DEF DeleteRead, ReadState, Goto
<1>21. ASSUME NEW p \in Procs, DeleteDestroy(p) PROVE (OneCreate /\ SameVM /\ Destroyed /\ NoOrphanVM)'
  BY <1>21 DEF DeleteDestroy, Continue, Finish, Goto, HyperSucceeds
<1>22. ASSUME NEW p \in Procs, DeleteBye(p) PROVE (OneCreate /\ SameVM /\ Destroyed /\ NoOrphanVM)'
  BY <1>22 DEF DeleteBye, Continue, Finish, Goto
<1>23. ASSUME NEW p \in Procs, CleanupUnmount(p) PROVE (OneCreate /\ SameVM /\ Destroyed /\ NoOrphanVM)'
  BY <1>23 DEF CleanupUnmount, Continue, Finish, Goto
<1>24. ASSUME NEW p \in Procs, CleanupUnlink(p) PROVE (OneCreate /\ SameVM /\ Destroyed /\ NoOrphanVM)'
  BY <1>24 DEF CleanupUnlink, Continue, Finish, Goto
<1>25. ASSUME NEW p \in Procs, CleanupRmdir(p) PROVE (OneCreate /\ SameVM /\ Destroyed /\ NoOrphanVM)'
  BY <1>25 DEF CleanupRmdir, Finish, Goto
<1>26. ASSUME NEW v \in Procs, VMExit(v) PROVE (OneCreate /\ SameVM /\ Destroyed /\ NoOrphanVM)'
  BY <1>26 DEF VMExit, procVars
<1>27. ASSUME NEW v \in Procs, ShimExit(v) PROVE (OneCreate /\ SameVM /\ Destroyed /\ NoOrphanVM)'
  BY <1>27 DEF ShimExit, procVars
<1>28. CASE Retire
  BY <1>28 DEF Retire, vmVars, procVars
<1>29. CASE ProxyRestart
  BY <1>29 DEF ProxyRestart, procVars
<1>30. CASE UNCHANGED vars
  BY <1>30 DEF vars, vmVars, procVars
<1> QED
   BY <1>1, <1>2, <1>3, <1>4, <1>5, <1>6, <1>7, <1>8, <1>9, <1>10, <1>11, <1>12, <1>13,
     <1>14, <1>15, <1>16, <1>17, <1>18, <1>19, <1>20, <1>21, <1>22, <1>23, <1>24, <1>25,
     <1>26, <1>27, <1>28, <1>29, <1>30, ZenonT(30)
  DEF Next, Command, Create, Start, Kill, PauseResume, Delete

\* Every VM that runs can be deleted: the state file names it, unless it is
\* being created or has been told to exit.  This holds whatever fails, as long
\* as start does not wait and an id is created only when it does not exist
\* (cc_oci_create, cc_oci_stop).
THEOREM OrphanTheorem == ~WaitStart /\ ~ReuseIds => (Spec => []NoOrphanVM)
<1> SUFFICES ASSUME ~WaitStart, ~ReuseIds PROVE Spec => []NoOrphanVM
  OBVIOUS
<1>1. Init => OInv
  BY InitRInv, ProcsAssumption
  DEF OInv, GInv, NoWait, CleanAfterBye, OneCreate, SameVM, Destroyed, NoOrphanVM, Init,
      CreateLabels, CommandLabels, CleanupLabels
<1>2. OInv /\ [Next]_vars => OInv'
  BY NextRInv, NextGInv, NextOInv DEF OInv, GInv
<1>3. OInv => NoOrphanVM
  BY DEF OInv
<1> QED
  BY <1>1, <1>2, <1>3, PTL DEF Spec

=============================================================================
