--------------------------- MODULE ControlProofs ----------------------------
(***************************************************************************)
(* Proofs about the two control connections of a VM: the channel of the    *)
(* proxy to hyperstart (HyperCtl), for any set of clients, with or without *)
(* early attaches, and any number of commands, and the monitor over which  *)
(* the runtime pauses and resumes the VM (Qmp), for any set of processes.  *)
(***************************************************************************)
EXTENDS HyperCtl, Qmp, SequenceTheorems, TLAPS
-----------------------------------------------------------------------------
(* The control channel of hyperstart.                                       *)

\* ctlMutex is held by whoever is between its lock and its unlock.
Mutex ==
    /\ \A c \in Clients : pc[c] \in {"write", "read"} <=> ctlMutex = c
    /\ hello = "ready" <=> ctlMutex = "hello"

\* A handler that runs has a command.
Counted == \A c \in Clients : pc[c] # "idle" => cmds[c] # 0

\* The proxy closes the channel of a guest that has gone, and of no other one.
ClosedIsGone == ctl = "closed" \/ hello = "close" => guest = "gone"

\* Which messages answer a command: none of a guest that does not boot.
Codes ==
    \A i \in 1..Len(toProxy) :
        /\ toProxy[i].code \in {"READY", "NEXT"} => toProxy[i].c = Nobody
        /\ toProxy[i].code = "ACK" => toProxy[i].c # Nobody
        /\ toProxy[i].code = "ERROR" /\ toProxy[i].c = Nobody =>
              guest = "gone" /\ \A j \in 1..Len(toProxy) : toProxy[j].c = Nobody
        /\ guest = "booting" => toProxy[i].c = Nobody

\* A command the guest has not answered is the only one.
OneCommand ==
    guest # "gone" =>
        \A i \in 1..Len(toGuest) :
            /\ i = 1
            /\ pc[toGuest[i].c] = "read"
            /\ toGuest[i].k = cmds[toGuest[i].c]
            /\ \A j \in 1..Len(toProxy) : toProxy[j].c = Nobody

\* An answer that can still be read is the only one, and awaited by the client
\* whose last command it answers.
OneAnswer ==
    ctl # "closed" =>
        \A i \in 1..Len(toProxy) :
            toProxy[i].c # Nobody =>
                /\ pc[toProxy[i].c] = "read"
                /\ toProxy[i].k = cmds[toProxy[i].c]
                /\ \A j \in 1..Len(toProxy) : toProxy[j].c # Nobody => i = j

\* The inductive invariant.
IInv ==
    /\ TypeOK
    /\ Mutex
    /\ Counted
    /\ ClosedIsGone
    /\ Codes
    /\ OneCommand
    /\ OneAnswer
    /\ AnswerMatches

\* The channel of a VM that has just been registered is empty.
LEMMA InitIInv == Init => IInv
<1> SUFFICES ASSUME Init PROVE IInv
  BY Zenon
<1> USE ClientsAssumption, MaxCmdsAssumption DEF Init
<1>1. TypeOK
  <2>1. Unanswered("none") \in Response
    BY DEF Unanswered, Response
  <2>2. toGuest \in Seq(Command) /\ toProxy \in Seq(Message)
    OBVIOUS
  <2>3. panicked \in BOOLEAN
    BY Zenon
  <2>4. cmds \in [Clients -> 0..MaxCmds]
    OBVIOUS
  <2>5. result \in [Clients -> Response] /\ pc \in [Clients -> {"idle", "lock", "write", "read"}]
    BY <2>1, Zenon
  <2> QED
    BY <2>2, <2>3, <2>4, <2>5, Zenon DEF TypeOK
<1>2. Mutex /\ Counted /\ ClosedIsGone
  BY Zenon DEF Mutex, Counted, ClosedIsGone
<1>3. Codes /\ OneCommand /\ OneAnswer
  BY DEF Codes, OneCommand, OneAnswer
<1>4. AnswerMatches
  BY Zenon DEF AnswerMatches, Unanswered
<1> QED
  BY <1>1, <1>2, <1>3, <1>4, Zenon DEF IInv

\* What is left of the channel when its first message is read.
LEMMA TailFacts ==
    ASSUME NEW S, NEW q \in Seq(S), q # <<>>
    PROVE  /\ Tail(q) \in Seq(S)
           /\ Head(q) = q[1] /\ Head(q) \in S
           /\ Len(Tail(q)) = Len(q) - 1 /\ Len(q) \in Nat \ {0}
           /\ \A i \in 1..Len(Tail(q)) : i + 1 \in 1..Len(q) /\ Tail(q)[i] = q[i + 1]
  OBVIOUS

\* What is on the channel when a message has been written.
LEMMA AppendFacts ==
    ASSUME NEW S, NEW q \in Seq(S), NEW m \in S
    PROVE  /\ Append(q, m) \in Seq(S)
           /\ Len(q) \in Nat /\ Len(Append(q, m)) = Len(q) + 1
           /\ \A i \in 1..Len(q) : Append(q, m)[i] = q[i]
           /\ Append(q, m)[Len(q) + 1] = m
  OBVIOUS

\* Every step of the handlers and of the guest keeps the inductive invariant.
LEMMA NextIInv == IInv /\ [Next]_vars => IInv'
<1> SUFFICES ASSUME IInv, [Next]_vars PROVE IInv'
  BY Zenon
<1> USE ClientsAssumption, MaxCmdsAssumption
<1> USE DEF IInv
<1>1. CASE HelloDialCtl
  BY <1>1 DEF HelloDialCtl, clientVars, guestVars, TypeOK, Mutex, Counted, ClosedIsGone, Codes,
     OneCommand, OneAnswer, AnswerMatches
<1>17. CASE HelloDialConsole \/ HelloClose
  BY <1>17 DEF HelloDialConsole, HelloClose, clientVars, guestVars, TypeOK, Mutex, Counted,
     ClosedIsGone, Codes, OneCommand, OneAnswer, AnswerMatches
<1>2. CASE HelloDialIo
  BY <1>2 DEF HelloDialIo, clientVars, guestVars, TypeOK, Mutex, Counted, ClosedIsGone, Codes,
     OneCommand, OneAnswer, AnswerMatches
<1>3. CASE HelloLock
  BY <1>3 DEF HelloLock, clientVars, guestVars, TypeOK, Mutex, Counted, ClosedIsGone, Codes,
     OneCommand, OneAnswer, AnswerMatches
<1>4. CASE SkipMessage
  <2>1. /\ toProxy # <<>> /\ toProxy' = Tail(toProxy)
        /\ UNCHANGED <<toGuest, guest, hello, ctl, ctlMutex, pc, cmds, result, panicked>>
    BY <1>4, Zenon DEF SkipMessage, ReadsMessage, proxyVars, clientVars
  <2>2. TypeOK' /\ Mutex' /\ Counted' /\ ClosedIsGone' /\ AnswerMatches'
    BY <2>1, TailFacts, Zenon DEF TypeOK, Mutex, Counted, ClosedIsGone, AnswerMatches
  <2>3. /\ Len(toProxy') = Len(toProxy) - 1 /\ Len(toProxy) \in Nat
        /\ \A i \in 1..Len(toProxy') : i + 1 \in 1..Len(toProxy) /\ toProxy'[i] = toProxy[i + 1]
    BY <2>1, TailFacts DEF TypeOK
  <2>4. Codes'
    BY <2>1, <2>3 DEF Codes
  <2>5. OneCommand'
    BY <2>1, <2>3 DEF OneCommand
  <2>6. OneAnswer'
    BY <2>1, <2>3 DEF OneAnswer
  <2> QED
    BY <2>2, <2>4, <2>5, <2>6, Zenon
<1>5. CASE HelloRead
  <2>1. CASE ReadsMessage
    <3>1. /\ toProxy # <<>> /\ toProxy' = Tail(toProxy)
          /\ ctl = "open" /\ hello = "ready" /\ ctlMutex' = "free"
          /\ UNCHANGED <<toGuest, guest, pc, cmds, result, panicked>>
          /\ ctl' = ctl
          /\ \/ hello' = "ok"
             \/ hello' = "close" /\ Head(toProxy).code \notin {"NEXT", "READY"}
      BY <1>5, <2>1, Zenon DEF HelloRead, ReadsMessage, ReadFails, clientVars, TypeOK
    <3>2. /\ Len(toProxy') = Len(toProxy) - 1 /\ Len(toProxy) \in Nat \ {0}
          /\ Head(toProxy) = toProxy[1]
          /\ \A i \in 1..Len(toProxy') : i + 1 \in 1..Len(toProxy) /\ toProxy'[i] = toProxy[i + 1]
      BY <3>1, TailFacts DEF TypeOK
    <3>3. \A i \in 1..Len(toProxy) : toProxy[i].c = Nobody
      <4> SUFFICES ASSUME NEW i \in 1..Len(toProxy), toProxy[i].c # Nobody PROVE FALSE
        BY Zenon
      <4>1. toProxy[i] \in Message
        BY DEF TypeOK
      <4>2. toProxy[i].c \in Clients /\ pc[toProxy[i].c] = "read"
        BY <3>1, <4>1, Zenon DEF OneAnswer, Message
      <4> QED
        BY <3>1, <4>2, Zenon DEF Mutex
    <3>4. hello' = "close" => guest = "gone"
      <4>1. 1 \in 1..Len(toProxy) /\ toProxy[1] \in Message
        BY <3>2 DEF TypeOK
      <4> QED
        BY <3>1, <3>2, <3>3, <4>1, Zenon DEF Codes, Message
    <3>5. TypeOK' /\ Mutex' /\ Counted' /\ ClosedIsGone' /\ AnswerMatches'
      BY <3>1, <3>4, TailFacts DEF TypeOK, Mutex, Counted, ClosedIsGone, AnswerMatches
    <3>6. Codes' /\ OneAnswer' /\ OneCommand'
      BY <3>1, <3>2, <3>3 DEF Codes, OneAnswer, OneCommand
    <3> QED
      BY <3>5, <3>6, Zenon
  <2>2. CASE ~ ReadsMessage
    BY <1>5, <2>2 DEF HelloRead, clientVars, TypeOK, Mutex, Counted, ClosedIsGone, Codes,
       OneCommand, OneAnswer, AnswerMatches
  <2> QED
    BY <2>1, <2>2, Zenon
<1>6. CASE CloseCtl
  BY <1>6, Zenon DEF CloseCtl, clientVars, guestVars, TypeOK, Mutex, Counted, ClosedIsGone, Codes,
     OneCommand, OneAnswer, AnswerMatches
<1>7. ASSUME NEW c \in Clients, Hyper(c) PROVE IInv'
  <2>1. /\ pc[c] = "idle" /\ pc' = [pc EXCEPT ![c] = "lock"]
        /\ cmds[c] < MaxCmds /\ cmds' = [cmds EXCEPT ![c] = @ + 1]
        /\ result' = [result EXCEPT ![c] = Unanswered("none")]
        /\ UNCHANGED <<hello, ctl, ctlMutex, toGuest, toProxy, guest, panicked>>
    BY <1>7, Zenon DEF Hyper, proxyVars, guestVars
  <2>2. TypeOK'
    BY <2>1 DEF TypeOK, Unanswered, Response
  <2>3. Mutex' /\ ClosedIsGone' /\ Codes'
    BY <2>1, Zenon DEF TypeOK, Mutex, ClosedIsGone, Codes
  <2>9. Counted'
    <3>1. cmds[c] \in Nat /\ cmds'[c] = cmds[c] + 1
      BY <2>1 DEF TypeOK
    <3>2. \A d \in Clients : d # c => cmds'[d] = cmds[d] /\ pc'[d] = pc[d]
      BY <2>1, Zenon DEF TypeOK
    <3> QED
      BY <3>1, <3>2 DEF Counted
  <2>4. AnswerMatches'
    BY <2>1, Zenon DEF TypeOK, AnswerMatches, Unanswered
  <2>5. /\ \A i \in 1..Len(toProxy) : toProxy[i] \in Message
        /\ \A i \in 1..Len(toGuest) : toGuest[i] \in Command
    BY DEF TypeOK
  <2>6. \A d \in Clients : pc[d] = "read" => pc'[d] = "read" /\ cmds'[d] = cmds[d]
    BY <2>1, Zenon DEF TypeOK
  <2>7. OneCommand'
    BY <2>1, <2>5, <2>6 DEF OneCommand, Command
  <2>8. OneAnswer'
    BY <2>1, <2>5, <2>6 DEF OneAnswer, Message
  <2> QED
    BY <2>2, <2>3, <2>4, <2>7, <2>8, <2>9, Zenon
<1>8. ASSUME NEW c \in Clients, HyperLock(c) PROVE IInv'
  <2>1. /\ pc[c] = "lock" /\ pc' = [pc EXCEPT ![c] = "write"]
        /\ ctlMutex = "free" /\ ctlMutex' = c
        /\ UNCHANGED <<hello, ctl, cmds, result, toGuest, toProxy, guest, panicked>>
    BY <1>8, Zenon DEF HyperLock, guestVars
  <2>2. TypeOK' /\ Mutex' /\ Counted' /\ ClosedIsGone' /\ Codes' /\ AnswerMatches'
    BY <2>1 DEF TypeOK, Mutex, Counted, ClosedIsGone, Codes, AnswerMatches
  <2>3. \A d : pc[d] = "read" => pc'[d] = "read"
    BY <2>1 DEF TypeOK
  <2>4. OneCommand' /\ OneAnswer'
    BY <2>1, <2>3 DEF OneCommand, OneAnswer
  <2> QED
    BY <2>2, <2>4, Zenon
<1>9. ASSUME NEW c \in Clients, pc[c] = "write", NEW r \in Response, r.c = Nobody, Return(c, r),
             UNCHANGED <<hello, ctl, cmds, toGuest, toProxy, guest, panicked>>
      PROVE  IInv'
  <2>1. /\ pc' = [pc EXCEPT ![c] = "idle"]
        /\ ctlMutex' = "free"
        /\ result' = [result EXCEPT ![c] = r]
    BY <1>9, Zenon DEF Return
  <2>2. TypeOK' /\ Mutex' /\ Counted' /\ ClosedIsGone' /\ Codes' /\ AnswerMatches'
    BY <1>9, <2>1 DEF TypeOK, Mutex, Counted, ClosedIsGone, Codes, AnswerMatches
  <2>3. \A d : pc[d] = "read" => pc'[d] = "read"
    BY <1>9, <2>1 DEF TypeOK
  <2>4. OneCommand' /\ OneAnswer'
    BY <1>9, <2>1, <2>3 DEF OneCommand, OneAnswer
  <2> QED
    BY <2>2, <2>4, Zenon
<1>10. ASSUME NEW c \in Clients, HyperReject(c) PROVE IInv'
  BY <1>9, <1>10 DEF HyperReject, guestVars, Unanswered, Response
<1>11. ASSUME NEW c \in Clients, HyperWrite(c) PROVE IInv'
  <2>1. CASE ctl = "nil"
    BY <1>11, <2>1, SMTT(20)
       DEF HyperWrite, TypeOK, Mutex, Counted, ClosedIsGone, Codes, OneCommand, OneAnswer,
       AnswerMatches
  <2>2. CASE ctl = "open" /\ guest # "gone"
    <3> DEFINE m == [c |-> c, k |-> cmds[c]]
    <3>1. /\ pc[c] = "write" /\ pc' = [pc EXCEPT ![c] = "read"]
          /\ toGuest' = Append(toGuest, m)
          /\ UNCHANGED <<hello, ctl, ctlMutex, cmds, result, toProxy, guest, panicked>>
      BY <1>11, <2>2, Zenon DEF HyperWrite
    <3>2. \A d \in Clients : pc[d] # "read"
      BY <3>1, Zenon DEF Mutex
    <3>3. /\ \A i \in 1..Len(toProxy) : toProxy[i] \in Message
          /\ \A i \in 1..Len(toGuest) : toGuest[i] \in Command
          /\ Len(toGuest) \in Nat
      BY DEF TypeOK
    <3>4. \A i \in 1..Len(toProxy) : toProxy[i].c = Nobody
      BY <2>2, <3>2, <3>3, Zenon DEF OneAnswer, Message
    <3>5. Len(toGuest) = 0
      <4>1. 1 \notin 1..Len(toGuest)
        BY <2>2, <3>2, <3>3, Zenon DEF OneCommand, Command
      <4> QED
        BY <3>3, <4>1
    <3>6. cmds[c] # 0
      BY <3>1, Zenon DEF Counted
    <3>7. m \in Command
      BY <3>6 DEF TypeOK, Command
    <3>8. TypeOK' /\ Mutex' /\ Counted' /\ ClosedIsGone' /\ Codes' /\ AnswerMatches'
      BY <3>1, <3>7, AppendFacts, ZenonT(20)
         DEF TypeOK, Mutex, Counted, ClosedIsGone, Codes, AnswerMatches
    <3>9. Len(toGuest') = 1 /\ toGuest'[1] = m
      BY <3>1, <3>5, <3>7, AppendFacts DEF TypeOK
    <3>10. OneCommand'
      BY <3>1, <3>4, <3>9 DEF TypeOK, OneCommand
    <3>11. OneAnswer'
      BY <3>1, <3>4, Zenon DEF OneAnswer
    <3> QED
      BY <3>8, <3>10, <3>11, Zenon
  <2>3. CASE ~ (ctl = "nil") /\ ~ (ctl = "open" /\ guest # "gone")
    BY <1>9, <1>11, <2>3 DEF HyperWrite, Unanswered, Response
  <2> QED
    BY <2>1, <2>2, <2>3, Zenon
<1>12. ASSUME NEW c \in Clients, HyperRead(c) PROVE IInv'
  <2>1. CASE ReadsMessage
    <3> DEFINE m == Head(toProxy)
               r == [status |-> IF m.code = "ACK" THEN "success" ELSE "error",
                     c |-> m.c, k |-> m.k]
    <3>1. /\ toProxy # <<>> /\ ctl = "open" /\ toProxy' = Tail(toProxy)
          /\ pc[c] = "read" /\ pc' = [pc EXCEPT ![c] = "idle"]
          /\ ctlMutex' = "free"
          /\ result' = [result EXCEPT ![c] = r]
          /\ UNCHANGED <<hello, ctl, cmds, toGuest, guest, panicked>>
          /\ m.code \in {"ACK", "ERROR"}
      BY <1>12, <2>1, Zenon DEF HyperRead, ReadsMessage, ReadFails, Return
    <3>2. /\ Len(toProxy') = Len(toProxy) - 1 /\ Len(toProxy) \in Nat \ {0}
          /\ m = toProxy[1] /\ m \in Message /\ 1 \in 1..Len(toProxy)
          /\ \A i \in 1..Len(toProxy') : i + 1 \in 1..Len(toProxy) /\ toProxy'[i] = toProxy[i + 1]
      BY <3>1, TailFacts DEF TypeOK
    <3>3. /\ \A i \in 1..Len(toProxy) : toProxy[i] \in Message
          /\ \A i \in 1..Len(toGuest) : toGuest[i] \in Command
      BY DEF TypeOK
    <3>4. \A d \in Clients : pc[d] = "read" => d = c
      BY <3>1, Zenon DEF Mutex
    <3>5. m.c # Nobody => m.c = c /\ m.k = cmds[c]
      BY <3>1, <3>2, <3>4 DEF OneAnswer, Message
    <3>6. r \in Response
      BY <3>2, Zenon DEF Response, Message
    <3>7. TypeOK'
      BY <3>1, <3>6, TailFacts, Zenon DEF TypeOK
    <3>8. Mutex' /\ Counted' /\ ClosedIsGone' /\ AnswerMatches'
      BY <3>1, <3>5 DEF TypeOK, Mutex, Counted, ClosedIsGone, AnswerMatches
    <3>9. Codes'
      BY <3>1, <3>2 DEF Codes
    <3>10. \A i \in 1..Len(toProxy') : toProxy'[i].c = Nobody
      <4> SUFFICES ASSUME NEW i \in 1..Len(toProxy'), toProxy[i + 1].c # Nobody PROVE FALSE
        BY <3>2, Zenon
      <4>1. i + 1 \in 1..Len(toProxy) /\ i + 1 # 1
        BY <3>2
      <4>2. m.c = Nobody
        BY <3>1, <3>2, <4>1, Zenon DEF OneAnswer
      <4> QED
        BY <3>1, <3>2, <4>1, <4>2, Zenon DEF Codes
    <3>11. guest # "gone" => Len(toGuest) = 0
      <4> SUFFICES ASSUME guest # "gone", Len(toGuest) # 0 PROVE FALSE
        BY Zenon
      <4>1. 1 \in 1..Len(toGuest)
        BY DEF TypeOK
      <4>2. m.c = Nobody
        BY <3>2, <4>1, Zenon DEF OneCommand
      <4> QED
        BY <3>1, <3>2, <4>2, Zenon DEF Codes
    <3>12. OneCommand' /\ OneAnswer'
      BY <3>1, <3>10, <3>11 DEF OneCommand, OneAnswer
    <3> QED
      BY <3>7, <3>8, <3>9, <3>12, Zenon
  <2>2. CASE ~ ReadsMessage
    <3>1. /\ pc[c] = "read" /\ pc' = [pc EXCEPT ![c] = "idle"]
          /\ ctlMutex' = "free"
          /\ result' = [result EXCEPT ![c] = Unanswered("success")]
          /\ ctl = "closed" \/ (toProxy = <<>> /\ guest = "gone")
          /\ UNCHANGED <<hello, ctl, cmds, toGuest, toProxy, guest, panicked>>
      BY <1>12, <2>2, Zenon DEF HyperRead, ReadFails, Return
    <3>2. Unanswered("success") \in Response /\ Unanswered("success").c = Nobody
      BY DEF Unanswered, Response
    <3>3. TypeOK' /\ Mutex' /\ Counted' /\ ClosedIsGone' /\ Codes' /\ AnswerMatches'
      BY <3>1, <3>2 DEF TypeOK, Mutex, Counted, ClosedIsGone, Codes, AnswerMatches
    <3>4. OneCommand' /\ OneAnswer'
      BY <3>1 DEF OneCommand, OneAnswer, ClosedIsGone
    <3> QED
      BY <3>3, <3>4, Zenon
  <2> QED
    BY <2>1, <2>2, Zenon
<1>13. CASE GuestBoot \/ GuestNext \/ GuestBootFails
  <2>1. PICK m \in {Unsolicited("READY"), Unsolicited("NEXT"), Unsolicited("ERROR")} :
           /\ toProxy' = Append(toProxy, m)
           /\ m = Unsolicited("ERROR") =>
                guest = "booting" /\ guest' = "gone" /\ ctl = "open"
           /\ guest' \in {"up", "busy", "gone"} /\ guest # "gone"
           /\ UNCHANGED <<toGuest, hello, ctl, ctlMutex, pc, cmds, result, panicked>>
    BY <1>13, Zenon DEF GuestBoot, GuestNext, GuestBootFails, proxyVars, clientVars, Unsolicited
  <2>2. m \in Message /\ m.c = Nobody /\ m.code \in {"READY", "NEXT", "ERROR"}
        /\ (m.code = "ERROR" => m = Unsolicited("ERROR"))
    BY DEF Unsolicited, Message
  <2>3. /\ Len(toProxy) \in Nat /\ Len(toProxy') = Len(toProxy) + 1
        /\ \A i \in 1..Len(toProxy) : toProxy'[i] = toProxy[i]
        /\ toProxy'[Len(toProxy) + 1] = m
    BY <2>1, <2>2, AppendFacts DEF TypeOK
  <2>4. TypeOK'
    BY <2>1, <2>2, AppendFacts, Zenon DEF TypeOK
  <2>5. Mutex' /\ Counted' /\ ClosedIsGone' /\ AnswerMatches'
    BY <2>1, Zenon DEF Mutex, Counted, ClosedIsGone, AnswerMatches
  <2>6. \A i \in 1..Len(toProxy') :
           (i \in 1..Len(toProxy) /\ toProxy'[i] = toProxy[i]) \/ toProxy'[i] = m
    BY <2>3
  <2>7. Codes'
    BY <2>1, <2>2, <2>3, <2>6 DEF Codes
  <2>8. OneCommand'
    BY <2>1, <2>2, <2>6, Zenon DEF OneCommand
  <2>9. OneAnswer'
    BY <2>1, <2>2, <2>6 DEF OneAnswer
  <2> QED
    BY <2>4, <2>5, <2>7, <2>8, <2>9, Zenon
<1>14. ASSUME NEW code \in {"ACK", "ERROR"}, GuestAnswer(code) PROVE IInv'
  <2> DEFINE cmd == Head(toGuest)
             m == [code |-> code, c |-> cmd.c, k |-> cmd.k]
  <2>1. /\ guest \in {"up", "busy"} /\ guest' = "up"
        /\ toGuest # <<>> /\ toGuest' = Tail(toGuest)
        /\ toProxy' = Append(toProxy, m)
        /\ UNCHANGED <<hello, ctl, ctlMutex, pc, cmds, result, panicked>>
    BY <1>14, Zenon DEF GuestAnswer, proxyVars, clientVars
  <2>2. /\ cmd = toGuest[1] /\ cmd \in Command /\ 1 \in 1..Len(toGuest)
        /\ Len(toGuest') = Len(toGuest) - 1 /\ Len(toGuest) \in Nat
    BY <2>1, TailFacts DEF TypeOK
  <2>3. /\ Len(toGuest') = 0
        /\ pc[cmd.c] = "read" /\ cmd.k = cmds[cmd.c]
        /\ \A j \in 1..Len(toProxy) : toProxy[j].c = Nobody
    <3>1. Len(toGuest) <= 1
      BY <2>1, <2>2 DEF OneCommand
    <3> QED
      BY <2>1, <2>2, <3>1 DEF OneCommand
  <2>4. m \in Message /\ m.c = cmd.c /\ m.k = cmd.k /\ m.c \in Clients /\ m.code \in {"ACK", "ERROR"}
    BY <2>2 DEF Message, Command
  <2>5. m.c # Nobody
    BY <2>4, Zenon
  <2>6. /\ Len(toProxy) \in Nat /\ Len(toProxy') = Len(toProxy) + 1
        /\ \A i \in 1..Len(toProxy) : toProxy'[i] = toProxy[i]
        /\ toProxy'[Len(toProxy) + 1] = m
    BY <2>1, <2>4, AppendFacts DEF TypeOK
  <2>7. TypeOK'
    BY <2>1, <2>4, AppendFacts, TailFacts, Zenon DEF TypeOK
  <2>8. Mutex' /\ Counted' /\ ClosedIsGone' /\ AnswerMatches'
    BY <2>1, Zenon DEF Mutex, Counted, ClosedIsGone, AnswerMatches
  <2>9. \A i \in 1..Len(toProxy') :
           \/ i \in 1..Len(toProxy) /\ toProxy'[i] = toProxy[i] /\ toProxy'[i].c = Nobody
           \/ i = Len(toProxy) + 1 /\ toProxy'[i] = m
    BY <2>3, <2>6
  <2>10. Codes'
    BY <2>1, <2>4, <2>5, <2>9 DEF Codes
  <2>11. OneCommand'
    BY <2>3 DEF OneCommand
  <2>12. OneAnswer'
    BY <2>1, <2>3, <2>4, <2>9 DEF OneAnswer
  <2> QED
    BY <2>7, <2>8, <2>10, <2>11, <2>12, Zenon
<1>15. CASE GuestExit
  BY <1>15 DEF GuestExit, proxyVars, clientVars, TypeOK, Mutex, Counted, ClosedIsGone, Codes,
     OneCommand, OneAnswer, AnswerMatches
<1>16. CASE UNCHANGED vars
   BY <1>16 DEF vars, proxyVars, clientVars, guestVars, TypeOK, Mutex, Counted,
     ClosedIsGone, Codes,
     OneCommand, OneAnswer, AnswerMatches
<1> QED
  BY <1>1, <1>2, <1>3, <1>4, <1>5, <1>6, <1>7, <1>8, <1>10, <1>11, <1>12, <1>13,
     <1>14, <1>15, <1>16, <1>17, Zenon DEF Next, Hello, Handler, GuestWork

\* The inductive invariant holds in every reachable state.
THEOREM IInvAlways == Spec => []IInv
  BY InitIInv, NextIInv, PTL DEF Spec

\* The control channel and the handlers that use it keep their types.
THEOREM TypeCorrect == Spec => []TypeOK
<1>1. IInv => TypeOK
  BY Zenon DEF IInv
<1> QED
  BY IInvAlways, <1>1, PTL

\* ctlMutex makes a command and its answer one transaction: there is never a
\* second command or answer on the channel of a guest that lives.
THEOREM SingleTransaction == Spec => []OneTransaction
<1>1. ASSUME IInv PROVE OneTransaction
  <2>1. /\ DOMAIN toGuest = 1..Len(toGuest) /\ DOMAIN toProxy = 1..Len(toProxy)
        /\ \A i \in 1..Len(toGuest) : toGuest[i] \in Command
        /\ \A i \in 1..Len(toProxy) : toProxy[i] \in Message
    BY <1>1 DEF IInv, TypeOK
  <2>2. /\ \A i \in 1..Len(toGuest) : toGuest[i].c \in Clients
        /\ \A i \in 1..Len(toProxy) : toProxy[i].c \in Clients \cup {Nobody}
    BY <2>1, Zenon DEF Command, Message
  <2> QED
     BY <1>1, <2>1, <2>2 DEF IInv, OneTransaction, Answers, OneCommand, OneAnswer, Mutex,
       ClosedIsGone
<1> QED
  BY IInvAlways, <1>1, PTL

\* No client is ever given the answer to another client's command, nor the
\* answer to an earlier command of its own.
THEOREM AnswersMatch == Spec => []AnswerMatches
<1>1. IInv => AnswerMatches
  BY Zenon DEF IInv
<1> QED
  BY IInvAlways, <1>1, PTL

-----------------------------------------------------------------------------
(* Pause and resume over QMP.                                               *)

Texts == {"greeting", "event", "return"}

Units == [m : Texts, end : BOOLEAN]

\* The types of what a process of QMP has, and of the hypervisor.
QTypeOK ==
  /\ goal \in [Procs -> {"paused", "running"}]
  /\ qpc \in [Procs -> {"start", "connect", "welcome", "caps", "command", "save"} \cup Ends]
  /\ toVm \in [Procs -> Seq({"caps", "paused", "running"})]
  /\ sock \in [Procs -> Seq(Units)]
  /\ buf \in [Procs -> Seq(Units)]
  /\ msgs \in [Procs -> Seq(Texts)]
  /\ executed \in [Procs -> BOOLEAN]

\* What has been received and not taken is at most the text of a message, and the
\* separators are the even units of what it makes with the bytes to come.
Framed(p) ==
  /\ Len(buf[p]) <= 1
  /\ \A i \in 1..Len(buf[p]) : ~buf[p][i].end
  /\ \A i \in 1..Len(sock[p]) : sock[p][i].end <=> (Len(buf[p]) + i) % 2 = 0
  /\ (Len(buf[p]) + Len(sock[p])) % 2 = 0

\* No answer is on its way or has been taken.
NoReturn(p) ==
  /\ \A i \in 1..Len(msgs[p]) : msgs[p][i] # "return"
  /\ \A i \in 1..Len(buf[p]) : buf[p][i].m # "return"
  /\ \A i \in 1..Len(sock[p]) : sock[p][i].m # "return"

Nothing(p) == sock[p] = <<>> /\ buf[p] = <<>> /\ msgs[p] = <<>>

\* Until the greeting has been taken nothing else has been sent.
Welcome(p) == toVm[p] = <<>> /\ msgs[p] = <<>> /\ Len(buf[p]) + Len(sock[p]) <= 2

\* The answer to qmp_capabilities is the first message after the greeting, and no
\* second answer follows it; once more has been taken than is waited for, nothing
\* is accepted any more.
Negotiating(p) ==
  \/ toVm[p] = <<"caps">> /\ Nothing(p)
  \/ /\ toVm[p] = <<>>
     /\ \/ /\ msgs[p] = <<>>
           /\ \A i \in 1..Len(sock[p]) : Len(buf[p]) + i > 2 => sock[p][i].m # "return"
        \/ Len(msgs[p]) > 1

\* The only answer that can come is that of the command.
Commanding(p) ==
  /\ toVm[p] = <<>> \/ toVm[p] = <<goal[p]>>
  /\ executed[p] \/ vm = "gone" \/ NoReturn(p)

Phase(p) ==
  /\ qpc[p] \in {"start", "connect"} => toVm[p] = <<>> /\ Nothing(p)
  /\ qpc[p] = "welcome" => Welcome(p)
  /\ qpc[p] = "caps" => Negotiating(p)
  /\ qpc[p] = "command" => Commanding(p)
  /\ qpc[p] = "save" => executed[p] \/ vm = "gone"

\* The inductive invariant of Qmp.
QInv ==
  /\ QTypeOK
  /\ \A p \in Procs : (qpc[p] # "aborted" => Framed(p)) /\ Phase(p)

\* What cc_oci_qmp_msg_recv finds: a portion goes over to the buffer, and the
\* other bytes stay where they are.
LEMMA Portion ==
  ASSUME NEW S, NEW b0 \in Seq(S), NEW s \in Seq(S), NEW k \in 1..Len(s)
  PROVE  LET b == b0 \o SubSeq(s, 1, k)
             r == SubSeq(s, k + 1, Len(s))
         IN /\ b \in Seq(S) /\ Len(b) = Len(b0) + k
            /\ \A i \in 1..Len(b) :
                  b[i] = IF i <= Len(b0) THEN b0[i] ELSE s[i - Len(b0)]
            /\ r \in Seq(S) /\ Len(r) = Len(s) - k
            /\ \A i \in 1..Len(r) : r[i] = s[k + i]
<1> DEFINE c == SubSeq(s, 1, k)
           b == b0 \o c
           r == SubSeq(s, k + 1, Len(s))
<1>1. c \in Seq(S) /\ Len(c) = k /\ \A i \in 1..k : c[i] = s[i]
  OBVIOUS
<1>2. r \in Seq(S) /\ Len(r) = Len(s) - k /\ \A i \in 1..Len(r) : r[i] = s[k + i]
  OBVIOUS
<1>3. b \in Seq(S) /\ Len(b) = Len(b0) + k
      /\ \A i \in 1..Len(b) : b[i] = IF i <= Len(b0) THEN b0[i] ELSE c[i - Len(b0)]
  <2> HIDE DEF c
  <2> QED  BY <1>1, SMTT(20)
<1>4. ASSUME NEW i \in 1..Len(b)
      PROVE  b[i] = IF i <= Len(b0) THEN b0[i] ELSE s[i - Len(b0)]
  <2> HIDE DEF b, c
  <2> QED  BY <1>1, <1>3
<1> QED  BY <1>2, <1>3, <1>4, Zenon

\* What the complete messages of a buffer are, and what is left of it.
LEMMA Parts ==
  ASSUME NEW b \in Seq(Units)
  PROVE  /\ Complete(b) \in Seq(Texts) /\ 2 * Len(Complete(b)) <= Len(b)
         /\ Len(b) <= 2 * Len(Complete(b)) + 1
         /\ \A i \in 1..Len(Complete(b)) : 2 * i \in 1..Len(b) /\ Complete(b)[i] = b[2 * i].m
         /\ Incomplete(b) \in Seq(Units)
         /\ Len(b) = 2 * Len(Complete(b)) => Incomplete(b) = <<>>
         /\ Len(b) # 2 * Len(Complete(b)) =>
               Len(Incomplete(b)) = 1 /\ Len(b) \in 1..Len(b) /\ Incomplete(b)[1] = b[Len(b)]
<1> DEFINE n == Len(b) \div 2
<1>0. Len(b) \in Nat
  OBVIOUS
<1>1. n \in Nat /\ 2 * n <= Len(b) /\ Len(b) <= 2 * n + 1
      /\ (Len(b) % 2 = 1 <=> Len(b) # 2 * n)
  BY <1>0
<1> HIDE DEF n
<1>2. \A i \in 1..n : 2 * i \in 1..Len(b) /\ b[2 * i].m \in Texts
  <2> SUFFICES ASSUME NEW i \in 1..n PROVE 2 * i \in 1..Len(b) /\ b[2 * i].m \in Texts
    BY Zenon
  <2>1. 2 * i \in 1..Len(b)
    BY <1>0, <1>1
  <2>2. b[2 * i] \in Units
    BY <2>1
  <2> QED  BY <2>1, <2>2, Zenon DEF Units
<1>3. Complete(b) = [i \in 1..n |-> b[2 * i].m]
  BY Zenon DEF Complete, n
<1>4. Complete(b) \in Seq(Texts) /\ Len(Complete(b)) = n
  BY <1>1, <1>2, <1>3
<1>5. \A i \in 1..n : Complete(b)[i] = b[2 * i].m
  BY <1>3, Zenon
<1>6. CASE Len(b) % 2 = 1
  <2>1. Len(b) \in 1..Len(b) /\ b[Len(b)] \in Units
    BY <1>0, <1>1, <1>6
  <2>2. Incomplete(b) = <<b[Len(b)]>>
    BY <1>6, Zenon DEF Incomplete
  <2> QED  BY <1>1, <1>2, <1>4, <1>5, <1>6, <2>1, <2>2
<1>7. CASE Len(b) % 2 # 1
  <2>1. Incomplete(b) = <<>>
    BY <1>7, Zenon DEF Incomplete
  <2> QED  BY <1>1, <1>2, <1>4, <1>5, <1>7, <2>1
<1> QED  BY <1>6, <1>7, Zenon

\* The part of the invariant that is about one process.
QOne(p) == (qpc[p] # "aborted" => Framed(p)) /\ Phase(p)

\* What a process has does not change: the hypervisor does not come back.
LEMMA QUnchanged ==
  ASSUME NEW q, QOne(q),
         goal'[q] = goal[q], qpc'[q] = qpc[q], toVm'[q] = toVm[q],
         sock'[q] = sock[q], buf'[q] = buf[q], msgs'[q] = msgs[q],
         executed'[q] = executed[q], vm = "gone" => vm' = "gone"
  PROVE  QOne(q)'
<1>1. (qpc[q] # "aborted" => Framed(q))'
  BY Zenon DEF QOne, Framed
<1>2. Nothing(q)' <=> Nothing(q)
  BY Zenon DEF Nothing
<1>3. NoReturn(q)' <=> NoReturn(q)
  BY Zenon DEF NoReturn
<1>4. Welcome(q)' <=> Welcome(q)
  BY Zenon DEF Welcome
<1>5. Negotiating(q)' <=> Negotiating(q)
  BY <1>2, Zenon DEF Negotiating
<1>6. Commanding(q) => Commanding(q)'
  BY <1>3, Zenon DEF Commanding
<1>7. Phase(q)'
  BY <1>2, <1>4, <1>5, <1>6, Zenon DEF QOne, Phase
<1> QED  BY <1>1, <1>7, Zenon DEF QOne

\* Initially no process has done anything.
LEMMA QInitially == QInit => QInv
<1> SUFFICES ASSUME QInit PROVE QInv
  BY Zenon
<1>1. QTypeOK
  BY DEF QInit, QTypeOK
<1>2. ASSUME NEW p \in Procs PROVE (qpc[p] # "aborted" => Framed(p)) /\ Phase(p)
  BY DEF QInit, Framed, Phase, Nothing
<1> QED  BY <1>1, <1>2, Zenon DEF QInv

\* A step of cc_oci_toggle before and after the conversation.
LEMMA QQuiet ==
  ASSUME QInv, NEW p \in Procs, Start(p) \/ ConnNew(p) \/ RecvEnd(p) \/ Save(p)
  PROVE  QInv'
<1>1. PICK l \in {"connect", "welcome", "save"} \cup Ends : Goto(p, l)
  BY Zenon DEF Start, ConnNew, RecvEnd, Save, Ends
<1>2. UNCHANGED <<vm, goal, toVm, sock, buf, msgs, executed>>
  BY Zenon DEF Start, ConnNew, RecvEnd, Save, vmVars, histVars
<1>3. qpc' = [qpc EXCEPT ![p] = l]
  BY <1>1, Zenon DEF Goto
<1>4. QTypeOK'
  BY <1>2, <1>3, Zenon DEF QInv, QTypeOK
<1>5. ASSUME NEW q \in Procs, q # p PROVE QOne(q)'
  <2>1. qpc'[q] = qpc[q] /\ QOne(q)
    BY <1>3, <1>5, Zenon DEF QInv, QTypeOK, QOne
  <2> QED  BY <1>2, <2>1, QUnchanged, Zenon
<1>6. QOne(p)'
  <2>1. QOne(p) /\ qpc'[p] = l
    BY <1>3, Zenon DEF QInv, QTypeOK, QOne
  <2>2. qpc[p] # "aborted"
    BY Zenon DEF Start, ConnNew, RecvEnd, Save
  <2>3. Framed(p)'
    BY <1>2, <2>1, <2>2, Zenon DEF QOne, Framed
  <2>4. qpc'[p] \in Ends \/ (qpc[p] = "start" /\ qpc'[p] = "connect")
        \/ (qpc[p] = "connect" /\ qpc'[p] = "welcome")
    BY <2>1, <1>3, Zenon DEF Start, ConnNew, RecvEnd, Save, Goto, Ends, QInv, QTypeOK
  <2>5. qpc[p] \in {"start", "connect"} => toVm'[p] = <<>> /\ Nothing(p)'
    BY <1>2, <2>1, Zenon DEF QOne, Phase, Nothing
  <2>6. Nothing(p)' /\ toVm'[p] = <<>> => Welcome(p)'
    BY DEF Nothing, Welcome
  <2>7. Phase(p)'
    BY <2>4, <2>5, <2>6, Zenon DEF Phase, Ends
  <2> QED  BY <2>3, <2>7, Zenon DEF QOne
<1> QED  BY <1>4, <1>5, <1>6, Zenon DEF QInv, QOne

\* A message is its text and its separator.
LEMMA MessageUnits ==
  ASSUME NEW m \in Texts
  PROVE  /\ QmpMessage(m) \in Seq(Units) /\ Len(QmpMessage(m)) = 2
         /\ \A i \in 1..2 : QmpMessage(m)[i].m = m /\ (QmpMessage(m)[i].end <=> i % 2 = 0)
<1>1. [m |-> m, end |-> FALSE] \in Units /\ [m |-> m, end |-> TRUE] \in Units
  BY Zenon DEF Units
<1>2. QmpMessage(m) \in Seq(Units) /\ Len(QmpMessage(m)) = 2
      /\ QmpMessage(m)[1] = [m |-> m, end |-> FALSE] /\ QmpMessage(m)[2] = [m |-> m, end |-> TRUE]
  BY <1>1 DEF QmpMessage
<1>3. ASSUME NEW i \in 1..2
      PROVE  QmpMessage(m)[i].m = m /\ (QmpMessage(m)[i].end <=> i % 2 = 0)
  <2>1. i = 1 \/ i = 2
    OBVIOUS
  <2>2. 1 % 2 = 1 /\ 2 % 2 = 0
    OBVIOUS
  <2>3. CASE i = 1
    BY <1>2, <2>2, <2>3
  <2>4. CASE i = 2
    BY <1>2, <2>2, <2>4
  <2> QED  BY <2>1, <2>3, <2>4, Zenon
<1> QED  BY <1>2, <1>3, Zenon

\* Two messages in a row.
LEMMA TwoMessages ==
  ASSUME NEW m \in Texts, NEW n \in Texts
  PROVE  LET t == QmpMessage(m) \o QmpMessage(n)
         IN /\ t \in Seq(Units) /\ Len(t) = 4
            /\ \A i \in 1..4 : t[i].end <=> i % 2 = 0
<1> DEFINE a == QmpMessage(m)  b == QmpMessage(n)  t == a \o b
<1>1. a \in Seq(Units) /\ Len(a) = 2 /\ (\A i \in 1..2 : a[i].end <=> i % 2 = 0)
      /\ b \in Seq(Units) /\ Len(b) = 2 /\ (\A i \in 1..2 : b[i].end <=> i % 2 = 0)
  BY MessageUnits, Zenon
<1> HIDE DEF a, b
<1>0. a \in Seq(Units) /\ Len(a) = 2 /\ b \in Seq(Units) /\ Len(b) = 2
  BY <1>1, Zenon
<1>2. t \in Seq(Units) /\ Len(t) = 4 /\ t[1] = a[1] /\ t[2] = a[2] /\ t[3] = b[1] /\ t[4] = b[2]
  <2>1. t \in Seq(Units) /\ Len(t) = Len(a) + Len(b)
    BY <1>0, ConcatProperties, Zenon
  <2>2. \A i \in 1..Len(a) + Len(b) : t[i] = IF i <= Len(a) THEN a[i] ELSE b[i - Len(a)]
    BY <1>0, ConcatProperties, Zenon
  <2> HIDE DEF t
  <2>3. \A i \in 1..4 : t[i] = IF i <= 2 THEN a[i] ELSE b[i - 2]
    BY <1>0, <2>2
  <2> QED  BY <1>0, <2>1, <2>3
<1> HIDE DEF t
<1>3. \A i \in 1..4 : i = 1 \/ i = 2 \/ i = 3 \/ i = 4
  OBVIOUS
<1>4. 1 \in 1..2 /\ 2 \in 1..2 /\ 1 % 2 # 0 /\ 2 % 2 = 0 /\ 3 % 2 # 0 /\ 4 % 2 = 0
  OBVIOUS
<1>5. ASSUME NEW i \in 1..4 PROVE t[i].end <=> i % 2 = 0
  BY <1>1, <1>2, <1>3, <1>4, Zenon
<1> QED  BY <1>2, <1>5, Zenon DEF a, b, t

\* An even number does not change the parity of a sum.
LEMMA Parity ==
  ASSUME NEW x \in Nat, NEW y \in Nat, x % 2 = 0
  PROVE  (x + y) % 2 = 0 <=> y % 2 = 0
OBVIOUS

\* The monitor sends to a process: it follows what is there.
LEMMA Sending ==
  ASSUME QTypeOK, NEW p \in Procs, NEW t \in Seq(Units), Sends(p, t)
  PROVE  /\ sock' \in [Procs -> Seq(Units)]
         /\ Len(sock[p]) \in Nat /\ Len(t) \in Nat
         /\ Len(sock'[p]) = Len(sock[p]) + Len(t)
         /\ \A i \in 1..Len(sock[p]) : sock'[p][i] = sock[p][i]
         /\ \A i \in 1..Len(t) : sock'[p][Len(sock[p]) + i] = t[i]
         /\ \A q \in Procs : q # p => sock'[q] = sock[q]
<1> DEFINE s == sock[p]
<1>1. s \in Seq(Units) /\ sock \in [Procs -> Seq(Units)]
  BY Zenon DEF QTypeOK
<1>2. sock'[p] = s \o t /\ (\A q \in Procs : q # p => sock'[q] = sock[q])
      /\ sock' \in [Procs -> Seq(Units)]
  BY <1>1 DEF Sends
<1> HIDE DEF s
<1> QED  BY <1>1, <1>2 DEF s

\* Whole messages keep the stream framed.
LEMMA SendingFramed ==
  ASSUME QTypeOK, NEW p \in Procs, Framed(p), NEW t \in Seq(Units), Len(t) % 2 = 0,
         \A i \in 1..Len(t) : t[i].end <=> i % 2 = 0,
         Sends(p, t), buf' = buf
  PROVE  Framed(p)'
<1> DEFINE s == sock[p]  n == Len(buf[p])  s2 == sock'[p]
<1>1. n \in Nat
  BY DEF QTypeOK
<1>4. /\ n <= 1 /\ (\A i \in 1..n : ~buf'[p][i].end) /\ Len(buf'[p]) = n
      /\ (\A i \in 1..Len(s) : s[i].end <=> (n + i) % 2 = 0) /\ (n + Len(s)) % 2 = 0
  BY Zenon DEF Framed
<1>5. /\ Len(s2) = Len(s) + Len(t) /\ Len(s) \in Nat /\ Len(t) \in Nat
      /\ \A i \in 1..Len(s) : s2[i] = s[i]
      /\ \A i \in 1..Len(t) : s2[Len(s) + i] = t[i]
  BY Sending, Zenon
<1> HIDE DEF s, n, s2
<1>6. ASSUME NEW i \in 1..Len(s2) PROVE s2[i].end <=> (n + i) % 2 = 0
  <2>1. CASE i <= Len(s)
    <3>1. i \in 1..Len(s)
      BY <1>5, <2>1
    <3> QED  BY <1>4, <1>5, <3>1, Zenon
  <2>2. CASE ~(i <= Len(s))
    <3> DEFINE j == i - Len(s)
    <3>1. j \in 1..Len(t) /\ i = Len(s) + j
      BY <1>5, <2>2
    <3> HIDE DEF j
    <3>2. s2[i] = t[j] /\ (t[j].end <=> j % 2 = 0)
      BY <1>5, <3>1, Zenon
    <3>3. (n + i) % 2 = 0 <=> j % 2 = 0
      <4>1. n + i = (n + Len(s)) + j /\ n + Len(s) \in Nat /\ j \in Nat
        BY <1>1, <1>5, <3>1
      <4> QED  BY <1>4, <4>1, Parity, ZenonT(20)
    <3> QED  BY <3>2, <3>3, Zenon
  <2> QED  BY <2>1, <2>2, Zenon
<1>7. (n + Len(s2)) % 2 = 0
  <2>1. n + Len(s2) = (n + Len(s)) + Len(t) /\ n + Len(s) \in Nat
    BY <1>1, <1>5
  <2>2. Len(t) \in Nat /\ (n + Len(s)) % 2 = 0 /\ Len(t) % 2 = 0
    BY <1>1, <1>4
  <2> QED  BY <2>1, <2>2, Parity, Zenon
<1> QED  BY <1>4, <1>6, <1>7, Zenon DEF Framed, s2

\* The greeting is sent to a process that has got nothing.
LEMMA QGreet ==
  ASSUME QInv, NEW p \in Procs, Greet(p)
  PROVE  QInv'
<1> DEFINE t == QmpMessage("greeting")
<1>0. QTypeOK /\ QOne(p) /\ qpc[p] = "welcome" /\ sock[p] = <<>> /\ buf[p] = <<>>
      /\ Sends(p, t) /\ UNCHANGED <<vm, goal, qpc, toVm, buf, msgs, executed>>
  BY Zenon DEF QInv, QOne, Greet, vmVars, histVars
<1>1. t \in Seq(Units) /\ Len(t) = 2 /\ Len(t) % 2 = 0
      /\ \A i \in 1..Len(t) : t[i].end <=> i % 2 = 0
  <2>1. "greeting" \in Texts
    BY Zenon DEF Texts
  <2>2. 2 % 2 = 0
    OBVIOUS
  <2> QED  BY <2>1, <2>2, MessageUnits, Zenon
<1> HIDE DEF t
<1>2. sock' \in [Procs -> Seq(Units)] /\ Len(sock'[p]) = Len(sock[p]) + Len(t)
      /\ \A q \in Procs : q # p => sock'[q] = sock[q]
  BY <1>0, <1>1, Sending, Zenon
<1>3. QTypeOK'
  BY <1>0, <1>2, Zenon DEF QTypeOK
<1>4. ASSUME NEW q \in Procs, q # p PROVE QOne(q)'
  BY <1>0, <1>2, <1>4, QUnchanged, Zenon DEF QInv, QOne
<1>5. Framed(p)'
  BY <1>0, <1>1, SendingFramed, Zenon DEF QOne
<1>6. Welcome(p)'
  BY <1>0, <1>1, <1>2 DEF QOne, Phase, Welcome
<1>7. QOne(p)'
  BY <1>0, <1>5, <1>6, Zenon DEF QOne, Phase
<1> QED  BY <1>3, <1>4, <1>7, Zenon DEF QInv, QOne

\* An event is no answer.
LEMMA QEvent ==
  ASSUME QInv, NEW p \in Procs, Event(p)
  PROVE  QInv'
<1> DEFINE t == QmpMessage("event")
<1>0. QTypeOK /\ QOne(p) /\ qpc[p] \in {"caps", "command"} /\ toVm[p] # <<"caps">>
      /\ Sends(p, t) /\ UNCHANGED <<vm, goal, qpc, toVm, buf, msgs, executed>>
  BY Zenon DEF QInv, QOne, Event, vmVars, histVars
<1>1. t \in Seq(Units) /\ Len(t) = 2 /\ Len(t) % 2 = 0
      /\ \A i \in 1..Len(t) : t[i].m # "return" /\ (t[i].end <=> i % 2 = 0)
  <2>1. "event" \in Texts /\ "event" # "return"
    BY Zenon DEF Texts
  <2>2. 2 % 2 = 0
    OBVIOUS
  <2> QED  BY <2>1, <2>2, MessageUnits, ZenonT(20)
<1> HIDE DEF t
<1>2. sock' \in [Procs -> Seq(Units)] /\ Len(sock'[p]) = Len(sock[p]) + Len(t)
      /\ Len(sock[p]) \in Nat
      /\ (\A i \in 1..Len(sock[p]) : sock'[p][i] = sock[p][i])
      /\ (\A i \in 1..Len(t) : sock'[p][Len(sock[p]) + i] = t[i])
      /\ \A q \in Procs : q # p => sock'[q] = sock[q]
  BY <1>0, <1>1, Sending, Zenon
<1>3. QTypeOK'
  BY <1>0, <1>2, Zenon DEF QTypeOK
<1>4. ASSUME NEW q \in Procs, q # p PROVE QOne(q)'
  BY <1>0, <1>2, <1>4, QUnchanged, Zenon DEF QInv, QOne
<1>5. Framed(p)'
  BY <1>0, <1>1, SendingFramed, Zenon DEF QOne
<1>6. ASSUME NEW i \in 1..Len(sock'[p])
      PROVE  sock'[p][i].m # "return" \/ (i \in 1..Len(sock[p]) /\ sock'[p][i] = sock[p][i])
  <2>1. CASE i <= Len(sock[p])
    BY <1>2, <2>1
  <2>2. CASE ~(i <= Len(sock[p]))
    <3>1. PICK j \in 1..Len(t) : i = Len(sock[p]) + j
      <4> DEFINE n == Len(sock[p])  m == Len(sock'[p])  k == Len(t)
      <4>1. n \in Nat /\ m = n + k /\ k = 2 /\ i \in 1..m /\ ~(i <= n)
        BY <1>1, <1>2, <2>2
      <4> HIDE DEF n, m, k
      <4>2. i - n \in 1..k /\ i = n + (i - n)
        BY <4>1
      <4> QED  BY <4>2, Zenon DEF n, k
    <3>2. sock'[p][i] = t[j]
      BY <1>2, <3>1, Zenon
    <3> QED  BY <1>1, <3>1, <3>2, Zenon
  <2> QED  BY <2>1, <2>2, Zenon
<1>7. qpc[p] = "caps" => Negotiating(p)'
  BY <1>0, <1>6, Zenon DEF QOne, Phase, Negotiating
<1>8. qpc[p] = "command" => Commanding(p)'
  BY <1>0, <1>6, Zenon DEF QOne, Phase, Commanding, NoReturn
<1>9. QOne(p)'
  BY <1>0, <1>5, <1>7, <1>8, Zenon DEF QOne, Phase
<1> QED  BY <1>3, <1>4, <1>9, Zenon DEF QInv, QOne

\* The end of the hypervisor changes nothing of what a process has.
LEMMA QExits == ASSUME QInv, VmExits PROVE QInv'
<1>1. UNCHANGED <<goal, qpc, toVm, sock, buf, msgs, executed>> /\ vm' = "gone"
  BY Zenon DEF VmExits, histVars
<1>2. QTypeOK'
  BY <1>1, Zenon DEF QInv, QTypeOK
<1>3. ASSUME NEW q \in Procs PROVE QOne(q)'
  BY <1>1, QUnchanged, Zenon DEF QInv, QOne
<1> QED  BY <1>2, <1>3, Zenon DEF QInv, QOne

\* The answer to qmp_capabilities comes when nothing else is on its way; a stop or
\* cont is executed.
LEMMA QExecute ==
  ASSUME QInv, NEW p \in Procs, Execute(p)
  PROVE  QInv'
<1> DEFINE m == Head(toVm[p])
           changes == m # "caps" /\ m # vm
           t == (IF changes THEN QmpMessage("event") ELSE <<>>) \o QmpMessage("return")
<1>0. QTypeOK /\ QOne(p) /\ toVm[p] # <<>> /\ vm # "gone" /\ toVm' = [toVm EXCEPT ![p] = Tail(@)]
      /\ Sends(p, t) /\ vm' = (IF changes THEN m ELSE vm)
      /\ executed' = [executed EXCEPT ![p] = @ \/ m # "caps"]
      /\ UNCHANGED <<goal, qpc, buf, msgs>>
  BY Zenon DEF QInv, QOne, Execute, First
<1>1. t \in Seq(Units) /\ Len(t) % 2 = 0 /\ (\A i \in 1..Len(t) : t[i].end <=> i % 2 = 0)
      /\ (~changes => Len(t) = 2)
  <2>0. 2 % 2 = 0 /\ 4 % 2 = 0
    OBVIOUS
  <2>1. "event" \in Texts /\ "return" \in Texts
    BY Zenon DEF Texts
  <2>2. CASE changes
    <3>1. t = QmpMessage("event") \o QmpMessage("return")
      BY <2>2, Zenon
    <3> QED  BY <2>0, <2>1, <2>2, <3>1, TwoMessages, Zenon
  <2>3. CASE ~changes
    <3> DEFINE r == QmpMessage("return")
    <3>1. r \in Seq(Units) /\ Len(r) = 2 /\ (\A i \in 1..2 : r[i].end <=> i % 2 = 0)
      BY <2>1, MessageUnits, Zenon
    <3>2. t = <<>> \o r
      BY <2>3, ZenonT(20)
    <3> HIDE DEF r
    <3>3. <<>> \o r = r
      BY <3>1, ConcatEmptySeq, Zenon
    <3> QED  BY <2>0, <3>1, <3>2, <3>3, Zenon
  <2> QED  BY <2>2, <2>3, Zenon
<1>2. toVm' \in [Procs -> Seq({"caps", "paused", "running"})] /\ toVm'[p] = Tail(toVm[p])
      /\ \A q \in Procs : q # p => toVm'[q] = toVm[q]
  BY <1>0 DEF QTypeOK
<1>3. executed' \in [Procs -> BOOLEAN] /\ executed'[p] = (executed[p] \/ m # "caps")
      /\ \A q \in Procs : q # p => executed'[q] = executed[q]
  <2> DEFINE e == executed[p] \/ m # "caps"
  <2>1. executed' = [executed EXCEPT ![p] = e] /\ e \in BOOLEAN
    BY <1>0, Zenon
  <2> HIDE DEF e
  <2>2. executed \in [Procs -> BOOLEAN]
    BY <1>0, Zenon DEF QTypeOK
  <2>3. executed' \in [Procs -> BOOLEAN] /\ executed'[p] = e
        /\ \A q \in Procs : q # p => executed'[q] = executed[q]
    BY <2>1, <2>2, Zenon
  <2> QED  BY <2>3, Zenon DEF e
<1>4. vm = "gone" => vm' = "gone"
  BY <1>0, Zenon
<1> HIDE DEF t, m, changes
<1>5. sock' \in [Procs -> Seq(Units)] /\ Len(sock'[p]) = Len(sock[p]) + Len(t)
      /\ \A q \in Procs : q # p => sock'[q] = sock[q]
  BY <1>0, <1>1, Sending, Zenon
<1>6. QTypeOK'
  BY <1>0, <1>2, <1>3, <1>5, Zenon DEF QTypeOK
<1>7. ASSUME NEW q \in Procs, q # p PROVE QOne(q)'
  BY <1>0, <1>2, <1>3, <1>4, <1>5, <1>7, QUnchanged, Zenon DEF QInv, QOne
<1>8. qpc[p] # "aborted" => Framed(p)'
  BY <1>0, <1>1, SendingFramed, Zenon DEF QOne
<1>9. qpc[p] \notin {"start", "connect", "welcome"}
  BY <1>0, ZenonT(20) DEF QOne, Phase, Welcome
<1>10. qpc[p] = "caps" => Negotiating(p)'
  <2> SUFFICES ASSUME qpc[p] = "caps" PROVE Negotiating(p)'
    BY Zenon
  <2>1. toVm[p] = <<"caps">> /\ Nothing(p)
    BY <1>0, Zenon DEF QOne, Phase, Negotiating
  <2>2. m = "caps" /\ ~changes /\ toVm'[p] = <<>>
    BY <2>1, <1>2 DEF m, changes
  <2>3. Len(sock'[p]) = 2 /\ buf'[p] = <<>> /\ msgs'[p] = <<>> /\ Len(buf'[p]) = 0
    BY <1>0, <1>1, <1>5, <2>1, <2>2 DEF Nothing
  <2>4. \A i \in 1..2 : ~(0 + i > 2)
    OBVIOUS
  <2> QED  BY <2>2, <2>3, <2>4, Zenon DEF Negotiating
<1>11. qpc[p] = "command" => Commanding(p)'
  <2> SUFFICES ASSUME qpc[p] = "command" PROVE Commanding(p)'
    BY Zenon
  <2>1. toVm[p] = <<goal[p]>> /\ goal[p] # "caps"
    BY <1>0, Zenon DEF QOne, Phase, Commanding, QTypeOK
  <2>2. m # "caps" /\ toVm'[p] = <<>>
    BY <2>1, <1>2 DEF m
  <2> QED  BY <2>2, <1>3, Zenon DEF Commanding
<1>12. QOne(p)'
  BY <1>0, <1>3, <1>8, <1>9, <1>10, <1>11, Zenon DEF QOne, Phase
<1> QED  BY <1>6, <1>7, <1>12, Zenon DEF QInv, QOne

\* The buffer after a portion of k units, the messages that have been taken from
\* the stream then, and what is left of it.
Filled(p, k) == buf[p] \o SubSeq(sock[p], 1, k)
Taken(p, k) == msgs[p] \o Complete(Filled(p, k))
Left(p, k) == Incomplete(Filled(p, k))
Rest(p, k) == SubSeq(sock[p], k + 1, Len(sock[p]))

\* The arithmetic of a portion: c messages are complete.
LEMMA Received ==
  ASSUME QTypeOK, NEW p \in Procs, NEW k \in 1..Len(sock[p])
  PROVE  /\ Len(buf[p]) \in Nat /\ Len(msgs[p]) \in Nat /\ Len(sock[p]) \in Nat
         /\ \E c \in Nat :
              /\ Taken(p, k) \in Seq(Texts) /\ Len(Taken(p, k)) = Len(msgs[p]) + c
              /\ Left(p, k) \in Seq(Units) /\ Len(Left(p, k)) \in {0, 1}
              /\ Len(buf[p]) + k = 2 * c + Len(Left(p, k))
         /\ Len(Left(p, k)) = 0 <=> Left(p, k) = <<>>
         /\ Len(Left(p, k)) = 1 => Left(p, k)[1] = sock[p][k]
         /\ Rest(p, k) \in Seq(Units) /\ Len(Rest(p, k)) = Len(sock[p]) - k
         /\ \A i \in 1..Len(Rest(p, k)) : k + i \in 1..Len(sock[p]) /\ Rest(p, k)[i] = sock[p][k + i]
<1> DEFINE b0 == buf[p]  s == sock[p]  ms == msgs[p]
           b == Filled(p, k)  c == Len(Complete(b))  l == Left(p, k)  r == Rest(p, k)
<1>1. b0 \in Seq(Units) /\ s \in Seq(Units) /\ ms \in Seq(Texts)
  BY Zenon DEF QTypeOK
<1>2. k \in 1..Len(s)
  BY Zenon
<1>3. /\ b \in Seq(Units) /\ Len(b) = Len(b0) + k
      /\ \A i \in 1..Len(b) : b[i] = IF i <= Len(b0) THEN b0[i] ELSE s[i - Len(b0)]
      /\ r \in Seq(Units) /\ Len(r) = Len(s) - k
      /\ \A i \in 1..Len(r) : r[i] = s[k + i]
  <2> HIDE DEF b0, s
  <2>1. b = b0 \o SubSeq(s, 1, k) /\ r = SubSeq(s, k + 1, Len(s))
    BY Zenon DEF Filled, Rest, b0, s
  <2>2. LET bb == b0 \o SubSeq(s, 1, k)
            rr == SubSeq(s, k + 1, Len(s))
        IN /\ bb \in Seq(Units) /\ Len(bb) = Len(b0) + k
           /\ \A i \in 1..Len(bb) : bb[i] = IF i <= Len(b0) THEN b0[i] ELSE s[i - Len(b0)]
           /\ rr \in Seq(Units) /\ Len(rr) = Len(s) - k
           /\ \A i \in 1..Len(rr) : rr[i] = s[k + i]
    BY <1>1, <1>2, Portion
  <2> QED  BY <2>1, <2>2, Zenon
<1> HIDE DEF b
<1>4. /\ Complete(b) \in Seq(Texts) /\ 2 * c <= Len(b) /\ Len(b) <= 2 * c + 1
      /\ l \in Seq(Units)
      /\ Len(b) = 2 * c => l = <<>>
      /\ Len(b) # 2 * c => Len(l) = 1 /\ Len(b) \in 1..Len(b) /\ l[1] = b[Len(b)]
  BY <1>3, Parts, Zenon DEF Left, b
<1>5. /\ c \in Nat /\ Taken(p, k) = ms \o Complete(b)
      /\ Len(b0) \in Nat /\ Len(s) \in Nat /\ Len(ms) \in Nat
  BY <1>1, <1>4, SMTT(20) DEF Taken, b
<1> DEFINE cb == Complete(b)
<1>6. ms \o cb \in Seq(Texts) /\ Len(ms \o cb) = Len(ms) + c
  <2>1. cb \in Seq(Texts) /\ c = Len(cb)
    BY <1>4, Zenon
  <2> HIDE DEF cb, ms, c
  <2> QED  BY <1>1, <2>1, ConcatProperties, Zenon
<1> HIDE DEF b0, s, ms, c, l, r
<1>7. Len(l) \in {0, 1} /\ Len(b0) + k = 2 * c + Len(l) /\ (Len(l) = 0 <=> l = <<>>)
  <2>0. Len(b) = Len(b0) + k /\ Len(b0) \in Nat /\ c \in Nat /\ k \in Nat
        /\ 2 * c <= Len(b) /\ Len(b) <= 2 * c + 1
    BY <1>3, <1>4, <1>5
  <2>1. CASE Len(b) = 2 * c
    <3>1. l = <<>>
      BY <1>4, <2>1, Zenon
    <3> QED  BY <2>0, <2>1, <3>1
  <2>2. CASE Len(b) # 2 * c
    <3>1. Len(l) = 1
      BY <1>4, <2>2, Zenon
    <3>2. l # <<>>
      BY <3>1
    <3>3. Len(b0) + k = 2 * c + 1
      BY <2>0, <2>2
    <3> QED  BY <3>1, <3>2, <3>3
  <2> QED  BY <2>1, <2>2, Zenon
<1>8. Len(l) = 1 => l[1] = s[k]
  <2> SUFFICES ASSUME Len(l) = 1 PROVE l[1] = s[k]
    BY Zenon
  <2>1. Len(b) \in 1..Len(b) /\ l[1] = b[Len(b)]
    BY <1>2, <1>3, <1>4, <1>5, <1>7
  <2>2. ~(Len(b) <= Len(b0)) /\ Len(b) - Len(b0) = k
    BY <1>2, <1>3, <1>5
  <2> QED  BY <1>3, <2>1, <2>2, Zenon
<1>9. \A i \in 1..Len(r) : k + i \in 1..Len(s) /\ r[i] = s[k + i]
  BY <1>2, <1>3, <1>5
<1> QED
  <2>1. Len(b0) \in Nat /\ Len(ms) \in Nat /\ Len(s) \in Nat
    BY <1>5, Zenon
  <2>2. /\ Taken(p, k) \in Seq(Texts) /\ Len(Taken(p, k)) = Len(ms) + c
        /\ l \in Seq(Units) /\ Len(l) \in {0, 1}
        /\ Len(b0) + k = 2 * c + Len(l)
    BY <1>4, <1>5, <1>6, <1>7, Zenon DEF cb
  <2>3. (Len(l) = 0 <=> l = <<>>) /\ (Len(l) = 1 => l[1] = s[k])
        /\ r \in Seq(Units) /\ Len(r) = Len(s) - k
        /\ \A i \in 1..Len(r) : k + i \in 1..Len(s) /\ r[i] = s[k + i]
    BY <1>3, <1>7, <1>8, <1>9, Zenon
  <2> QED  BY <1>5, <2>1, <2>2, <2>3, Zenon DEF b0, ms, s, l, r

\* What has been taken and what is left contains an answer only if the stream did.
LEMMA ReceivedNoReturn ==
  ASSUME QTypeOK, NEW p \in Procs, NEW k \in 1..Len(sock[p]), NoReturn(p)
  PROVE  /\ \A i \in 1..Len(Taken(p, k)) : Taken(p, k)[i] # "return"
         /\ \A i \in 1..Len(Left(p, k)) : Left(p, k)[i].m # "return"
         /\ \A i \in 1..Len(Rest(p, k)) : Rest(p, k)[i].m # "return"
<1> DEFINE b0 == buf[p]  s == sock[p]  ms == msgs[p]  b == Filled(p, k)  cb == Complete(b)
<1>1. b0 \in Seq(Units) /\ s \in Seq(Units) /\ ms \in Seq(Texts)
  BY Zenon DEF QTypeOK
<1>2. k \in 1..Len(s)
  BY Zenon
<1>3. /\ \A i \in 1..Len(ms) : ms[i] # "return"
      /\ \A i \in 1..Len(b0) : b0[i].m # "return"
      /\ \A i \in 1..Len(s) : s[i].m # "return"
  BY Zenon DEF NoReturn
<1>4. /\ b \in Seq(Units) /\ Len(b) = Len(b0) + k
      /\ \A i \in 1..Len(b) : b[i] = IF i <= Len(b0) THEN b0[i] ELSE s[i - Len(b0)]
  <2> HIDE DEF b0, s
  <2>1. b = b0 \o SubSeq(s, 1, k)
    BY Zenon DEF Filled, b0, s
  <2> QED  BY <1>1, <1>2, <2>1, Portion
<1> HIDE DEF b, b0, s, ms
<1>5. \A i \in 1..Len(b) : b[i].m # "return"
  <2> SUFFICES ASSUME NEW i \in 1..Len(b) PROVE b[i].m # "return"
    BY Zenon
  <2>0. Len(b0) \in Nat /\ Len(s) \in Nat
    BY <1>1
  <2>1. CASE i <= Len(b0)
    <3>1. i \in 1..Len(b0)
      BY <2>0, <2>1
    <3> QED  BY <1>3, <1>4, <2>1, <3>1, Zenon
  <2>2. CASE ~(i <= Len(b0))
    <3>1. i - Len(b0) \in 1..Len(s)
      BY <2>0, <2>2, <1>2, <1>4
    <3> QED  BY <1>3, <1>4, <2>2, <3>1, Zenon
  <2> QED  BY <2>1, <2>2, Zenon
<1>6. cb \in Seq(Texts) /\ \A i \in 1..Len(cb) : 2 * i \in 1..Len(b) /\ cb[i] = b[2 * i].m
  BY <1>4, Parts, Zenon
<1>7. Taken(p, k) = ms \o cb
  BY Zenon DEF Taken, b, ms
<1>8. \A i \in 1..Len(ms \o cb) : (ms \o cb)[i] # "return"
  <2> HIDE DEF cb
  <2>0. Len(ms) \in Nat /\ Len(cb) \in Nat
    BY <1>1, <1>6
  <2>1. Len(ms \o cb) = Len(ms) + Len(cb)
        /\ \A i \in 1..Len(ms) + Len(cb) :
              (ms \o cb)[i] = IF i <= Len(ms) THEN ms[i] ELSE cb[i - Len(ms)]
    BY <1>1, <1>6, ConcatProperties, Zenon
  <2> SUFFICES ASSUME NEW i \in 1..Len(ms) + Len(cb) PROVE (ms \o cb)[i] # "return"
    BY <2>1, Zenon
  <2>2. CASE i <= Len(ms)
    <3>1. i \in 1..Len(ms) /\ (ms \o cb)[i] = ms[i]
      BY <2>0, <2>1, <2>2
    <3> QED  BY <1>3, <3>1, Zenon
  <2>3. CASE ~(i <= Len(ms))
    <3>1. i - Len(ms) \in 1..Len(cb) /\ (ms \o cb)[i] = cb[i - Len(ms)]
      BY <2>0, <2>1, <2>3
    <3> QED  BY <1>5, <1>6, <3>1, Zenon
  <2> QED  BY <2>2, <2>3, Zenon
<1>9. /\ \A i \in 1..Len(Left(p, k)) : Left(p, k)[i].m # "return"
      /\ \A i \in 1..Len(Rest(p, k)) : Rest(p, k)[i].m # "return"
  <2>1. /\ Len(Left(p, k)) \in {0, 1}
        /\ Len(Left(p, k)) = 1 => Left(p, k)[1] = s[k]
        /\ \A i \in 1..Len(Rest(p, k)) : k + i \in 1..Len(s) /\ Rest(p, k)[i] = s[k + i]
    <3>1. k \in 1..Len(sock[p])
      BY Zenon
    <3>2. \E c \in Nat : Len(Left(p, k)) \in {0, 1}
      BY <3>1, Received, Zenon
    <3> QED  BY <3>1, <3>2, Received, Zenon DEF s
  <2>2. \A i \in 1..Len(Left(p, k)) : i = 1 /\ Len(Left(p, k)) = 1
    <3> DEFINE nl == Len(Left(p, k))
    <3>1. nl \in {0, 1}
      BY <2>1, Zenon
    <3> HIDE DEF nl
    <3>2. \A i \in 1..nl : i = 1 /\ nl = 1
      BY <3>1
    <3> QED  BY <3>2, Zenon DEF nl
  <2> QED  BY <1>2, <1>3, <2>1, <2>2, Zenon
<1> QED  BY <1>7, <1>8, <1>9, Zenon

\* A portion leaves the stream framed.
LEMMA ReceivedFramed ==
  ASSUME QTypeOK, NEW p \in Procs, NEW k \in 1..Len(sock[p]), Framed(p),
         sock'[p] = Rest(p, k), buf'[p] = Left(p, k)
  PROVE  Framed(p)'
<1> DEFINE n == Len(buf[p])  s == sock[p]  l == Left(p, k)  nl == Len(l)  r == Rest(p, k)
<1>1. n \in Nat /\ Len(s) \in Nat
      /\ (\E c \in Nat : nl \in {0, 1} /\ n + k = 2 * c + nl)
      /\ (nl = 1 => l[1] = s[k]) /\ Len(r) = Len(s) - k
      /\ \A i \in 1..Len(r) : k + i \in 1..Len(s) /\ r[i] = s[k + i]
  BY Received, Zenon
<1>2. PICK c \in Nat : nl \in {0, 1} /\ n + k = 2 * c + nl
  BY <1>1, Zenon
<1>3. /\ \A i \in 1..Len(s) : s[i].end <=> (n + i) % 2 = 0
      /\ (n + Len(s)) % 2 = 0 /\ k \in 1..Len(s)
  BY Zenon DEF Framed
<1>4. (2 * c) % 2 = 0 /\ 2 * c \in Nat
  OBVIOUS
<1> HIDE DEF n, s, l, nl, r
<1>5. \A i \in 1..nl : ~l[i].end
  <2> SUFFICES ASSUME NEW i \in 1..nl PROVE ~l[i].end
    BY Zenon
  <2>1. i = 1 /\ nl = 1
    BY <1>2
  <2>2. n + k = 2 * c + 1 /\ ~(1 % 2 = 0)
    BY <1>2, <2>1
  <2>3. ~((n + k) % 2 = 0)
    BY <1>4, <2>2, Parity, Zenon
  <2> QED  BY <1>1, <1>3, <2>1, <2>3, Zenon
<1>6. \A i \in 1..Len(r) : r[i].end <=> (nl + i) % 2 = 0
  <2> SUFFICES ASSUME NEW i \in 1..Len(r) PROVE r[i].end <=> (nl + i) % 2 = 0
    BY Zenon
  <2>1. n + (k + i) = 2 * c + (nl + i) /\ nl + i \in Nat
    <3>1. n + k = 2 * c + nl /\ n \in Nat /\ nl \in Nat /\ c \in Nat /\ k \in Nat /\ i \in Nat
      BY <1>1, <1>2
    <3> QED  BY <3>1
  <2>2. (n + (k + i)) % 2 = 0 <=> (nl + i) % 2 = 0
    BY <1>4, <2>1, Parity
  <2> QED  BY <1>1, <1>3, <2>2, Zenon
<1>7. (nl + Len(r)) % 2 = 0
  <2>1. n + Len(s) = 2 * c + (nl + Len(r)) /\ nl + Len(r) \in Nat
    <3>1. n + k = 2 * c + nl /\ n \in Nat /\ nl \in Nat /\ c \in Nat
          /\ k \in 1..Len(s) /\ Len(s) \in Nat /\ Len(r) = Len(s) - k
      BY <1>1, <1>2, <1>3
    <3> QED  BY <3>1
  <2> QED  BY <1>3, <1>4, <2>1, Parity, Zenon
<1>8. nl <= 1
  BY <1>2
<1> QED  BY <1>5, <1>6, <1>7, <1>8, Zenon DEF Framed, nl, l, r

\* The loop of cc_oci_qmp_msg_recv goes on.
LEMMA QGoesOn ==
  ASSUME QInv, NEW p \in Procs, NEW k \in 1..Len(sock[p]),
         qpc[p] \in {"welcome", "caps", "command"},
         sock' = [sock EXCEPT ![p] = Rest(p, k)],
         Len(Taken(p, k)) # Expected(p),
         buf' = [buf EXCEPT ![p] = Left(p, k)],
         msgs' = [msgs EXCEPT ![p] = Taken(p, k)],
         UNCHANGED <<vm, goal, qpc, toVm, executed>>
  PROVE  QInv'
<1> DEFINE n == Len(buf[p])  s == sock[p]  l == Left(p, k)  nl == Len(l)  r == Rest(p, k)
           ms == msgs[p]  t == Taken(p, k)
<1>0. QTypeOK /\ QOne(p)
  BY Zenon DEF QInv, QOne
<1>1. n \in Nat /\ Len(s) \in Nat /\ Len(ms) \in Nat
      /\ (\E c \in Nat : t \in Seq(Texts) /\ Len(t) = Len(ms) + c /\ l \in Seq(Units)
                         /\ nl \in {0, 1} /\ n + k = 2 * c + nl)
      /\ r \in Seq(Units) /\ Len(r) = Len(s) - k
      /\ \A i \in 1..Len(r) : k + i \in 1..Len(s) /\ r[i] = s[k + i]
  BY <1>0, Received, Zenon
<1>2. PICK c \in Nat : t \in Seq(Texts) /\ Len(t) = Len(ms) + c /\ l \in Seq(Units)
                       /\ nl \in {0, 1} /\ n + k = 2 * c + nl
  BY <1>1, Zenon
<1>3. sock'[p] = r /\ buf'[p] = l /\ msgs'[p] = t
      /\ \A q \in Procs : q # p => sock'[q] = sock[q] /\ buf'[q] = buf[q] /\ msgs'[q] = msgs[q]
  BY <1>0, Zenon DEF QTypeOK
<1>4. QTypeOK'
  BY <1>0, <1>1, <1>2, Zenon DEF QTypeOK
<1>5. ASSUME NEW q \in Procs, q # p PROVE QOne(q)'
  BY <1>3, <1>5, QUnchanged, Zenon DEF QInv, QOne
<1>6. Framed(p)'
  BY <1>0, <1>3, ReceivedFramed, Zenon DEF QOne
<1>7. k \in 1..Len(s) /\ k \in Nat /\ s # <<>> /\ k <= Len(s)
  BY <1>0 DEF QTypeOK
<1>8. qpc[p] = "welcome" => Welcome(p)'
  <2> SUFFICES ASSUME qpc[p] = "welcome" PROVE Welcome(p)'
    BY Zenon
  <2>1. toVm[p] = <<>> /\ ms = <<>> /\ n + Len(s) <= 2 /\ Len(t) # 1
    BY <1>0, Zenon DEF QOne, Phase, Welcome, Expected
  <2> HIDE DEF n, s, l, nl, r, ms, t
  <2>2. Len(ms) = 0
    BY <2>1, Zenon
  <2>3. Len(t) = 0 /\ nl + Len(r) <= 2
    <3>1. /\ n \in Nat /\ c \in Nat /\ Len(s) \in Nat /\ nl \in {0, 1}
          /\ n + k = 2 * c + nl /\ Len(t) = Len(ms) + c /\ Len(r) = Len(s) - k
      BY <1>1, <1>2, Zenon
    <3>2. k \in Nat /\ k <= Len(s) /\ n + Len(s) <= 2 /\ Len(t) # 1
      BY <1>7, <2>1, Zenon
    <3> QED
      BY <2>2, <3>1, <3>2
  <2>4. t = <<>>
    BY <1>2, <2>3
  <2> QED  BY <1>3, <2>1, <2>3, <2>4, Zenon DEF Welcome, nl
<1>9. qpc[p] = "caps" => Negotiating(p)'
  <2> SUFFICES ASSUME qpc[p] = "caps" PROVE Negotiating(p)'
    BY Zenon
  <2>1. Negotiating(p) /\ Len(t) # 1
    BY <1>0, Zenon DEF QOne, Phase, Expected
  <2>2. toVm[p] = <<>>
        /\ \/ ms = <<>> /\ \A i \in 1..Len(s) : n + i > 2 => s[i].m # "return"
           \/ Len(ms) > 1
    BY <2>1, <1>7, Zenon DEF Negotiating, Nothing
  <2> HIDE DEF n, s, l, nl, r, ms, t
  <2>3. CASE Len(ms) > 1
    <3>1. Len(t) > 1
      BY <1>1, <1>2, <2>3
    <3> QED  BY <1>3, <2>2, <3>1, Zenon DEF Negotiating
  <2>4. CASE ms = <<>> /\ \A i \in 1..Len(s) : n + i > 2 => s[i].m # "return"
    <3>0. Len(ms) = 0
      BY <2>4, Zenon
    <3>1. CASE Len(t) > 1
      BY <1>3, <2>2, <3>1, Zenon DEF Negotiating
    <3>2. CASE ~(Len(t) > 1)
      <4>1. Len(t) = 0 /\ n + k = nl
        BY <1>1, <1>2, <2>1, <3>0, <3>2
      <4>2. t = <<>>
        BY <1>2, <4>1
      <4>3. ASSUME NEW i \in 1..Len(r), nl + i > 2 PROVE r[i].m # "return"
        <5>1. n + (k + i) > 2
          BY <1>1, <1>7, <4>1, <4>3
        <5> QED  BY <1>1, <2>4, <5>1, Zenon
      <4> QED  BY <1>3, <2>2, <4>2, <4>3, Zenon DEF Negotiating, nl
    <3> QED  BY <3>1, <3>2, Zenon
  <2> QED  BY <2>2, <2>3, <2>4, Zenon
<1>10. qpc[p] = "command" => Commanding(p)'
  <2> SUFFICES ASSUME qpc[p] = "command" PROVE Commanding(p)'
    BY Zenon
  <2>1. Commanding(p)
    BY <1>0, Zenon DEF QOne, Phase
  <2>2. ASSUME NoReturn(p) PROVE NoReturn(p)'
    <3>1. /\ \A i \in 1..Len(t) : t[i] # "return"
          /\ \A i \in 1..Len(l) : l[i].m # "return"
          /\ \A i \in 1..Len(r) : r[i].m # "return"
      BY <1>0, <2>2, ReceivedNoReturn, Zenon
    <3> HIDE DEF t, l, r
    <3> QED  BY <1>3, <3>1, Zenon DEF NoReturn
  <2> QED  BY <2>1, <2>2, Zenon DEF Commanding
<1>11. QOne(p)'
  BY <1>6, <1>8, <1>9, <1>10, Zenon DEF QOne, Phase
<1> QED  BY <1>4, <1>5, <1>11, Zenon DEF QInv, QOne

\* All that was waited for has come: the conversation goes on, or ends.
LEMMA QChecks ==
  ASSUME QInv, NEW p \in Procs, NEW k \in 1..Len(sock[p]),
         sock' = [sock EXCEPT ![p] = Rest(p, k)],
         Len(Taken(p, k)) = Expected(p), Left(p, k) = <<>>,
         Check(p, Taken(p, k)),
         buf' = [buf EXCEPT ![p] = <<>>],
         msgs' = [msgs EXCEPT ![p] = <<>>],
         UNCHANGED <<vm, goal, executed>>
  PROVE  QInv'
<1> DEFINE n == Len(buf[p])  s == sock[p]  l == Left(p, k)  nl == Len(l)  r == Rest(p, k)
           ms == msgs[p]  t == Taken(p, k)
<1>0. QTypeOK /\ QOne(p) /\ qpc[p] \in {"welcome", "caps", "command"}
  BY Zenon DEF QInv, QOne, Check
<1>1. n \in Nat /\ Len(s) \in Nat /\ Len(ms) \in Nat
      /\ (\E c \in Nat : t \in Seq(Texts) /\ Len(t) = Len(ms) + c /\ l \in Seq(Units)
                         /\ nl \in {0, 1} /\ n + k = 2 * c + nl)
      /\ r \in Seq(Units) /\ Len(r) = Len(s) - k
      /\ \A i \in 1..Len(r) : k + i \in 1..Len(s) /\ r[i] = s[k + i]
  BY <1>0, Received, Zenon
<1>2. PICK c \in Nat : t \in Seq(Texts) /\ Len(t) = Len(ms) + c
                       /\ n + k = 2 * c + nl /\ nl = 0
  BY <1>1, Zenon
<1>3. sock'[p] = r /\ buf'[p] = <<>> /\ msgs'[p] = <<>>
      /\ \A q \in Procs : q # p => sock'[q] = sock[q] /\ buf'[q] = buf[q] /\ msgs'[q] = msgs[q]
  BY <1>0, Zenon DEF QTypeOK
<1>4. toVm' = toVm \/ \E m \in {"caps", "paused", "running"} :
                         toVm' = [toVm EXCEPT ![p] = Append(@, m)]
  BY <1>0, Zenon DEF Check, MsgSend, QTypeOK
<1>5. \E x \in {"caps", "command", "failed", "save"} : qpc' = [qpc EXCEPT ![p] = x]
  BY Zenon DEF Check, MsgSend, Goto
<1>6. QTypeOK'
  <2>1. toVm' \in [Procs -> Seq({"caps", "paused", "running"})]
    <3> DEFINE C == {"caps", "paused", "running"}
    <3>1. toVm \in [Procs -> Seq(C)]
      BY <1>0, Zenon DEF QTypeOK
    <3>2. \A m \in C : Append(toVm[p], m) \in Seq(C)
      <4>1. toVm[p] \in Seq(C)
        BY <3>1, Zenon
      <4> HIDE DEF C
      <4> QED  BY <4>1
    <3>3. toVm' = toVm \/ \E m \in C : toVm' = [toVm EXCEPT ![p] = Append(toVm[p], m)]
      BY <1>4, Zenon
    <3> HIDE DEF C
    <3>4. toVm' \in [Procs -> Seq(C)]
      BY <3>1, <3>2, <3>3, ZenonT(20)
    <3> QED  BY <3>4, Zenon DEF C
  <2>2. qpc' \in [Procs -> {"start", "connect", "welcome", "caps", "command", "save"} \cup Ends]
    BY <1>0, <1>5, Zenon DEF QTypeOK, Ends
  <2>3. sock' \in [Procs -> Seq(Units)] /\ buf' \in [Procs -> Seq(Units)]
        /\ msgs' \in [Procs -> Seq(Texts)]
    BY <1>0, <1>1 DEF QTypeOK
  <2> QED  BY <1>0, <2>1, <2>2, <2>3, Zenon DEF QTypeOK
<1>7. ASSUME NEW q \in Procs, q # p PROVE QOne(q)'
  <2>1. toVm'[q] = toVm[q] /\ qpc'[q] = qpc[q]
    BY <1>0, <1>4, <1>5, <1>7, Zenon DEF QTypeOK
  <2> QED  BY <1>3, <1>7, <2>1, QUnchanged, Zenon DEF QInv, QOne
<1>8. Framed(p)'
  <2>1. buf'[p] = Left(p, k) /\ Framed(p)
    BY <1>0, <1>3, Zenon DEF QOne
  <2> QED  BY <1>0, <1>3, <2>1, ReceivedFramed, Zenon
<1>9. k \in 1..Len(s) /\ k \in Nat /\ s # <<>> /\ k <= Len(s)
  BY <1>0 DEF QTypeOK
<1>10. CASE qpc[p] = "welcome"
  <2>1. ms = <<>> /\ n + Len(s) <= 2 /\ Len(t) = 1 /\ toVm[p] = <<>>
    BY <1>0, <1>10, Zenon DEF QOne, Phase, Welcome, Expected
  <2>2. MsgSend(p, "caps", "caps")
    BY <1>10, Zenon DEF Check
  <2>3. r = <<>>
    <3> HIDE DEF n, s, l, nl, r, ms, t
    <3>1. Len(ms) = 0
      BY <2>1, Zenon
    <3>2. Len(r) = 0
      BY <1>1, <1>2, <1>9, <2>1, <3>1
    <3> QED  BY <1>1, <3>2
  <2>4. qpc'[p] = "failed" \/ (qpc'[p] = "caps" /\ toVm'[p] = <<"caps">>)
    BY <1>0, <2>1, <2>2 DEF MsgSend, Goto, QTypeOK
  <2>5. Nothing(p)'
    BY <1>3, <2>3, Zenon DEF Nothing
  <2> QED  BY <1>6, <1>7, <1>8, <2>4, <2>5, ZenonT(20) DEF QInv, QOne, Phase, Negotiating
<1>11. CASE qpc[p] = "caps"
  <2>1. Negotiating(p) /\ Len(t) = 1
    <3>1. Negotiating(p)
      BY <1>0, <1>11, Zenon DEF QOne, Phase
    <3>2. Len(t) = 1
      BY <1>11, Zenon DEF Expected
    <3> QED  BY <3>1, <3>2, Zenon
  <2>2. toVm[p] = <<>>
        /\ \/ ms = <<>> /\ \A i \in 1..Len(s) : n + i > 2 => s[i].m # "return"
           \/ Len(ms) > 1
    BY <2>1, <1>9, Zenon DEF Negotiating, Nothing
  <2>3. NoReturn(p)'
    <3> HIDE DEF n, s, l, nl, r, ms, t
    <3> DEFINE nm == Len(ms)
    <3>0. 1 = nm + c /\ nm \in Nat /\ n + k = 2 * c + nl /\ nl = 0
      BY <1>1, <1>2, <2>1, Zenon
    <3> HIDE DEF nm
    <3>1. ~(nm > 1)
      BY <3>0
    <3>2. nm = 0 /\ \A i \in 1..Len(s) : n + i > 2 => s[i].m # "return"
      BY <2>2, <3>1, Zenon DEF nm
    <3>3. n + k = 2
      BY <3>0, <3>2
    <3>4. ASSUME NEW i \in 1..Len(r) PROVE r[i].m # "return"
      <4>1. n + (k + i) > 2
        BY <1>1, <1>9, <3>3
      <4> QED  BY <1>1, <3>2, <4>1, Zenon
    <3>5. 1..Len(<<>>) = {}
      BY SMTT(20)
    <3> QED  BY <1>3, <3>4, <3>5, Zenon DEF NoReturn
  <2>4. \/ qpc'[p] = "failed"
        \/ qpc'[p] = "save" /\ vm' = "gone"
        \/ qpc'[p] = "command" /\ toVm'[p] = <<goal[p]>>
    <3>1. goal[p] # "caps"
      BY <1>0, Zenon DEF QTypeOK
    <3>2. MsgSend(p, goal[p], "command") \/ Goto(p, "failed")
      BY <1>11, Zenon DEF Check
    <3>3. Append(toVm[p], goal[p]) = <<goal[p]>>
      BY <2>2
    <3>4. p \in DOMAIN toVm /\ p \in DOMAIN qpc
      BY <1>0, Zenon DEF QTypeOK
    <3>5. CASE Goto(p, "failed")
      BY <3>4, <3>5, Zenon DEF Goto
    <3>6. CASE vm # "gone" /\ toVm' = [toVm EXCEPT ![p] = Append(@, goal[p])]
               /\ Goto(p, "command")
      BY <3>3, <3>4, <3>6, Zenon DEF Goto
    <3>7. CASE vm = "gone" /\ Goto(p, "save")
      BY <3>4, <3>7, Zenon DEF Goto
    <3> QED  BY <3>1, <3>2, <3>5, <3>6, <3>7, Zenon DEF MsgSend
  <2> QED  BY <1>6, <1>7, <1>8, <2>3, <2>4, ZenonT(20) DEF QInv, QOne, Phase, Commanding
<1>12. CASE qpc[p] = "command"
  <2>1. Commanding(p) /\ Len(t) = 2
    BY <1>0, <1>12, Zenon DEF QOne, Phase, Expected
  <2>2. qpc'[p] = "failed" \/ (qpc'[p] = "save" /\ t[2] = "return")
    BY <1>0, <1>12, Zenon DEF Check, CheckResult, Expected, Goto, QTypeOK
  <2>3. NoReturn(p) => t[2] # "return"
    <3> SUFFICES ASSUME NoReturn(p) PROVE t[2] # "return"
      BY Zenon
    <3>1. \A i \in 1..Len(t) : t[i] # "return"
      BY <1>0, ReceivedNoReturn, Zenon
    <3>2. 2 \in 1..Len(t)
      BY <2>1
    <3> QED  BY <3>1, <3>2, Zenon
  <2>4. qpc'[p] = "save" => executed'[p] \/ vm' = "gone"
    BY <2>1, <2>2, <2>3, ZenonT(20) DEF Commanding
  <2> QED  BY <1>6, <1>7, <1>8, <2>2, <2>4, Zenon DEF QInv, QOne, Phase
<1> QED  BY <1>0, <1>10, <1>11, <1>12, Zenon

\* cc_oci_qmp_msg_recv, and what follows it.
LEMMA QRecv == ASSUME QInv, NEW p \in Procs, MsgRecv(p) PROVE QInv'
<1>1. PICK k \in 1..Len(sock[p]) :
        /\ sock' = [sock EXCEPT ![p] = SubSeq(@, k + 1, Len(@))]
        /\ \/ /\ Len(Taken(p, k)) # Expected(p)
              /\ buf' = [buf EXCEPT ![p] = Left(p, k)]
              /\ msgs' = [msgs EXCEPT ![p] = Taken(p, k)]
              /\ UNCHANGED <<qpc, toVm, serving>>
           \/ /\ Len(Taken(p, k)) = Expected(p) /\ Left(p, k) # <<>>
              /\ Goto(p, "aborted") /\ ConnFree(p)
              /\ UNCHANGED <<buf, msgs, toVm>>
           \/ /\ Len(Taken(p, k)) = Expected(p) /\ Left(p, k) = <<>>
              /\ Check(p, Taken(p, k))
              /\ buf' = [buf EXCEPT ![p] = <<>>]
              /\ msgs' = [msgs EXCEPT ![p] = <<>>]
  BY Zenon DEF MsgRecv, Filled, Taken, Left
<1>2. UNCHANGED <<vm, goal, executed>> /\ qpc[p] \in {"welcome", "caps", "command"}
  BY Zenon DEF MsgRecv, histVars
<1>3. sock' = [sock EXCEPT ![p] = Rest(p, k)]
  BY <1>1, Zenon DEF Rest
<1>4. CASE /\ Len(Taken(p, k)) # Expected(p)
           /\ buf' = [buf EXCEPT ![p] = Left(p, k)]
           /\ msgs' = [msgs EXCEPT ![p] = Taken(p, k)]
           /\ UNCHANGED <<qpc, toVm, serving>>
  BY <1>2, <1>3, <1>4, QGoesOn, Zenon
<1>5. CASE Goto(p, "aborted") /\ UNCHANGED <<buf, msgs, toVm>>
  <2>0. QTypeOK /\ Rest(p, k) \in Seq(Units)
    BY Received, Zenon DEF QInv
  <2>1. QTypeOK'
    BY <1>2, <1>3, <1>5, <2>0, Zenon DEF QTypeOK, Goto, Ends
  <2>2. qpc'[p] = "aborted" /\ \A q \in Procs : q # p => qpc'[q] = qpc[q] /\ sock'[q] = sock[q]
    BY <1>3, <1>5, <2>0, Zenon DEF QTypeOK, Goto
  <2>3. ASSUME NEW q \in Procs, q # p PROVE QOne(q)'
    BY <1>2, <1>5, <2>2, <2>3, QUnchanged, Zenon DEF QInv, QOne
  <2>4. QOne(p)'
    BY <2>2, Zenon DEF QOne, Phase
  <2> QED  BY <2>1, <2>3, <2>4, Zenon DEF QInv, QOne
<1>6. CASE /\ Len(Taken(p, k)) = Expected(p) /\ Left(p, k) = <<>>
           /\ Check(p, Taken(p, k))
           /\ buf' = [buf EXCEPT ![p] = <<>>]
           /\ msgs' = [msgs EXCEPT ![p] = <<>>]
  BY <1>2, <1>3, <1>6, QChecks, Zenon
<1> QED  BY <1>1, <1>4, <1>5, <1>6, Zenon

\* The invariant is inductive.
LEMMA QInductive == QInv /\ [QNext]_qvars => QInv'
<1> SUFFICES ASSUME QInv, [QNext]_qvars PROVE QInv'
  BY Zenon
<1>1. ASSUME NEW p \in Procs, Toggle(p) PROVE QInv'
  BY <1>1, QQuiet, QRecv, Zenon DEF Toggle
<1>2. ASSUME NEW p \in Procs, Monitor(p) \/ Event(p) PROVE QInv'
  BY <1>2, QGreet, QExecute, QEvent, Zenon DEF Monitor
<1>3. CASE VmExits
  BY <1>3, QExits, Zenon
<1>4. CASE UNCHANGED qvars
  <2>1. QTypeOK'
    BY <1>4, Zenon DEF qvars, vmVars, histVars, QInv, QTypeOK
  <2>2. ASSUME NEW q \in Procs PROVE QOne(q)'
    BY <1>4, QUnchanged, Zenon DEF qvars, vmVars, histVars, QInv, QOne
  <2> QED  BY <2>1, <2>2, Zenon DEF QInv, QOne
<1> QED  BY <1>1, <1>2, <1>3, <1>4, Zenon DEF QNext

\* A pause or a resume that reports success after having talked to the monitor has
\* been executed, or the hypervisor is gone: whatever events the monitor sends and
\* in whatever portions cc_oci_qmp_msg_recv gets them, for any number of processes
\* and events.
THEOREM SuccessTheorem == QSpec => []SuccessIsExecuted
<1>1. QInv => SuccessIsExecuted
  BY Zenon DEF QInv, Phase, SuccessIsExecuted
<1> QED  BY <1>1, QInitially, QInductive, PTL DEF QSpec

\* As long as a process has not given up, what it has in its buffer is at most the
\* text of one message, and every second unit of the buffer and of what is still to
\* be received is a separator: cc_oci_qmp_msg_recv never takes the text of one
\* message for the beginning of another.
THEOREM FramingTheorem == QSpec => [](\A p \in Procs : qpc[p] # "aborted" => Framed(p))
<1>1. QInv => \A p \in Procs : qpc[p] # "aborted" => Framed(p)
  BY Zenon DEF QInv
<1> QED  BY <1>1, QInitially, QInductive, PTL DEF QSpec

=============================================================================
