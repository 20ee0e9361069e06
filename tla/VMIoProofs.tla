----------------------------- MODULE VMIoProofs -----------------------------
(***************************************************************************)
(* Proofs about VMIo, for any number of sessions, any numbers of streams   *)
(* and any size of the socket buffers: its safety, the order of input and  *)
(* output, and that it implements a pair of pipes per session (IoRouter).  *)
(***************************************************************************)
EXTENDS VMIo, VMIoRefines, SequenceTheorems, TLAPS

-----------------------------------------------------------------------------
(***************************************************************************)
(* Sequences                                                               *)
(***************************************************************************)

\* What is left of a sequence when its first element is taken.
LEMMA TailFacts ==
    ASSUME NEW S, NEW q \in Seq(S), q # <<>>
    PROVE  /\ Tail(q) \in Seq(S)
           /\ Head(q) = q[1] /\ Head(q) \in S /\ q[1] \in S
           /\ Len(Tail(q)) = Len(q) - 1 /\ Len(q) \in Nat \ {0}
           /\ \A i \in 1..Len(Tail(q)) : i + 1 \in 1..Len(q) /\ Tail(q)[i] = q[i + 1]
  OBVIOUS

\* What a sequence is when an element is appended.
LEMMA AppendFacts ==
    ASSUME NEW S, NEW q \in Seq(S), NEW m \in S
    PROVE  /\ Append(q, m) \in Seq(S)
           /\ Len(q) \in Nat /\ Len(Append(q, m)) = Len(q) + 1
           /\ \A i \in 1..Len(q) : Append(q, m)[i] = q[i]
           /\ Append(q, m)[Len(q) + 1] = m
  OBVIOUS

\* The successor of a natural number.
LEMMA Successor ==
    \A x \in Nat : /\ x + 1 \in Nat \ {0} /\ x <= x + 1 /\ x + 1 <= x + 1 /\ x < x + 1
                   /\ \A y \in Nat : y <= x => y <= x + 1 /\ y < x + 1
                   /\ \A y \in Nat : y <= x + 1 /\ ~ (y <= x) => y = x + 1
  OBVIOUS

\* A count that grows by at most one.
LEMMA Grown ==
    \A x, z \in Nat : z = x \/ z = x + 1 =>
        /\ x <= z
        /\ \A y \in Nat : y <= x => y <= z
        /\ \A y \in Nat : y <= z /\ ~ (y <= x) => y = x + 1
  OBVIOUS

\* The positions of a sequence that grows by one.
LEMMA LastIndex ==
    \A n \in Nat : /\ n + 1 \in 1..(n + 1)
                   /\ \A i \in 1..n : i \in 1..(n + 1)
                   /\ \A i \in 1..(n + 1) : i \in 1..n \/ i = n + 1
                   /\ \A i, j \in 1..(n + 1) : i < j => i \in 1..n
  OBVIOUS

\* Two intervals, one after the other.
LEMMA IntervalsApart ==
    \A a, m, b, n \in Nat :
        a + m <= b \/ b + n <= a => (a..(a + m - 1)) \cap (b..(b + n - 1)) = {}
  OBVIOUS

\* The only element of a sequence of length one.
LEMMA OnlyElement ==
    ASSUME NEW S, NEW q \in Seq(S), Len(q) = 1
    PROVE  q # <<>> /\ Head(q) = q[1] /\ q[1] \in S
  OBVIOUS

\* A sequence of length one is its only element.
LEMMA SingletonFacts ==
    ASSUME NEW S, NEW m \in S
    PROVE  <<m>> \in Seq(S) /\ Len(<<m>>) = 1 /\ <<m>>[1] = m /\ Head(<<m>>) = m
  OBVIOUS

-----------------------------------------------------------------------------
(***************************************************************************)
(* Type correctness                                                        *)
(***************************************************************************)

\* The initial state is well typed.
LEMMA TypeInit == Init => TypeOK
<1> SUFFICES ASSUME Init PROVE TypeOK
  BY Zenon
<1> USE StreamsAssumption, BoundsAssumption, ConsolesAssumption, NoSessionAssumption DEF Init
<1>1. AllocTypeOK
  BY DEF AllocTypeOK
<1>2. StdinTypeOK
  BY DEF StdinTypeOK
<1>3. SockTypeOK
  BY DEF SockTypeOK
<1>4. ReaderTypeOK
  BY DEF ReaderTypeOK
<1>5. CloseTypeOK
  <2>1. vmLost \in BOOLEAN
    BY Zenon
  <2> QED
    BY <2>1, Zenon DEF CloseTypeOK
<1>6. GuestTypeOK
  BY DEF GuestTypeOK
<1>7. HistoryTypeOK
  BY DEF HistoryTypeOK
<1> QED
  BY <1>1, <1>2, <1>3, <1>4, <1>5, <1>6, <1>7, Zenon DEF TypeOK

\* A step that leaves a group of variables alone keeps its types.
LEMMA TypeFrame ==
    ASSUME TypeOK
    PROVE  /\ UNCHANGED allocVars => AllocTypeOK'
           /\ UNCHANGED stdinVars => StdinTypeOK'
           /\ UNCHANGED sockVars => SockTypeOK'
           /\ UNCHANGED readerVars => ReaderTypeOK'
           /\ UNCHANGED closeVars => CloseTypeOK'
           /\ UNCHANGED guestVars => GuestTypeOK'
           /\ UNCHANGED historyVars => HistoryTypeOK'
  BY ZenonT(20)
     DEF TypeOK, AllocTypeOK, StdinTypeOK, SockTypeOK, ReaderTypeOK, CloseTypeOK, GuestTypeOK,
     HistoryTypeOK, allocVars, stdinVars, sockVars, readerVars, closeVars, guestVars, historyVars

\* Every step keeps the types.
LEMMA TypeNext == TypeOK /\ [Next]_vars => TypeOK'
<1> SUFFICES ASSUME TypeOK, [Next]_vars PROVE TypeOK'
  BY Zenon
<1> USE StreamsAssumption, BoundsAssumption, NoSessionAssumption
<1> USE DEF TypeOK
<1>1. ASSUME NEW s \in Sessions, NEW n \in NStreams, AllocateIo(s, n) PROVE TypeOK'
  <2>1. ReaderTypeOK' /\ CloseTypeOK' /\ GuestTypeOK' /\ HistoryTypeOK'
    BY <1>1, TypeFrame, Zenon DEF AllocateIo
  <2>2. AllocTypeOK'
    BY <1>1 DEF AllocateIo, AllocTypeOK, Allocated, Register
  <2>3. StdinTypeOK'
    BY <1>1, Zenon DEF AllocateIo, StdinTypeOK, Allocated, Register
  <2>4. SockTypeOK'
    BY <1>1, Zenon DEF AllocateIo, SockTypeOK, Allocated, Register
  <2> QED
    BY <2>1, <2>2, <2>3, <2>4, Zenon
<1>2. ASSUME NEW s \in Sessions, StartStdin(s) PROVE TypeOK'
  <2>1. AllocTypeOK' /\ SockTypeOK' /\ ReaderTypeOK' /\ CloseTypeOK' /\ GuestTypeOK' /\ HistoryTypeOK'
    BY <1>2, TypeFrame, Zenon DEF StartStdin
  <2>2. StdinTypeOK'
    BY <1>2, Zenon DEF StartStdin, StdinTypeOK
  <2> QED
    BY <2>1, <2>2, Zenon
<1>3. ASSUME NEW s \in Sessions, StdinRead(s) PROVE TypeOK'
  <2>1. AllocTypeOK' /\ ReaderTypeOK' /\ CloseTypeOK' /\ GuestTypeOK' /\ HistoryTypeOK'
    BY <1>3, TypeFrame, Zenon DEF StdinRead
  <2>2. /\ Head(fromClient[s]) \in Frame /\ Tail(fromClient[s]) \in Seq(Frame)
        /\ Len(Tail(fromClient[s])) <= Len(fromClient[s])
    BY <1>3, TailFacts DEF StdinRead, SockTypeOK
  <2>3. <<Head(fromClient[s])>> \in Seq(Frame) /\ Len(<<Head(fromClient[s])>>) = 1
    BY <2>2, SingletonFacts, Zenon
  <2>4. StdinTypeOK'
    BY <1>3, <2>3, ZenonT(20) DEF StdinRead, StdinTypeOK
  <2>5. SockTypeOK'
    <3>1. /\ \A t \in Sessions : fromClient'[t] = IF t = s THEN Tail(fromClient[s]) ELSE fromClient[t]
          /\ fromClient' \in [Sessions -> Seq(Frame)]
      BY <1>3, <2>2, Zenon DEF StdinRead, SockTypeOK
    <3>2. \A t \in Sessions : Len(fromClient[t]) \in Nat /\ Len(Tail(fromClient[s])) \in Nat
      BY <2>2 DEF SockTypeOK
    <3>3. \A t \in Sessions : Len(fromClient'[t]) <= SockCap
      BY <2>2, <3>1, <3>2 DEF SockTypeOK
    <3> QED
      BY <1>3, <3>1, <3>3, Zenon DEF StdinRead, SockTypeOK
  <2> QED
    BY <2>1, <2>4, <2>5, Zenon
<1>4. ASSUME NEW s \in Sessions, StdinReadError(s) PROVE TypeOK'
  <2>1. AllocTypeOK' /\ SockTypeOK' /\ ReaderTypeOK' /\ CloseTypeOK' /\ GuestTypeOK' /\ HistoryTypeOK'
    BY <1>4, TypeFrame, Zenon DEF StdinReadError
  <2>2. StdinTypeOK'
    BY <1>4, Zenon DEF StdinReadError, StdinTypeOK
  <2> QED
    BY <2>1, <2>2, Zenon
<1>5. ASSUME NEW s \in Sessions, StdinSend(s) PROVE TypeOK'
  <2>1. AllocTypeOK' /\ SockTypeOK' /\ ReaderTypeOK' /\ CloseTypeOK' /\ GuestTypeOK'
    BY <1>5, TypeFrame, Zenon DEF StdinSend
  <2>2. StdinTypeOK'
    <3>1. <<>> \in Seq(Frame) /\ Len(<<>>) = 0
      OBVIOUS
    <3>2. held' = [held EXCEPT ![s] = <<>>]
      BY <1>5, Zenon DEF StdinSend
    <3>3. held' \in [Sessions -> Seq(Frame)]
      BY <3>1, <3>2, Zenon DEF StdinTypeOK
    <3>4. PICK x \in {"read", "done"} : stdin' = [stdin EXCEPT ![s] = x]
      BY <1>5, Zenon DEF StdinSend
    <3>5. stdin' \in [Sessions -> {"none", "starting", "read", "send", "done"}]
      BY <3>4, Zenon DEF StdinTypeOK
    <3>6. \A t \in Sessions : Len(held'[t]) = (IF stdin'[t] = "send" THEN 1 ELSE 0)
      <4> TAKE t \in Sessions
      <4>1. CASE t = s
        BY <3>1, <3>2, <3>4, <4>1 DEF StdinTypeOK
      <4>2. CASE t # s
        <5>1. held'[t] = held[t] /\ stdin'[t] = stdin[t]
          BY <3>2, <3>4, <4>2, Zenon DEF StdinTypeOK
        <5> QED
          BY <5>1, Zenon DEF StdinTypeOK
      <4> QED
        BY <4>1, <4>2, Zenon
    <3> QED
      BY <3>3, <3>5, <3>6, Zenon DEF StdinTypeOK
  <2>3. HistoryTypeOK'
    <3>1. held[s] \in Seq(Frame) /\ Len(held[s]) = 1
      BY <1>5, Zenon DEF StdinSend, StdinTypeOK
    <3>2. Head(held[s]) \in Frame
      BY <3>1, OnlyElement
    <3>3. Head(held[s]).k \in Nat
      BY <3>2, Zenon DEF Frame
    <3>4. UNCHANGED <<sent, got, written>>
      BY <1>5, Zenon DEF StdinSend
    <3>5. CASE UNCHANGED guestIn
      BY <3>4, <3>5, Zenon DEF HistoryTypeOK
    <3>6. CASE guestIn' = [guestIn EXCEPT ![s] = Append(guestIn[s], Head(held[s]).k)]
      <4>1. Append(guestIn[s], Head(held[s]).k) \in Seq(Nat)
        BY <3>3, AppendFacts, Zenon DEF HistoryTypeOK
      <4> QED
        BY <3>4, <3>6, <4>1, Zenon DEF HistoryTypeOK
    <3> QED
      BY <1>5, <3>5, <3>6, Zenon DEF StdinSend
  <2> QED
    BY <2>1, <2>2, <2>3, Zenon
<1>6. CASE ReaderRead
  <2>1. AllocTypeOK' /\ StdinTypeOK' /\ SockTypeOK' /\ CloseTypeOK' /\ HistoryTypeOK'
    BY <1>6, TypeFrame, Zenon DEF ReaderRead
  <2>2. ReaderTypeOK'
    <3>1. Head(guestOut) \in Frame
      BY <1>6, TailFacts, Zenon DEF ReaderRead, GuestTypeOK
    <3> QED
      BY <1>6, <3>1, SingletonFacts, Zenon DEF ReaderRead, ReaderTypeOK
  <2>3. GuestTypeOK'
    BY <1>6, TailFacts, SingletonFacts, Zenon DEF ReaderRead, GuestTypeOK
  <2> QED
    BY <2>1, <2>2, <2>3, Zenon
<1>7. CASE ReaderReadError
  <2>1. AllocTypeOK' /\ StdinTypeOK' /\ SockTypeOK' /\ GuestTypeOK' /\ HistoryTypeOK'
    BY <1>7, TypeFrame, Zenon DEF ReaderReadError
  <2>2. ReaderTypeOK'
    BY <1>7, Zenon DEF ReaderReadError, ReaderTypeOK
  <2>3. CloseTypeOK'
    BY <1>7, Zenon DEF ReaderReadError, CloseTypeOK
  <2> QED
    BY <2>1, <2>2, <2>3, Zenon
<1>8. CASE ReaderFind
  <2>1. AllocTypeOK' /\ StdinTypeOK' /\ SockTypeOK' /\ CloseTypeOK' /\ GuestTypeOK' /\ HistoryTypeOK'
    BY <1>8, TypeFrame, Zenon DEF ReaderFind
  <2>2. ReaderTypeOK'
    <3>1. rsession' \in Sessions \cup {NoSession}
      BY <1>8, Zenon DEF ReaderFind, FindSession, AllocTypeOK
    <3>2. <<>> \in Seq(Frame) /\ Len(<<>>) = 0
      OBVIOUS
    <3>3. CASE rsession' = NoSession
      BY <1>8, <3>2, <3>3 DEF ReaderFind, ReaderTypeOK
    <3>4. CASE rsession' # NoSession
      BY <1>8, <3>1, <3>4, Zenon DEF ReaderFind, ReaderTypeOK
    <3> QED
      BY <3>3, <3>4, Zenon
  <2> QED
    BY <2>1, <2>2, Zenon
<1>9. CASE ReaderSend
  <2>1. AllocTypeOK' /\ StdinTypeOK' /\ CloseTypeOK' /\ GuestTypeOK' /\ HistoryTypeOK'
    BY <1>9, TypeFrame, Zenon DEF ReaderSend
  <2>2. ReaderTypeOK'
    BY <1>9, TailFacts, AppendFacts DEF ReaderSend, ReaderTypeOK
  <2>3. SockTypeOK'
    <3>1. rframe[1] \in Frame /\ rsession \in Sessions
      BY <1>9, OnlyElement, Zenon DEF ReaderSend, ReaderTypeOK
    <3>2. /\ Append(toClient[rsession], rframe[1]) \in Seq(Frame)
          /\ Len(Append(toClient[rsession], rframe[1])) = Len(toClient[rsession]) + 1
          /\ Len(toClient[rsession]) \in Nat
      BY <3>1, AppendFacts DEF SockTypeOK
    <3> QED
      BY <1>9, <3>1, <3>2 DEF ReaderSend, SockTypeOK
  <2> QED
    BY <2>1, <2>2, <2>3, Zenon
<1>10. CASE ReaderSendError
  <2>1. AllocTypeOK' /\ StdinTypeOK' /\ SockTypeOK' /\ CloseTypeOK' /\ GuestTypeOK' /\ HistoryTypeOK'
    BY <1>10, TypeFrame, Zenon DEF ReaderSendError
  <2>2. ReaderTypeOK'
    BY <1>10 DEF ReaderSendError, ReaderTypeOK
  <2> QED
    BY <2>1, <2>2, Zenon
<1>11. CASE ConsoleEnd
  <2>1. AllocTypeOK' /\ StdinTypeOK' /\ SockTypeOK' /\ ReaderTypeOK' /\ GuestTypeOK' /\ HistoryTypeOK'
    BY <1>11, TypeFrame, Zenon DEF ConsoleEnd
  <2>2. CloseTypeOK'
    BY <1>11, Zenon DEF ConsoleEnd, CloseTypeOK
  <2> QED
    BY <2>1, <2>2, Zenon
<1>12. CASE CloseSockets
  <2>1. AllocTypeOK' /\ StdinTypeOK' /\ SockTypeOK' /\ ReaderTypeOK' /\ GuestTypeOK' /\ HistoryTypeOK'
    BY <1>12, TypeFrame, Zenon DEF CloseSockets
  <2>2. CloseTypeOK'
    BY <1>12, Zenon DEF CloseSockets, CloseTypeOK
  <2> QED
    BY <2>1, <2>2, Zenon
<1>13. CASE CloseLock
  <2>1. AllocTypeOK' /\ StdinTypeOK' /\ SockTypeOK' /\ ReaderTypeOK' /\ GuestTypeOK' /\ HistoryTypeOK'
    BY <1>13, TypeFrame, Zenon DEF CloseLock
  <2>2. CloseTypeOK'
    BY <1>13, Zenon DEF CloseLock, CloseTypeOK
  <2> QED
    BY <2>1, <2>2, Zenon
<1>14. CASE CloseJoin
  <2>1. AllocTypeOK' /\ StdinTypeOK' /\ SockTypeOK' /\ ReaderTypeOK' /\ GuestTypeOK' /\ HistoryTypeOK'
    BY <1>14, TypeFrame, Zenon DEF CloseJoin
  <2>2. CloseTypeOK'
    BY <1>14, Zenon DEF CloseJoin, CloseTypeOK
  <2> QED
    BY <2>1, <2>2, Zenon
<1>15. CASE CloseUnlock
  <2>1. AllocTypeOK' /\ StdinTypeOK' /\ SockTypeOK' /\ ReaderTypeOK' /\ GuestTypeOK' /\ HistoryTypeOK'
    BY <1>15, TypeFrame, Zenon DEF CloseUnlock
  <2>2. CloseTypeOK'
    BY <1>15, Zenon DEF CloseUnlock, CloseTypeOK
  <2> QED
    BY <2>1, <2>2, Zenon
<1>16. CASE CloseDone
  <2>1. AllocTypeOK' /\ StdinTypeOK' /\ SockTypeOK' /\ ReaderTypeOK' /\ GuestTypeOK' /\ HistoryTypeOK'
    BY <1>16, TypeFrame, Zenon DEF CloseDone
  <2>2. CloseTypeOK'
    BY <1>16, Zenon DEF CloseDone, CloseTypeOK
  <2> QED
    BY <2>1, <2>2, Zenon
<1>17. ASSUME NEW q \in DOMAIN ioSessions, CloseSession(q) PROVE TypeOK'
  <2>1. StdinTypeOK' /\ ReaderTypeOK' /\ GuestTypeOK' /\ HistoryTypeOK'
    BY <1>17, TypeFrame, Zenon DEF CloseSession
  <2>2. AllocTypeOK'
    BY <1>17, Zenon DEF CloseSession, AllocTypeOK, Delete
  <2>3. SockTypeOK'
    BY <1>17, Zenon DEF CloseSession, SockTypeOK, Delete, AllocTypeOK
  <2>4. CloseTypeOK'
    BY <1>17, Zenon DEF CloseSession, CloseTypeOK, Delete, AllocTypeOK
  <2> QED
    BY <2>1, <2>2, <2>3, <2>4, Zenon
<1>18. ASSUME NEW s \in Sessions, NEW q \in Addressable(s), ClientWrite(s, q) PROVE TypeOK'
  <2>1. AllocTypeOK' /\ StdinTypeOK' /\ ReaderTypeOK' /\ CloseTypeOK' /\ GuestTypeOK'
    BY <1>18, TypeFrame, Zenon DEF ClientWrite
  <2>2. SockTypeOK'
    <3> DEFINE f == [s |-> s, k |-> written[s] + 1, q |-> q]
    <3>1. f \in Frame
      BY DEF Addressable, Streams, Frame, AllocTypeOK, HistoryTypeOK
    <3>2. /\ Append(fromClient[s], f) \in Seq(Frame)
          /\ Len(Append(fromClient[s], f)) = Len(fromClient[s]) + 1
          /\ Len(fromClient[s]) \in Nat
      BY <3>1, AppendFacts DEF SockTypeOK
    <3> QED
      BY <1>18, <3>2 DEF ClientWrite, SockTypeOK
  <2>3. HistoryTypeOK'
    BY <1>18, AppendFacts, SMTT(20)
       DEF ClientWrite, HistoryTypeOK, Addressable, Streams, Frame, AllocTypeOK
  <2> QED
    BY <2>1, <2>2, <2>3, Zenon
<1>19. ASSUME NEW s \in Sessions, ClientRead(s) PROVE TypeOK'
  <2>1. AllocTypeOK' /\ StdinTypeOK' /\ ReaderTypeOK' /\ CloseTypeOK' /\ GuestTypeOK'
    BY <1>19, TypeFrame, Zenon DEF ClientRead
  <2>2. SockTypeOK'
    BY <1>19, TailFacts, AppendFacts DEF ClientRead, SockTypeOK
  <2>3. HistoryTypeOK'
    BY <1>19, TailFacts, AppendFacts, Zenon DEF ClientRead, HistoryTypeOK, SockTypeOK
  <2> QED
    BY <2>1, <2>2, <2>3, Zenon
<1>20. ASSUME NEW s \in Sessions, ClientExit(s) PROVE TypeOK'
  <2>1. AllocTypeOK' /\ StdinTypeOK' /\ ReaderTypeOK' /\ CloseTypeOK' /\ GuestTypeOK' /\ HistoryTypeOK'
    BY <1>20, TypeFrame, Zenon DEF ClientExit
  <2>2. SockTypeOK'
    BY <1>20, Zenon DEF ClientExit, SockTypeOK
  <2> QED
    BY <2>1, <2>2, Zenon
<1>21. ASSUME NEW s \in Sessions, NEW q \in Addressable(s), GuestWrite(s, q) PROVE TypeOK'
  <2>1. AllocTypeOK' /\ StdinTypeOK' /\ SockTypeOK' /\ ReaderTypeOK' /\ CloseTypeOK'
    BY <1>21, TypeFrame, Zenon DEF GuestWrite
  <2>2. GuestTypeOK'
    BY <1>21, AppendFacts, SMTT(20)
       DEF GuestWrite, GuestTypeOK, Addressable, Streams, Frame, AllocTypeOK, HistoryTypeOK
  <2>3. HistoryTypeOK'
    BY <1>21, AppendFacts DEF GuestWrite, HistoryTypeOK, Addressable, Streams, Frame, AllocTypeOK
  <2> QED
    BY <2>1, <2>2, <2>3, Zenon
<1>22. CASE GuestExit
  <2>1. AllocTypeOK' /\ StdinTypeOK' /\ SockTypeOK' /\ ReaderTypeOK' /\ CloseTypeOK' /\ HistoryTypeOK'
    BY <1>22, TypeFrame, Zenon DEF GuestExit
  <2>2. GuestTypeOK'
    BY <1>22, Zenon DEF GuestExit, GuestTypeOK
  <2> QED
    BY <2>1, <2>2, Zenon
<1>23. CASE UNCHANGED vars
  BY <1>23, TypeFrame, Zenon DEF vars
<1> QED
   BY <1>1, <1>2, <1>3, <1>4, <1>5, <1>6, <1>7, <1>8, <1>9, <1>10, <1>11, <1>12, <1>13,
     <1>14, <1>15, <1>16, <1>17, <1>18, <1>19, <1>20, <1>21, <1>22, <1>23, Zenon
  DEF Next, Stdin, Client, Reader, Closer, Guest

\* The VM object, its goroutines and its sockets keep their types.
THEOREM TypeCorrect == Spec => []TypeOK
  BY TypeInit, TypeNext, PTL DEF Spec

-----------------------------------------------------------------------------
(***************************************************************************)
(* Safety: sequence numbers are unique, no open session escapes the map,   *)
(* and stdin arrives in order.  What concerns allocation holds if no       *)
(* client asks for zero streams.                                           *)
(***************************************************************************)

\* The sequence numbers of a session, as an interval.
Numbers(s) == ioBase[s]..(ioBase[s] + nStreams[s] - 1)

\* Sessions have disjoint intervals below nextIoBase.
Disjoint ==
    /\ \A s \in Sessions :
          Allocated(s) => /\ ioBase[s] >= 1 /\ nStreams[s] >= 1
                          /\ ioBase[s] + nStreams[s] <= nextIoBase
    /\ \A s, t \in Sessions :
          Allocated(s) /\ Allocated(t) /\ s # t =>
              ioBase[s] + nStreams[s] <= ioBase[t] \/ ioBase[t] + nStreams[t] <= ioBase[s]

\* Only an allocated session has a socket.
HasSocket == \A s \in Sessions : conn[s] # "none" => Allocated(s)

\* Only allocated sessions are in the map.
Mapped == \A q \in DOMAIN ioSessions : Allocated(ioSessions[q])

\* The reader ends before vm.Close starts.
ReaderFirst == (closer # "wait" => vmLost) /\ (vmLost => reader = "done")

\* Until vm.Close iterates over it, the map has all numbers of all sessions.
MapFull ==
    closer \in {"wait", "lock"} =>
        \A s \in Sessions : Allocated(s) =>
            \A q \in Numbers(s) : q \in DOMAIN ioSessions /\ ioSessions[q] = s

\* The inductive invariant about the map.
AllocInv == Disjoint /\ HasSocket /\ OpenIsRegistered /\ Mapped /\ ReaderFirst /\ MapFull

\* The numbers of a session are its streams, and all it is told of.
LEMMA NumbersFacts ==
    ASSUME TypeOK, NEW s \in Sessions
    PROVE  /\ ioBase[s] \in Nat /\ nStreams[s] \in Nat
           /\ Streams(s) = Numbers(s)
           /\ nStreams[s] >= 1 => Addressable(s) = Numbers(s)
<1>1. ioBase[s] \in Nat /\ nStreams[s] \in Nat
  <2>1. ioBase[s] \in Nat /\ nStreams[s] \in NStreams \cup {0}
    BY Zenon DEF TypeOK, AllocTypeOK
  <2> QED
    BY <2>1, StreamsAssumption, 0 \in Nat, Zenon
<1>2. ASSUME NEW i \in 0..(nStreams[s] - 1) PROVE ioBase[s] + i \in Numbers(s)
  BY <1>1 DEF Numbers
<1>3. ASSUME NEW q \in Numbers(s) PROVE q \in Streams(s)
  <2>1. q - ioBase[s] \in 0..(nStreams[s] - 1) /\ q = ioBase[s] + (q - ioBase[s])
    BY <1>1, <1>3 DEF Numbers
  <2> QED
    BY <2>1, Zenon DEF Streams
<1>4. nStreams[s] >= 1 => ioBase[s] \in Numbers(s)
  BY <1>1 DEF Numbers
<1>5. Streams(s) = Numbers(s)
  BY <1>2, <1>3, Zenon DEF Streams
<1> QED
  BY <1>1, <1>4, <1>5, Zenon DEF Addressable

\* No session exists before the first AllocateIo.
LEMMA AllocInit == Init => AllocInv
   BY DEF Init, AllocInv, Disjoint, HasSocket, OpenIsRegistered, Mapped, ReaderFirst,
     MapFull, Allocated

\* The steps that neither allocate nor change the map keep the invariant.
LEMMA AllocFrame ==
    ASSUME TypeOK, AllocInv, UNCHANGED allocVars,
           \A s \in Sessions : stdin'[s] = "none" <=> stdin[s] = "none",
           \A s \in Sessions : conn'[s] = conn[s] \/ (conn[s] # "none" /\ conn'[s] = "closed")
    PROVE  /\ (Disjoint /\ HasSocket /\ OpenIsRegistered /\ Mapped)'
           /\ closer' = closer => MapFull'
<1> USE DEF AllocInv, allocVars, Allocated
<1>1. Disjoint'
  BY Zenon DEF Disjoint
<1>2. HasSocket'
  BY Zenon DEF HasSocket
<1>3. OpenIsRegistered'
  BY Zenon DEF OpenIsRegistered
<1>4. Mapped'
  BY Zenon DEF Mapped, TypeOK, AllocTypeOK
<1>5. closer' = closer => MapFull'
  BY Zenon DEF MapFull, Numbers
<1> QED
  BY <1>1, <1>2, <1>3, <1>4, <1>5, Zenon

\* Every step keeps the invariant about the map.
LEMMA AllocNext ==
    ASSUME 0 \notin NStreams, TypeOK, AllocInv, [Next]_vars
    PROVE  AllocInv'
<1> USE DEF AllocInv
<1>1. ASSUME NEW s \in Sessions, NEW n \in NStreams, AllocateIo(s, n) PROVE AllocInv'
  <2>1. /\ n \in Nat /\ n >= 1 /\ nextIoBase \in Nat /\ nextIoBase >= 1
        /\ \A t \in Sessions : ioBase[t] \in Nat /\ nStreams[t] \in Nat
        /\ ~ Allocated(s)
    BY <1>1, StreamsAssumption, NumbersFacts DEF TypeOK, AllocTypeOK, AllocateIo
  <2>2. \A t \in Sessions :
           /\ ioBase'[t] = IF t = s THEN nextIoBase ELSE ioBase[t]
           /\ nStreams'[t] = IF t = s THEN n ELSE nStreams[t]
           /\ Allocated(t)' <=> t = s \/ Allocated(t)
           /\ conn'[t] = IF t = s THEN "open" ELSE conn[t]
    BY <1>1, Zenon DEF AllocateIo, TypeOK, AllocTypeOK, StdinTypeOK, SockTypeOK, Allocated
  <2>3. nextIoBase' = nextIoBase + n
    BY <1>1, Zenon DEF AllocateIo
  <2>4. /\ \A q \in nextIoBase..(nextIoBase + n - 1) : q \in DOMAIN ioSessions' /\ ioSessions'[q] = s
        /\ \A q \in DOMAIN ioSessions :
              q < nextIoBase => q \in DOMAIN ioSessions' /\ ioSessions'[q] = ioSessions[q]
    <3> DEFINE New == {nextIoBase + i : i \in 0..(n - 1)}
    <3>1. ioSessions' = [x \in DOMAIN ioSessions \cup New |-> IF x \in New THEN s ELSE ioSessions[x]]
      BY <1>1, Zenon DEF AllocateIo, Register
    <3>2. ASSUME NEW q \in nextIoBase..(nextIoBase + n - 1) PROVE q \in New
      <4>1. q - nextIoBase \in 0..(n - 1) /\ q = nextIoBase + (q - nextIoBase)
        BY <2>1
      <4> QED
        BY <4>1, Zenon
    <3>3. ASSUME NEW q \in New PROVE q >= nextIoBase
      BY <2>1
    <3>4. ASSUME NEW q \in DOMAIN ioSessions PROVE q \in Nat
      BY <2>1 DEF TypeOK, AllocTypeOK
    <3> HIDE DEF New
    <3>5. ASSUME NEW q \in DOMAIN ioSessions, q < nextIoBase PROVE q \notin New
      BY <2>1, <3>3, <3>4, <3>5, SMTT(20)
    <3> QED
      BY <3>1, <3>2, <3>5, Zenon
  <2>5. Disjoint'
    BY <2>1, <2>2, <2>3 DEF Disjoint
  <2>6. HasSocket'
    BY <2>2, Zenon DEF HasSocket
  <2>7. OpenIsRegistered'
    <3> SUFFICES ASSUME NEW t \in Sessions, conn'[t] = "open"
                 PROVE  ioBase'[t] \in DOMAIN ioSessions' /\ ioSessions'[ioBase'[t]] = t
      BY Zenon DEF OpenIsRegistered
    <3>1. CASE t = s
      BY <2>1, <2>2, <2>4, <3>1
    <3>2. CASE t # s
      <4>1. Allocated(t) /\ ioBase[t] \in DOMAIN ioSessions /\ ioSessions[ioBase[t]] = t
        BY <2>2, <3>2, Zenon DEF HasSocket, OpenIsRegistered
      <4>2. ioBase[t] < nextIoBase
        BY <2>1, <4>1 DEF Disjoint
      <4> QED
        BY <2>2, <2>4, <3>2, <4>1, <4>2, Zenon
    <3> QED
      BY <3>1, <3>2, Zenon
  <2>8. ReaderFirst'
    BY <1>1, Zenon DEF AllocateIo, ReaderFirst, closeVars, readerVars
  <2>9. MapFull'
    <3> SUFFICES ASSUME closer \in {"wait", "lock"}, NEW t \in Sessions, Allocated(t)',
                        NEW q \in Numbers(t)'
                 PROVE  q \in DOMAIN ioSessions' /\ ioSessions'[q] = t
      BY <1>1, Zenon DEF MapFull, AllocateIo, closeVars
    <3>1. CASE t = s
      BY <2>2, <2>4, <3>1, Zenon DEF Numbers
    <3>2. CASE t # s
      <4>1. Allocated(t) /\ q \in Numbers(t)
        BY <2>2, <3>2, Zenon DEF Numbers
      <4>2. q \in DOMAIN ioSessions /\ ioSessions[q] = t
        BY <4>1, Zenon DEF MapFull
      <4>3. q < nextIoBase
        BY <2>1, <4>1, SMTT(20) DEF Disjoint, Numbers
      <4> QED
        BY <2>4, <4>2, <4>3, Zenon
    <3> QED
      BY <3>1, <3>2, Zenon
  <2>10. Mapped'
    BY <1>1, <2>2, Zenon DEF Mapped, AllocateIo, Register, TypeOK, AllocTypeOK
  <2> QED
    BY <2>5, <2>6, <2>7, <2>8, <2>9, <2>10, Zenon
<1>2. ASSUME NEW s \in Sessions, Stdin(s) PROVE AllocInv'
  <2>1. UNCHANGED allocVars /\ UNCHANGED readerVars /\ UNCHANGED closeVars
    BY <1>2, Zenon DEF Stdin, StartStdin, StdinRead, StdinReadError, StdinSend
  <2>2. \A t \in Sessions : stdin'[t] = "none" <=> stdin[t] = "none"
    BY <1>2, Zenon
       DEF Stdin, StartStdin, StdinRead, StdinReadError, StdinSend, TypeOK, StdinTypeOK
  <2>3. \A t \in Sessions : conn'[t] = conn[t] \/ (conn[t] # "none" /\ conn'[t] = "closed")
    BY <1>2, Zenon
       DEF Stdin, StartStdin, StdinRead, StdinReadError, StdinSend, TypeOK, SockTypeOK, sockVars
  <2>4. (Disjoint /\ HasSocket /\ OpenIsRegistered /\ Mapped)' /\ MapFull'
    BY <2>1, <2>2, <2>3, AllocFrame, Zenon DEF closeVars
  <2>5. ReaderFirst'
    BY <2>1, Zenon DEF ReaderFirst, readerVars, closeVars
  <2> QED
    BY <2>4, <2>5, Zenon
<1>3. ASSUME NEW q \in DOMAIN ioSessions, CloseSession(q) PROVE AllocInv'
  <2> DEFINE s == ioSessions[q]
  <2>1. /\ UNCHANGED <<nextIoBase, ioBase, nStreams, stdin, vmLost, reader>>
        /\ closer = "iterate" /\ closer' \in {"iterate", "join"}
        /\ DOMAIN ioSessions' = DOMAIN ioSessions \ {q}
        /\ \A x \in DOMAIN ioSessions' : ioSessions'[x] = ioSessions[x]
    BY <1>3, Zenon DEF CloseSession, Delete, stdinVars, readerVars
  <2>2. \A t \in Sessions :
           /\ conn'[t] = conn[t] \/ conn'[t] = "closed"
           /\ t = s /\ q = ioBase[s] => conn'[t] = "closed"
           /\ t # s => conn'[t] = conn[t]
    BY <1>3, Zenon DEF CloseSession, TypeOK, SockTypeOK
  <2>3. Disjoint'
    BY <2>1, Zenon DEF Disjoint, Allocated
  <2>4. HasSocket'
    <3>1. s \in Sessions /\ Allocated(s)
      BY Zenon DEF Mapped, TypeOK, AllocTypeOK
    <3> QED
      BY <2>1, <2>2, <3>1, Zenon DEF HasSocket, Allocated
  <2>5. OpenIsRegistered'
    BY <2>1, <2>2, SMTT(20) DEF OpenIsRegistered
  <2>6. ReaderFirst' /\ MapFull'
    BY <2>1, Zenon DEF ReaderFirst, MapFull
  <2>7. Mapped'
    BY <2>1, Zenon DEF Mapped, Allocated
  <2> QED
    BY <2>3, <2>4, <2>5, <2>6, <2>7, Zenon
<1>4. CASE Reader
  <2>1. UNCHANGED <<allocVars, stdinVars, conn, closer>>
    BY <1>4, Zenon
       DEF Reader, ReaderRead, ReaderReadError, ReaderFind, ReaderSend, ReaderSendError,
                sockVars, closeVars
  <2>2. (Disjoint /\ HasSocket /\ OpenIsRegistered /\ Mapped)' /\ MapFull'
    BY <2>1, AllocFrame, Zenon DEF stdinVars
  <2>3. ReaderFirst'
    <3>1. reader # "done" /\ UNCHANGED closer
      BY <1>4, <2>1, Zenon
      DEF Reader, ReaderRead, ReaderReadError, ReaderFind, ReaderSend, ReaderSendError
    <3>2. UNCHANGED vmLost \/ (vmLost' /\ reader' = "done")
      BY <1>4, Zenon
         DEF Reader, ReaderRead, ReaderReadError, ReaderFind, ReaderSend, ReaderSendError, closeVars
    <3> QED
      <4>1. CASE UNCHANGED vmLost
        BY <3>1, <4>1, Zenon DEF ReaderFirst, AllocInv
      <4>2. CASE vmLost' /\ reader' = "done"
        BY <3>1, <4>2, Zenon DEF ReaderFirst, AllocInv
      <4> QED
        BY <3>2, <4>1, <4>2, Zenon
  <2> QED
    BY <2>2, <2>3, Zenon
<1>5. CASE CloseSockets \/ CloseLock \/ CloseJoin \/ CloseUnlock \/ CloseDone
  <2>1. UNCHANGED <<allocVars, stdinVars, conn, vmLost, reader>>
    BY <1>5, Zenon DEF CloseSockets, CloseLock, CloseJoin, CloseUnlock, CloseDone, sockVars, readerVars
  <2>2. closer' \in {"wait", "lock"} => closer \in {"wait", "lock"}
    BY <1>5, Zenon DEF CloseSockets, CloseLock, CloseJoin, CloseUnlock, CloseDone
  <2>3. closer' # "wait" => vmLost
    BY <1>5, Zenon DEF CloseSockets, CloseLock, CloseJoin, CloseUnlock, CloseDone, ReaderFirst
  <2>4. (Disjoint /\ HasSocket /\ OpenIsRegistered /\ Mapped)'
    BY <2>1, AllocFrame, Zenon DEF stdinVars
  <2>5. MapFull'
    BY <2>1, <2>2, Zenon DEF MapFull, Numbers, Allocated, allocVars, stdinVars
  <2>6. ReaderFirst'
    BY <2>1, <2>3, Zenon DEF ReaderFirst
  <2> QED
    BY <2>4, <2>5, <2>6, Zenon
<1>6. CASE (\E s \in Sessions : Client(s)) \/ ConsoleEnd \/ Guest \/ UNCHANGED vars
  <2>1. UNCHANGED <<allocVars, stdinVars, conn, vmLost, closer, reader>>
    BY <1>6, ZenonT(20)
       DEF Client, ClientRead, ClientWrite, ClientExit, ConsoleEnd, Guest, GuestExit, GuestWrite,
                vars, sockVars, readerVars, closeVars
  <2>2. (Disjoint /\ HasSocket /\ OpenIsRegistered /\ Mapped)' /\ MapFull'
    BY <2>1, AllocFrame, Zenon DEF stdinVars
  <2>3. ReaderFirst'
    BY <2>1, Zenon DEF ReaderFirst
  <2> QED
    BY <2>2, <2>3, Zenon
<1> QED
  BY <1>1, <1>2, <1>3, <1>4, <1>5, <1>6, Zenon DEF Next, Closer

\* The invariant about the map holds in every state.
LEMMA AllocAlways ==
    ASSUME 0 \notin NStreams
    PROVE  Spec => []AllocInv
<1>1. TypeOK /\ AllocInv /\ [Next]_vars => AllocInv'
  BY AllocNext, Zenon
<1> QED
  BY <1>1, AllocInit, TypeCorrect, PTL DEF Spec

\* AllocateIo never tells two clients the same sequence number, if every client
\* asks for a stream.
THEOREM SequenceNumbersUnique ==
    ASSUME 0 \notin NStreams
    PROVE  Spec => []GloballyUnique
<1>1. ASSUME TypeOK, AllocInv PROVE GloballyUnique
  <2> SUFFICES ASSUME NEW s \in Sessions, NEW t \in Sessions,
                      Allocated(s), Allocated(t), s # t
               PROVE  Addressable(s) \cap Addressable(t) = {}
    BY Zenon DEF GloballyUnique
  <2>1. Addressable(s) = Numbers(s) /\ Addressable(t) = Numbers(t)
    BY <1>1, NumbersFacts, Zenon DEF AllocInv, Disjoint
  <2>2. /\ ioBase[s] \in Nat /\ nStreams[s] \in Nat /\ ioBase[t] \in Nat /\ nStreams[t] \in Nat
        /\ ioBase[s] + nStreams[s] <= ioBase[t] \/ ioBase[t] + nStreams[t] <= ioBase[s]
    BY <1>1, NumbersFacts, Zenon DEF AllocInv, Disjoint
  <2>3. Numbers(s) \cap Numbers(t) = {}
    BY <2>2, IntervalsApart, Zenon DEF Numbers
  <2> QED
    BY <2>1, <2>3, Zenon
<1> QED
  BY <1>1, AllocAlways, TypeCorrect, PTL

\* vm.Close finds every open session in the map, if every client asks for a
\* stream: a session that asks for none is open and in no map.
THEOREM NoSessionEscapes ==
    ASSUME 0 \notin NStreams
    PROVE  Spec => []OpenIsRegistered
<1>1. AllocInv => OpenIsRegistered
  BY Zenon DEF AllocInv
<1> QED
  BY <1>1, AllocAlways, PTL

-----------------------------------------------------------------------------
(***************************************************************************)
(* stdin                                                                   *)
(***************************************************************************)

\* What the guest has got, what the goroutine holds and what is buffered are,
\* in this order, all the client of s has written, until the goroutine ends.
StdinQueue(s) ==
    /\ written[s] = Len(guestIn[s]) + Len(held[s]) + Len(fromClient[s])
    /\ \A i \in 1..Len(held[s]) : held[s][i].k = Len(guestIn[s]) + i
    /\ \A i \in 1..Len(fromClient[s]) :
          fromClient[s][i].k = Len(guestIn[s]) + Len(held[s]) + i

\* The inductive invariant about stdin.
StdinInv ==
    /\ StdinInOrder
    /\ \A s \in Sessions : stdin[s] # "done" => StdinQueue(s)

\* Lengths are numbers.
LEMMA StdinLengths ==
    ASSUME TypeOK, NEW s \in Sessions
    PROVE  /\ guestIn[s] \in Seq(Nat) /\ held[s] \in Seq(Frame) /\ fromClient[s] \in Seq(Frame)
           /\ Len(guestIn[s]) \in Nat /\ Len(held[s]) \in Nat /\ Len(fromClient[s]) \in Nat
           /\ Len(held[s]) = (IF stdin[s] = "send" THEN 1 ELSE 0)
           /\ written[s] \in Nat
<1>1. /\ guestIn[s] \in Seq(Nat) /\ held[s] \in Seq(Frame) /\ fromClient[s] \in Seq(Frame)
      /\ Len(held[s]) = (IF stdin[s] = "send" THEN 1 ELSE 0)
      /\ written[s] \in 0..MaxIn
  BY Zenon DEF TypeOK, HistoryTypeOK, StdinTypeOK, SockTypeOK
<1> QED
  BY <1>1, BoundsAssumption

\* A step that does not touch the stdin of a session keeps it in order.
LEMMA StdinFrame ==
    ASSUME StdinInv, NEW s \in Sessions,
           stdin'[s] # "done" => stdin[s] # "done",
           held'[s] = held[s], fromClient'[s] = fromClient[s],
           written'[s] = written[s], guestIn'[s] = guestIn[s]
    PROVE  /\ \A i \in 1..Len(guestIn'[s]) : guestIn'[s][i] = i
           /\ stdin'[s] # "done" => StdinQueue(s)'
  BY ZenonT(20) DEF StdinInv, StdinInOrder, StdinQueue

\* Nothing has been written at first.
LEMMA StdinInit == Init => StdinInv
<1> SUFFICES ASSUME Init, NEW s \in Sessions
             PROVE  /\ \A i \in 1..Len(guestIn[s]) : guestIn[s][i] = i
                    /\ StdinQueue(s)
  BY Zenon DEF StdinInv, StdinInOrder
<1>1. /\ guestIn[s] = <<>> /\ held[s] = <<>> /\ fromClient[s] = <<>> /\ written[s] = 0
      /\ Len(<<>>) = 0
  BY Zenon DEF Init
<1> QED
  BY <1>1 DEF StdinQueue

\* Every step keeps stdin in order.
LEMMA StdinNext ==
    ASSUME TypeOK, TypeOK', StdinInv, [Next]_vars
    PROVE  StdinInv'
<1> DEFINE Kept(t) == /\ \A i \in 1..Len(guestIn'[t]) : guestIn'[t][i] = i
                      /\ stdin'[t] # "done" => StdinQueue(t)'
<1> SUFFICES ASSUME NEW t \in Sessions PROVE Kept(t)
  BY Zenon DEF StdinInv, StdinInOrder
<1>0. \A i \in 1..Len(guestIn[t]) : guestIn[t][i] = i
  BY Zenon DEF StdinInv, StdinInOrder
<1>1. ASSUME NEW s \in Sessions, NEW n \in NStreams, AllocateIo(s, n) PROVE Kept(t)
  BY <1>1, StdinFrame, Zenon DEF AllocateIo, historyVars, TypeOK, StdinTypeOK, Allocated
<1>2. ASSUME NEW s \in Sessions, StartStdin(s) PROVE Kept(t)
  BY <1>2, StdinFrame, ZenonT(20) DEF StartStdin, historyVars, sockVars, TypeOK, StdinTypeOK
<1>3. ASSUME NEW s \in Sessions, StdinRead(s) PROVE Kept(t)
  <2>1. CASE t # s
    BY <1>3, <2>1, StdinFrame, Zenon
       DEF StdinRead, historyVars, TypeOK, StdinTypeOK, SockTypeOK
  <2>2. CASE t = s
    <3>1. /\ stdin[s] = "read" /\ fromClient[s] # <<>> /\ UNCHANGED <<guestIn, written>>
          /\ fromClient'[s] = Tail(fromClient[s])
          /\ stdin'[s] # "done" => held'[s] = <<Head(fromClient[s])>>
      BY <1>3, Zenon DEF StdinRead, historyVars, TypeOK, StdinTypeOK, SockTypeOK
    <3>2. CASE stdin'[s] = "done"
      BY <1>0, <2>2, <3>1, <3>2, Zenon
    <3>3. CASE stdin'[s] # "done"
      <4>1. /\ Len(fromClient'[s]) = Len(fromClient[s]) - 1
            /\ Head(fromClient[s]) = fromClient[s][1] /\ Head(fromClient[s]) \in Frame
            /\ Len(fromClient[s]) \in Nat \ {0}
            /\ \A i \in 1..Len(fromClient'[s]) :
                  i + 1 \in 1..Len(fromClient[s]) /\ fromClient'[s][i] = fromClient[s][i + 1]
        BY <3>1, StdinLengths, TailFacts
      <4>2. Len(held'[s]) = 1 /\ held'[s][1] = fromClient[s][1]
        BY <3>1, <3>3, <4>1, SingletonFacts, Zenon
      <4>3. StdinQueue(s) /\ Len(held[s]) = 0 /\ Len(guestIn[s]) \in Nat
        BY <3>1, StdinLengths, Zenon DEF StdinInv
      <4>4. fromClient[s][1].k = Len(guestIn[s]) + 1
        BY <4>1, <4>3 DEF StdinQueue
      <4>5. StdinQueue(s)'
        <5> DEFINE g == Len(guestIn[s])
                   g2 == Len(guestIn'[s])
                   h2 == Len(held'[s])
                   n == Len(fromClient[s])
                   n2 == Len(fromClient'[s])
        <5>1. /\ g \in Nat /\ n \in Nat \ {0} /\ g2 = g /\ h2 = 1 /\ n2 = n - 1
              /\ written'[s] = written[s]
          BY <3>1, <4>1, <4>2, <4>3, Zenon
        <5>2. /\ written[s] = g + 0 + n
              /\ \A i \in 1..n : fromClient[s][i].k = g + 0 + i
          BY <4>3, Zenon DEF StdinQueue
        <5>3. \A i \in 1..n2 : i + 1 \in 1..n /\ fromClient'[s][i] = fromClient[s][i + 1]
          BY <4>1, Zenon
        <5>4. held'[s][1].k = g + 1
          BY <4>2, <4>4, Zenon
        <5>5. (StdinQueue(s)') <=>
                /\ written'[s] = g2 + h2 + n2
                /\ \A i \in 1..h2 : held'[s][i].k = g2 + i
                /\ \A i \in 1..n2 : fromClient'[s][i].k = g2 + h2 + i
          BY Zenon DEF StdinQueue
        <5> HIDE DEF g, g2, h2, n, n2
        <5>6. written'[s] = g2 + h2 + n2
          BY <5>1, <5>2
        <5>7. \A i \in 1..h2 : held'[s][i].k = g2 + i
          BY <5>1, <5>4
        <5>8. \A i \in 1..n2 : fromClient'[s][i].k = g2 + h2 + i
          BY <5>1, <5>2, <5>3, SMTT(20)
        <5> QED
          BY <5>5, <5>6, <5>7, <5>8, Zenon
      <4> QED
        BY <1>0, <2>2, <3>1, <4>5, Zenon
    <3> QED
      BY <3>2, <3>3, Zenon
  <2> QED
    BY <2>1, <2>2, Zenon
<1>4. ASSUME NEW s \in Sessions, StdinReadError(s) PROVE Kept(t)
  BY <1>4, StdinFrame, Zenon DEF StdinReadError, historyVars, sockVars, TypeOK, StdinTypeOK
<1>5. ASSUME NEW s \in Sessions, StdinSend(s) PROVE Kept(t)
  <2>1. CASE t # s
    BY <1>5, <2>1, StdinFrame, Zenon
       DEF StdinSend, historyVars, sockVars, TypeOK, StdinTypeOK, HistoryTypeOK
  <2>2. CASE t = s
    <3>1. stdin[s] = "send" /\ UNCHANGED <<written, fromClient>> /\ held'[s] = <<>>
      BY <1>5, Zenon DEF StdinSend, sockVars, TypeOK, StdinTypeOK
    <3>2. CASE stdin'[s] = "done"
      <4>1. guestIn'[s] = guestIn[s]
        BY <1>5, <3>2, Zenon DEF StdinSend, TypeOK, StdinTypeOK
      <4> QED
        BY <1>0, <2>2, <3>2, <4>1, Zenon
    <3>3. CASE stdin'[s] # "done"
      <4>1. guestIn'[s] = Append(guestIn[s], Head(held[s]).k)
        BY <1>5, <3>3, Zenon DEF StdinSend, TypeOK, StdinTypeOK, HistoryTypeOK
      <4>2. StdinQueue(s) /\ Len(held[s]) = 1 /\ Len(guestIn[s]) \in Nat /\ Len(fromClient[s]) \in Nat
        BY <3>1, StdinLengths, ZenonT(20) DEF StdinInv
      <4>3. Head(held[s]) = held[s][1] /\ held[s][1] \in Frame
        BY <4>2, StdinLengths, OnlyElement, Zenon
      <4>4. Head(held[s]).k = Len(guestIn[s]) + 1 /\ Head(held[s]).k \in Nat
        BY <4>2, <4>3 DEF StdinQueue, Frame
      <4>5. /\ Len(guestIn'[s]) = Len(guestIn[s]) + 1
            /\ \A i \in 1..Len(guestIn[s]) : guestIn'[s][i] = guestIn[s][i]
            /\ guestIn'[s][Len(guestIn[s]) + 1] = Head(held[s]).k
        BY <4>1, <4>4, StdinLengths, AppendFacts
      <4>6. \A i \in 1..Len(guestIn'[s]) : guestIn'[s][i] = i
        BY <1>0, <2>2, <4>2, <4>4, <4>5, SMTT(20)
      <4>7. Len(held'[s]) = 0
        BY <3>1
      <4>8. StdinQueue(s)'
        BY <3>1, <4>2, <4>5, <4>7 DEF StdinQueue
      <4> QED
        BY <2>2, <4>6, <4>8, Zenon
    <3> QED
      BY <3>2, <3>3, Zenon
  <2> QED
    BY <2>1, <2>2, Zenon
<1>6. ASSUME NEW s \in Sessions, NEW q \in Addressable(s), ClientWrite(s, q) PROVE Kept(t)
  <2> DEFINE f == [s |-> s, k |-> written[s] + 1, q |-> q]
  <2>1. /\ UNCHANGED <<stdin, held, guestIn>>
        /\ fromClient'[t] = IF t = s THEN Append(fromClient[s], f) ELSE fromClient[t]
        /\ written'[t] = IF t = s THEN written[s] + 1 ELSE written[t]
    BY <1>6, Zenon DEF ClientWrite, stdinVars, TypeOK, SockTypeOK, HistoryTypeOK
  <2>2. CASE t # s
    BY <2>1, <2>2, StdinFrame, Zenon
  <2>3. CASE t = s /\ stdin[s] = "done"
    BY <1>0, <2>1, <2>3, ZenonT(20)
  <2>4. CASE t = s /\ stdin[s] # "done"
    <3>1. f \in Frame /\ f.k = written[s] + 1
      BY NumbersFacts, StdinLengths DEF Frame, Addressable, Streams
    <3>2. /\ Len(fromClient'[s]) = Len(fromClient[s]) + 1
          /\ \A i \in 1..Len(fromClient[s]) : fromClient'[s][i] = fromClient[s][i]
          /\ fromClient'[s][Len(fromClient[s]) + 1] = f
      <4> HIDE DEF f
      <4>1. fromClient'[s] = Append(fromClient[s], f) /\ fromClient[s] \in Seq(Frame)
        BY <2>1, <2>4, StdinLengths, Zenon
      <4> QED
        BY <3>1, <4>1, AppendFacts
    <3>3. /\ StdinQueue(s)
          /\ Len(guestIn[s]) \in Nat /\ Len(held[s]) \in Nat /\ Len(fromClient[s]) \in Nat
      BY <2>4, StdinLengths, Zenon DEF StdinInv
    <3> HIDE DEF f
    <3>4. StdinQueue(s)'
      <4> DEFINE g == Len(guestIn[s])
                 g2 == Len(guestIn'[s])
                 h == Len(held[s])
                 h2 == Len(held'[s])
                 n == Len(fromClient[s])
                 n2 == Len(fromClient'[s])
      <4>1. /\ g \in Nat /\ h \in Nat /\ n \in Nat /\ g2 = g /\ h2 = h /\ n2 = n + 1
            /\ written'[s] = written[s] + 1 /\ held'[s] = held[s]
        BY <2>1, <2>4, <3>2, <3>3, Zenon
      <4>0. written[s] = g + h + n
        BY <3>3, Zenon DEF StdinQueue
      <4>2. /\ written[s] = g + h + n
            /\ \A i \in 1..h : held[s][i].k = g + i
            /\ \A i \in 1..n : fromClient[s][i].k = g + h + i
        BY <3>3, ZenonT(20) DEF StdinQueue
      <4>3. /\ \A i \in 1..n : fromClient'[s][i] = fromClient[s][i]
            /\ fromClient'[s][n + 1].k = written[s] + 1
        BY <3>1, <3>2, Zenon
      <4>4. (StdinQueue(s)') <=>
              /\ written'[s] = g2 + h2 + n2
              /\ \A i \in 1..h2 : held'[s][i].k = g2 + i
              /\ \A i \in 1..n2 : fromClient'[s][i].k = g2 + h2 + i
        BY Zenon DEF StdinQueue
      <4> HIDE DEF g, g2, h, h2, n, n2
      <4>5. written'[s] = g2 + h2 + n2
        BY <4>0, <4>1
      <4>6. \A i \in 1..h2 : held'[s][i].k = g2 + i
        BY <4>1, <4>2, Zenon
      <4>7. ASSUME NEW i \in 1..n2 PROVE fromClient'[s][i].k = g2 + h2 + i
        <5>1. CASE i \in 1..n
          BY <4>1, <4>2, <4>3, <5>1, Zenon
        <5>2. CASE i = n + 1
          BY <4>1, <4>2, <4>3, <5>2, SMTT(20)
        <5> QED
          BY <4>1, <4>7, <5>1, <5>2
      <4> QED
        BY <4>4, <4>5, <4>6, <4>7, Zenon
    <3> QED
      BY <1>0, <2>1, <2>4, <3>4, Zenon
  <2> QED
    BY <2>2, <2>3, <2>4, Zenon
<1>7. CASE Reader \/ Closer \/ ConsoleEnd \/ Guest \/ UNCHANGED vars
           \/ \E s \in Sessions : ClientRead(s) \/ ClientExit(s)
  <2>1. UNCHANGED <<stdin, held, fromClient, written, guestIn>>
    BY <1>7, Zenon
       DEF Reader, ReaderRead, ReaderReadError, ReaderFind, ReaderSend, ReaderSendError,
                Closer, CloseSockets, CloseLock, CloseJoin, CloseUnlock, CloseDone, CloseSession,
                ConsoleEnd, Guest, GuestExit, GuestWrite, ClientRead, ClientExit,
                vars, stdinVars, sockVars, historyVars
  <2> QED
    BY <2>1, StdinFrame, Zenon
<1> QED
  BY <1>1, <1>2, <1>3, <1>4, <1>5, <1>6, <1>7, Zenon DEF Next, Stdin, Client

\* The guest gets the stdin of every session in the order in which its client
\* wrote it, without gaps and repetitions.
THEOREM StdinForwardedInOrder == Spec => []StdinInOrder
<1>1. TypeOK /\ TypeOK' /\ StdinInv /\ [Next]_vars => StdinInv'
  BY StdinNext, Zenon
<1>2. StdinInv => StdinInOrder
  BY Zenon DEF StdinInv
<1> QED
  BY <1>1, <1>2, StdinInit, TypeCorrect, PTL DEF Spec

-----------------------------------------------------------------------------
(* Output in order.  Routing depends on the map of sessions, and so the     *)
(* proofs build on the invariant about it.                                  *)

\* The frames of session s that the client has read or can read.
Arrived(s) == Len(got[s]) + Len(toClient[s])

\* The frame that ioHyperToClients is routing.
Routing == reader \in {"find", "send"}
Routed(s) == IF Routing /\ rframe[1].s = s THEN 1 ELSE 0

\* The frames of session s that have left the I/O channel.
Passed(s) == Arrived(s) + Routed(s)

\* What the client has read and what it can read is what was written first.
ClientQueue(s) ==
    /\ \A i \in 1..Len(got[s]) : got[s][i].s = s /\ got[s][i].k = i
    /\ \A i \in 1..Len(toClient[s]) :
          toClient[s][i].s = s /\ toClient[s][i].k = Len(got[s]) + i

\* The frame that is routed is the next one of its session.
RoutedNext ==
    Routing =>
        /\ Allocated(rframe[1].s) /\ rframe[1].q \in Numbers(rframe[1].s)
        /\ rframe[1].k = Arrived(rframe[1].s) + 1
        /\ reader = "send" => rsession = rframe[1].s

\* On the I/O channel are the other frames, each once and in order.
Addressed ==
    \A i \in 1..Len(guestOut) :
        /\ Allocated(guestOut[i].s) /\ guestOut[i].q \in Numbers(guestOut[i].s)
        /\ Passed(guestOut[i].s) < guestOut[i].k /\ guestOut[i].k <= sent[guestOut[i].s]
Ordered ==
    \A i, j \in 1..Len(guestOut) :
        i < j /\ guestOut[i].s = guestOut[j].s => guestOut[i].k < guestOut[j].k
Complete ==
    \A s \in Sessions :
        /\ Passed(s) <= sent[s]
        /\ \A k \in Nat :
              Passed(s) < k /\ k <= sent[s] =>
                  \E i \in 1..Len(guestOut) : guestOut[i].s = s /\ guestOut[i].k = k

\* As long as ioHyperToClients runs.
ReaderQueue ==
    reader \in {"read", "find", "send"} => RoutedNext /\ Addressed /\ Ordered /\ Complete

\* The inductive invariant about output.
OutputInv == (\A s \in Sessions : ClientQueue(s)) /\ ReaderQueue

\* Sums are numbers.
LEMMA SumFacts ==
    ASSUME NEW m \in Nat, NEW n \in Nat
    PROVE  m + n \in Nat /\ m + 0 = m /\ (m + 1) + n = m + (n + 1)
  OBVIOUS

\* Types of what the invariant is about.
LEMMA OutputTypes ==
    ASSUME TypeOK
    PROVE  /\ \A s \in Sessions :
                /\ got[s] \in Seq(Frame) /\ toClient[s] \in Seq(Frame)
                /\ Len(got[s]) \in Nat /\ Len(toClient[s]) \in Nat
                /\ Arrived(s) \in Nat /\ Passed(s) \in Nat /\ Routed(s) \in {0, 1} /\ sent[s] \in Nat
           /\ guestOut \in Seq(Frame) /\ Len(guestOut) \in Nat
           /\ \A i \in 1..Len(guestOut) :
                guestOut[i] \in Frame /\ guestOut[i].s \in Sessions /\ guestOut[i].k \in Nat
           /\ Routing => rframe[1] \in Frame /\ rframe[1].s \in Sessions /\ rframe[1].k \in Nat
<1>1. ASSUME NEW s \in Sessions
      PROVE  /\ got[s] \in Seq(Frame) /\ toClient[s] \in Seq(Frame)
             /\ Len(got[s]) \in Nat /\ Len(toClient[s]) \in Nat
             /\ Arrived(s) \in Nat /\ Passed(s) \in Nat /\ Routed(s) \in {0, 1} /\ sent[s] \in Nat
  <2>1. got[s] \in Seq(Frame) /\ toClient[s] \in Seq(Frame) /\ sent[s] \in 0..MaxOut
    BY Zenon DEF TypeOK, HistoryTypeOK, SockTypeOK
  <2>2. Len(got[s]) \in Nat /\ Len(toClient[s]) \in Nat /\ sent[s] \in Nat
    BY <2>1, BoundsAssumption
  <2>3. Routed(s) \in {0, 1}
    BY Zenon DEF Routed
  <2>4. Arrived(s) \in Nat
    BY <2>2, SumFacts, Zenon DEF Arrived
  <2>5. Passed(s) \in Nat
    BY <2>3, <2>4 DEF Passed
  <2> QED
    BY <2>1, <2>2, <2>3, <2>4, <2>5, Zenon
<1>2. guestOut \in Seq(Frame)
  BY Zenon DEF TypeOK, GuestTypeOK
<1>3. \A i \in 1..Len(guestOut) : guestOut[i] \in Frame
  BY <1>2
<1>4. Routing => rframe[1] \in Frame
  BY OnlyElement, Zenon DEF TypeOK, ReaderTypeOK, Routing
<1>5. \A f \in Frame : f.s \in Sessions /\ f.k \in Nat
  BY Zenon DEF Frame
<1> QED
  BY <1>1, <1>2, <1>3, <1>4, <1>5

\* Nothing has been written at first.
LEMMA OutputInit == Init => OutputInv
<1> SUFFICES ASSUME Init PROVE OutputInv
  BY Zenon
<1>1. ASSUME NEW s \in Sessions PROVE ClientQueue(s) /\ sent[s] = 0 /\ Passed(s) = 0
  <2>1. got[s] = <<>> /\ toClient[s] = <<>> /\ sent[s] = 0 /\ Len(<<>>) = 0 /\ ~ Routing
    BY Zenon DEF Init, Routing
  <2> QED
    BY <2>1 DEF ClientQueue, Passed, Arrived, Routed
<1>2. Len(guestOut) = 0 /\ ~ Routing
  BY Zenon DEF Init, Routing
<1> QED
  BY <1>1, <1>2 DEF OutputInv, ReaderQueue, RoutedNext, Addressed, Ordered, Complete

\* Steps that move no output keep the invariant.
LEMMA OutputFrame ==
    ASSUME TypeOK, OutputInv,
           UNCHANGED <<got, toClient, reader, rframe, rsession, guestOut, sent>>,
           \A s \in Sessions : Allocated(s) => Allocated(s)' /\ Numbers(s)' = Numbers(s)
    PROVE  OutputInv'
<1>1. /\ \A s \in Sessions : Passed(s)' = Passed(s) /\ Arrived(s)' = Arrived(s)
      /\ Routing' <=> Routing
  BY Zenon DEF Passed, Arrived, Routed, Routing
<1>2. \A s \in Sessions : ClientQueue(s)'
  BY Zenon DEF OutputInv, ClientQueue
<1>3. ASSUME reader \in {"read", "find", "send"}
      PROVE  (RoutedNext /\ Addressed /\ Ordered /\ Complete)'
  <2>1. RoutedNext /\ Addressed /\ Ordered /\ Complete
    BY <1>3, Zenon DEF OutputInv, ReaderQueue
  <2>2. RoutedNext'
    BY <1>1, <2>1, OutputTypes, Zenon DEF RoutedNext
  <2>3. Addressed'
    BY <1>1, <2>1, OutputTypes, Zenon DEF Addressed
  <2>4. Ordered' /\ Complete'
    BY <1>1, <2>1 DEF Ordered, Complete
  <2> QED
    BY <2>2, <2>3, <2>4, Zenon
<1> QED
  BY <1>2, <1>3, Zenon DEF OutputInv, ReaderQueue

\* The first frame on the I/O channel is the next one of its session.
LEMMA FirstIsNext ==
    ASSUME TypeOK, Addressed, Ordered, Complete, guestOut # <<>>
    PROVE  guestOut[1].k = Passed(guestOut[1].s) + 1
<1> DEFINE t == guestOut[1].s
           k == Passed(t) + 1
<1>1. /\ 1 \in 1..Len(guestOut) /\ t \in Sessions /\ guestOut[1].k \in Nat
      /\ Passed(t) \in Nat /\ sent[t] \in Nat
  BY OutputTypes, TailFacts
<1>2. Passed(t) < guestOut[1].k /\ guestOut[1].k <= sent[t]
  BY <1>1, Zenon DEF Addressed
<1>3. SUFFICES ASSUME k < guestOut[1].k PROVE FALSE
  BY <1>1, <1>2
<1>4. PICK i \in 1..Len(guestOut) : guestOut[i].s = t /\ guestOut[i].k = k
  <2>1. k \in Nat /\ Passed(t) < k /\ k <= sent[t]
    BY <1>1, <1>2, <1>3
  <2> QED
    BY <1>1, <2>1, Zenon DEF Complete
<1>5. i # 1
  BY <1>1, <1>3, <1>4
<1>6. 1 < i
  BY <1>5
<1>7. guestOut[1].k < k
  BY <1>1, <1>4, <1>6, Zenon DEF Ordered
<1> QED
  BY <1>1, <1>3, <1>7

\* The steps of ioHyperToClients keep the invariant.
LEMMA OutputReader ==
    ASSUME TypeOK, TypeOK', AllocInv, OutputInv, Reader
    PROVE  OutputInv'
<1>0. UNCHANGED <<allocVars, stdinVars, sent, got>> /\ closer' = closer
   BY Zenon DEF Reader, ReaderRead, ReaderReadError, ReaderFind, ReaderSend, ReaderSendError,
     historyVars,
         closeVars
<1>1. \A s \in Sessions : (Allocated(s)' <=> Allocated(s)) /\ Numbers(s)' = Numbers(s)
  BY <1>0, Zenon DEF Allocated, Numbers, allocVars, stdinVars
<1>2. CASE ReaderReadError \/ ReaderSendError
  <2>1. UNCHANGED toClient /\ reader' \notin {"read", "find", "send"}
    BY <1>2, Zenon DEF ReaderReadError, ReaderSendError, sockVars
  <2> QED
    BY <1>0, <2>1, Zenon DEF OutputInv, ReaderQueue, ClientQueue
<1>3. CASE ReaderRead
  <2>1. /\ reader = "read" /\ reader' = "find" /\ guestOut # <<>> /\ UNCHANGED toClient
        /\ rframe' = <<Head(guestOut)>> /\ guestOut' = Tail(guestOut)
    BY <1>3, Zenon DEF ReaderRead, sockVars
  <2>2. /\ Len(guestOut') = Len(guestOut) - 1 /\ Len(guestOut) \in Nat \ {0}
        /\ Head(guestOut) = guestOut[1] /\ guestOut[1] \in Frame
        /\ \A i \in 1..Len(guestOut') : i + 1 \in 1..Len(guestOut) /\ guestOut'[i] = guestOut[i + 1]
    BY <2>1, TailFacts, OutputTypes, Zenon
  <2>3. rframe'[1] = guestOut[1] /\ Routing' /\ ~ Routing
    BY <2>1, <2>2, Zenon DEF Routing
  <2>4. RoutedNext /\ Addressed /\ Ordered /\ Complete
    BY <2>1, Zenon DEF OutputInv, ReaderQueue
  <2>5. PICK t \in Sessions : t = guestOut[1].s /\ guestOut[1].k = Passed(t) + 1
    BY <2>1, <2>2, <2>4, FirstIsNext, OutputTypes
  <2>6. \A s \in Sessions :
           /\ Arrived(s)' = Arrived(s) /\ Passed(s) = Arrived(s)
           /\ Passed(s)' = IF s = t THEN Passed(s) + 1 ELSE Passed(s)
           /\ Passed(s) \in Nat /\ sent[s] \in Nat
    <3> TAKE s \in Sessions
    <3>1. Arrived(s) \in Nat /\ Passed(s) \in Nat /\ sent[s] \in Nat
      BY OutputTypes, Zenon
    <3>2. Arrived(s)' = Arrived(s)
      BY <1>0, <2>1, Zenon DEF Arrived
    <3>3. Routed(s) = 0 /\ Routed(s)' = IF s = t THEN 1 ELSE 0
      BY <2>3, <2>5, Zenon DEF Routed
    <3> QED
      BY <3>1, <3>2, <3>3 DEF Passed
  <2>7. \A s \in Sessions : ClientQueue(s)'
    BY <1>0, <2>1, Zenon DEF OutputInv, ClientQueue
  <2>8. RoutedNext'
    <3>1. Allocated(t) /\ guestOut[1].q \in Numbers(t)
      BY <2>2, <2>4, <2>5 DEF Addressed
    <3> QED
      BY <1>1, <2>1, <2>3, <2>5, <2>6, <3>1, Zenon DEF RoutedNext
  <2>9. Addressed'
    <3> SUFFICES ASSUME NEW i \in 1..Len(guestOut')
                 PROVE  (/\ Allocated(guestOut[i].s) /\ guestOut[i].q \in Numbers(guestOut[i].s)
                         /\ Passed(guestOut[i].s) < guestOut[i].k
                         /\ guestOut[i].k <= sent[guestOut[i].s])'
      BY Zenon DEF Addressed
    <3>1. /\ i + 1 \in 1..Len(guestOut) /\ guestOut'[i] = guestOut[i + 1]
          /\ 1 \in 1..Len(guestOut) /\ 1 < i + 1
      BY <2>2
    <3>2. PICK f \in Frame, u \in Sessions : f = guestOut[i + 1] /\ u = f.s
      BY <3>1, OutputTypes, Zenon
    <3>3. /\ Allocated(u) /\ f.q \in Numbers(u) /\ Passed(u) < f.k /\ f.k <= sent[u]
          /\ f.k \in Nat /\ guestOut[1].k \in Nat
      BY <2>4, <3>1, <3>2, OutputTypes, Zenon DEF Addressed
    <3>4. u = t => guestOut[1].k < f.k
      BY <2>4, <2>5, <3>1, <3>2, Zenon DEF Ordered
    <3>5. Passed(u)' < f.k
      BY <2>5, <2>6, <3>3, <3>4
    <3>6. Allocated(u)' /\ f.q \in Numbers(u)' /\ f.k <= sent'[u]
      BY <1>0, <1>1, <3>3, Zenon
    <3> QED
      BY <3>1, <3>2, <3>5, <3>6, Zenon
  <2>10. Ordered'
    <3> SUFFICES ASSUME NEW i \in 1..Len(guestOut'), NEW j \in 1..Len(guestOut'), i < j,
                        guestOut'[i].s = guestOut'[j].s
                 PROVE  guestOut'[i].k < guestOut'[j].k
      BY Zenon DEF Ordered
    <3>1. i + 1 \in 1..Len(guestOut) /\ j + 1 \in 1..Len(guestOut) /\ i + 1 < j + 1
      BY <2>2
    <3> QED
      BY <2>2, <2>4, <3>1, Zenon DEF Ordered
  <2>11. Complete'
    <3>0. ASSUME NEW s \in Sessions PROVE Passed(s)' <= sent'[s]
      <4>1. guestOut[1].k <= sent[t] /\ Passed(s) <= sent[s]
        BY <2>2, <2>4, <2>5 DEF Addressed, Complete
      <4>2. Passed(s)' = (IF s = t THEN guestOut[1].k ELSE Passed(s)) /\ sent' = sent
        BY <1>0, <2>5, <2>6, Zenon
      <4> QED
        BY <4>1, <4>2, Zenon
    <3> SUFFICES ASSUME NEW s \in Sessions, NEW k \in Nat, Passed(s)' < k, k <= sent[s]
                 PROVE  \E i \in 1..Len(guestOut') : guestOut'[i].s = s /\ guestOut'[i].k = k
      BY <1>0, <3>0 DEF Complete
    <3>1. Passed(s) < k
      BY <2>6
    <3>2. PICK i \in 1..Len(guestOut) : guestOut[i].s = s /\ guestOut[i].k = k
      BY <2>4, <3>1 DEF Complete
    <3>3. i # 1
      BY <2>5, <2>6, <3>2
    <3>4. i - 1 \in 1..Len(guestOut') /\ (i - 1) + 1 = i
      BY <2>2, <3>3
    <3>5. guestOut'[i - 1] = guestOut[i]
      BY <2>2, <3>4, Zenon
    <3> QED
      BY <3>2, <3>4, <3>5, Zenon
  <2> QED
    BY <2>7, <2>8, <2>9, <2>10, <2>11, Zenon DEF OutputInv, ReaderQueue
<1>4. CASE ReaderFind
  <2>1. /\ reader = "find" /\ rsession' = FindSession(rframe[1].q)
        /\ UNCHANGED <<toClient, guestOut>> /\ LockFree
    BY <1>4, Zenon DEF ReaderFind, sockVars, guestVars
  <2>2. RoutedNext /\ Addressed /\ Ordered /\ Complete
    BY <2>1, Zenon DEF OutputInv, ReaderQueue
  <2>3. PICK t \in Sessions :
           /\ t = rframe[1].s /\ Allocated(t) /\ rframe[1].q \in Numbers(t)
           /\ rframe[1].k = Arrived(t) + 1
    BY <2>1, <2>2, OutputTypes, Zenon DEF RoutedNext, Routing
  <2>4. closer = "wait"
    BY <2>1, Zenon DEF AllocInv, ReaderFirst
  <2>5. rsession' = t /\ t # NoSession
    BY <2>1, <2>3, <2>4, NoSessionAssumption, Zenon DEF AllocInv, MapFull, FindSession
  <2>6. reader' = "send" /\ UNCHANGED rframe
    BY <1>4, <2>5, Zenon DEF ReaderFind
  <2>7. /\ Routing /\ Routing'
        /\ \A s \in Sessions : Arrived(s)' = Arrived(s) /\ Passed(s)' = Passed(s)
    BY <1>0, <2>1, <2>6, Zenon DEF Routing, Arrived, Passed, Routed
  <2>8. \A s \in Sessions : ClientQueue(s)'
    BY <1>0, <2>1, Zenon DEF OutputInv, ClientQueue
  <2>9. RoutedNext'
    BY <1>1, <2>3, <2>5, <2>6, <2>7, Zenon DEF RoutedNext
  <2>10. Addressed'
    BY <1>0, <1>1, <2>1, <2>2, <2>7, OutputTypes, Zenon DEF Addressed
  <2>11. Ordered' /\ Complete'
    BY <1>0, <2>1, <2>2, <2>7 DEF Ordered, Complete
  <2> QED
    BY <2>8, <2>9, <2>10, <2>11, Zenon DEF OutputInv, ReaderQueue
<1>5. CASE ReaderSend
  <2>1. /\ reader = "send" /\ reader' = "read" /\ UNCHANGED guestOut
        /\ toClient' = [toClient EXCEPT ![rsession] = Append(toClient[rsession], rframe[1])]
    BY <1>5, Zenon DEF ReaderSend, guestVars
  <2>2. RoutedNext /\ Addressed /\ Ordered /\ Complete /\ Routing /\ ~ Routing'
    BY <2>1, Zenon DEF OutputInv, ReaderQueue, Routing
  <2>3. PICK t \in Sessions, f \in Frame :
           f = rframe[1] /\ t = f.s /\ rsession = t /\ f.k = Arrived(t) + 1
    BY <2>1, <2>2, OutputTypes, Zenon DEF RoutedNext
  <2>4. /\ \A s \in Sessions : s # t => toClient'[s] = toClient[s]
        /\ toClient'[t] = Append(toClient[t], f) /\ toClient[t] \in Seq(Frame)
    <3>1. DOMAIN toClient = Sessions
      BY Zenon DEF TypeOK, SockTypeOK
    <3>2. toClient[t] \in Seq(Frame)
      BY OutputTypes, Zenon
    <3> QED
      BY <2>1, <2>3, <3>1, <3>2, Zenon
  <2>5. /\ Len(toClient'[t]) = Len(toClient[t]) + 1 /\ Len(toClient[t]) \in Nat
        /\ \A i \in 1..Len(toClient[t]) : toClient'[t][i] = toClient[t][i]
        /\ toClient'[t][Len(toClient[t]) + 1] = f
    BY <2>4, AppendFacts
  <2>6. \A s \in Sessions : Passed(s)' = Passed(s)
    <3> TAKE s \in Sessions
    <3>1. Arrived(s) \in Nat /\ Routed(s)' = 0
      BY <2>2, OutputTypes, Zenon DEF Routed
    <3>2. CASE s # t
      <4>1. Arrived(s)' = Arrived(s) /\ Routed(s) = 0
        BY <1>0, <2>3, <2>4, <3>2, ZenonT(20) DEF Arrived, Routed
      <4> QED
        BY <3>1, <4>1, Zenon DEF Passed
    <3>3. CASE s = t
      <4> DEFINE g == Len(got[t])
                 n == Len(toClient[t])
      <4>1. Arrived(t)' = g + (n + 1) /\ Arrived(t) = g + n /\ g \in Nat /\ n \in Nat
        BY <1>0, <2>5, OutputTypes, Zenon DEF Arrived
      <4> HIDE DEF g, n
      <4>2. Arrived(t)' = Arrived(t) + 1
        BY <4>1
      <4>3. Routed(t) = 1
        BY <2>2, <2>3, Zenon DEF Routed
      <4> QED
        BY <3>1, <3>3, <4>2, <4>3 DEF Passed
    <3> QED
      BY <3>2, <3>3, Zenon
  <2>7. ASSUME NEW s \in Sessions PROVE ClientQueue(s)'
    <3>1. CASE s # t
      BY <1>0, <2>4, <3>1, SMTT(20) DEF OutputInv, ClientQueue
    <3>2. CASE s = t
      <4> DEFINE n == Len(toClient[t])
                 g == Len(got[t])
                 n2 == Len(toClient'[t])
      <4>1. /\ n \in Nat /\ g \in Nat /\ n2 = n + 1 /\ f.k = g + n + 1 /\ f.s = t
            /\ \A i \in 1..n : toClient'[t][i] = toClient[t][i]
            /\ toClient'[t][n + 1] = f
        BY <2>3, <2>5, OutputTypes, Zenon DEF Arrived
      <4>2. \A i \in 1..n : toClient[t][i].s = t /\ toClient[t][i].k = g + i
        BY Zenon DEF OutputInv, ClientQueue
      <4>3. /\ got' = got
            /\ (\A i \in 1..n2 : toClient'[t][i].s = t /\ toClient'[t][i].k = g + i)
                  => ClientQueue(t)'
        BY <1>0, Zenon DEF OutputInv, ClientQueue
      <4> HIDE DEF n, g, n2
      <4>4. ASSUME NEW i \in 1..n2 PROVE toClient'[t][i].s = t /\ toClient'[t][i].k = g + i
        <5>1. CASE i \in 1..n
          BY <4>1, <4>2, <5>1, Zenon
        <5>2. CASE i = n + 1
          BY <4>1, <5>2
        <5> QED
          BY <4>1, <4>4, <5>1, <5>2
      <4> QED
        BY <3>2, <4>3, <4>4, Zenon
    <3> QED
      BY <3>1, <3>2, Zenon
  <2>8. RoutedNext'
    BY <2>2, Zenon DEF RoutedNext
  <2>9. Addressed'
    BY <1>0, <1>1, <2>1, <2>2, <2>6, OutputTypes, ZenonT(20) DEF Addressed
  <2>10. Ordered' /\ Complete'
    BY <1>0, <2>1, <2>2, <2>6 DEF Ordered, Complete
  <2> QED
    BY <2>7, <2>8, <2>9, <2>10, Zenon DEF OutputInv, ReaderQueue
<1> QED
  BY <1>2, <1>3, <1>4, <1>5, Zenon DEF Reader
\* A client reads its queue from the front.
LEMMA OutputClient ==
    ASSUME TypeOK, TypeOK', OutputInv, NEW t \in Sessions, ClientRead(t)
    PROVE  OutputInv'
<1>1. /\ toClient[t] # <<>> /\ UNCHANGED <<allocVars, stdinVars, readerVars, guestVars, sent>>
      /\ got' = [got EXCEPT ![t] = Append(got[t], Head(toClient[t]))]
      /\ toClient' = [toClient EXCEPT ![t] = Tail(toClient[t])]
  BY Zenon DEF ClientRead
<1>2. /\ \A s \in Sessions : s # t => toClient'[s] = toClient[s] /\ got'[s] = got[s]
      /\ got'[t] = Append(got[t], Head(toClient[t])) /\ toClient'[t] = Tail(toClient[t])
      /\ got[t] \in Seq(Frame) /\ toClient[t] \in Seq(Frame)
  BY <1>1, OutputTypes, Zenon DEF TypeOK, SockTypeOK, HistoryTypeOK
<1> DEFINE g == Len(got[t])
           n == Len(toClient[t])
           g2 == Len(got'[t])
           n2 == Len(toClient'[t])
<1>3. /\ g \in Nat /\ n \in Nat \ {0} /\ g2 = g + 1 /\ n2 = n - 1
      /\ \A i \in 1..g : got'[t][i] = got[t][i]
      /\ got'[t][g + 1] = toClient[t][1]
      /\ \A i \in 1..n2 : toClient'[t][i] = toClient[t][i + 1]
  <2>1. /\ Head(toClient[t]) = toClient[t][1] /\ Head(toClient[t]) \in Frame
        /\ Len(toClient[t]) \in Nat \ {0} /\ Len(toClient'[t]) = Len(toClient[t]) - 1
        /\ \A i \in 1..Len(toClient'[t]) : toClient'[t][i] = toClient[t][i + 1]
    <3>1. toClient[t] # <<>> /\ toClient[t] \in Seq(Frame) /\ toClient'[t] = Tail(toClient[t])
      BY <1>1, <1>2, Zenon
    <3> QED
      BY <3>1, TailFacts, ZenonT(20)
  <2>2. /\ Len(got[t]) \in Nat /\ Len(got'[t]) = Len(got[t]) + 1
        /\ \A i \in 1..Len(got[t]) : got'[t][i] = got[t][i]
        /\ got'[t][Len(got[t]) + 1] = Head(toClient[t])
    BY <1>2, <2>1, AppendFacts
  <2> QED
    BY <2>1, <2>2, Zenon
<1>4. /\ Arrived(t) = g + n /\ Arrived(t)' = g2 + n2
      /\ \A i \in 1..g : got[t][i].s = t /\ got[t][i].k = i
      /\ \A i \in 1..n : toClient[t][i].s = t /\ toClient[t][i].k = g + i
      /\ ClientQueue(t)' <=>
           /\ \A i \in 1..g2 : got'[t][i].s = t /\ got'[t][i].k = i
           /\ \A i \in 1..n2 : toClient'[t][i].s = t /\ toClient'[t][i].k = g2 + i
  BY Zenon DEF OutputInv, ClientQueue, Arrived
<1> HIDE DEF g, n, g2, n2
<1>5. \A s \in Sessions : Arrived(s)' = Arrived(s)
  <2>1. Arrived(t)' = Arrived(t)
    BY <1>3, <1>4
  <2>2. \A s \in Sessions : s # t => Arrived(s)' = Arrived(s)
    BY <1>2, ZenonT(20) DEF Arrived
  <2> QED
    BY <2>1, <2>2, Zenon
<1>6. (Routing' <=> Routing) /\ \A s \in Sessions : Passed(s)' = Passed(s)
  BY <1>1, <1>5, Zenon DEF Passed, Routed, Routing, readerVars
<1>7. \A s \in Sessions : (Allocated(s)' <=> Allocated(s)) /\ Numbers(s)' = Numbers(s)
  BY <1>1, Zenon DEF Allocated, Numbers, allocVars, stdinVars
<1>8. ClientQueue(t)'
  <2>1. ASSUME NEW i \in 1..g2 PROVE got'[t][i].s = t /\ got'[t][i].k = i
    <3>1. CASE i \in 1..g
      BY <1>3, <1>4, <3>1, Zenon
    <3>2. CASE i = g + 1
      BY <1>3, <1>4, <3>2
    <3> QED
      BY <1>3, <2>1, <3>1, <3>2, SMTT(20)
  <2>2. ASSUME NEW i \in 1..n2 PROVE toClient'[t][i].s = t /\ toClient'[t][i].k = g2 + i
    <3>1. i + 1 \in 1..n /\ toClient'[t][i] = toClient[t][i + 1] /\ g + (i + 1) = g2 + i
      BY <1>3, <2>2
    <3> QED
      BY <1>4, <3>1, Zenon
  <2> QED
    BY <1>4, <2>1, <2>2, Zenon
<1>9. \A s \in Sessions : ClientQueue(s)'
  <2>1. ASSUME NEW s \in Sessions, s # t PROVE ClientQueue(s)'
    <3>1. ClientQueue(s) /\ toClient'[s] = toClient[s] /\ got'[s] = got[s]
      BY <1>2, <2>1, Zenon DEF OutputInv
    <3> QED
      BY <3>1, Zenon DEF ClientQueue
  <2> QED
    BY <1>8, <2>1, Zenon
<1>10. ASSUME reader \in {"read", "find", "send"}
       PROVE  (RoutedNext /\ Addressed /\ Ordered /\ Complete)'
  <2>1. RoutedNext /\ Addressed /\ Ordered /\ Complete
    BY <1>10, Zenon DEF OutputInv, ReaderQueue
  <2>2. UNCHANGED <<reader, rframe, rsession, guestOut, sent>>
    BY <1>1, Zenon DEF readerVars, guestVars
  <2>3. RoutedNext'
    BY <1>5, <1>6, <1>7, <2>1, <2>2, OutputTypes, Zenon DEF RoutedNext
  <2>4. Addressed'
    BY <1>6, <1>7, <2>1, <2>2, OutputTypes, Zenon DEF Addressed
  <2>5. Ordered'
    BY <2>1, <2>2, Zenon DEF Ordered
  <2>6. Complete'
    <3>1. ASSUME NEW s \in Sessions
          PROVE  /\ Passed(s) <= sent[s]
                 /\ \A k \in Nat : Passed(s) < k /\ k <= sent[s] =>
                       \E i \in 1..Len(guestOut) : guestOut[i].s = s /\ guestOut[i].k = k
      BY <2>1, Zenon DEF Complete
    <3>2. ASSUME NEW s \in Sessions
          PROVE  (/\ Passed(s) <= sent[s]
                  /\ \A k \in Nat : Passed(s) < k /\ k <= sent[s] =>
                        \E i \in 1..Len(guestOut) : guestOut[i].s = s /\ guestOut[i].k = k)'
      <4>1. Passed(s)' = Passed(s) /\ guestOut' = guestOut /\ sent' = sent
        BY <1>6, <2>2, Zenon
      <4>2. Passed(s)' <= sent'[s]
        BY <3>1, <4>1, Zenon
      <4>3. ASSUME NEW k \in Nat, Passed(s)' < k, k <= sent'[s]
            PROVE  \E i \in 1..Len(guestOut') : guestOut'[i].s = s /\ guestOut'[i].k = k
        <5>1. Passed(s) < k /\ k <= sent[s]
          BY <4>1, <4>3, Zenon
        <5>2. \E i \in 1..Len(guestOut) : guestOut[i].s = s /\ guestOut[i].k = k
          BY <3>1, <5>1, Zenon
        <5> QED
          BY <4>1, <5>2, Zenon
      <4> QED
        BY <4>2, <4>3, Zenon
    <3> QED
      BY <3>2, Zenon DEF Complete
  <2> QED
    BY <2>3, <2>4, <2>5, <2>6, Zenon
<1> QED
  BY <1>1, <1>9, <1>10, Zenon DEF OutputInv, ReaderQueue, readerVars

\* A frame that the guest writes is the last one of its session.
LEMMA OutputGuest ==
    ASSUME TypeOK, TypeOK', AllocInv, OutputInv,
           NEW t \in Sessions, NEW q \in Addressable(t), GuestWrite(t, q)
    PROVE  OutputInv'
<1> DEFINE f == [s |-> t, k |-> sent[t] + 1, q |-> q]
           n == Len(guestOut)
           n2 == Len(guestOut')
<1>1. /\ Allocated(t) /\ guestOut' = Append(guestOut, f)
      /\ sent' = [sent EXCEPT ![t] = sent[t] + 1]
      /\ UNCHANGED <<got, toClient, allocVars, stdinVars, readerVars>>
  BY Zenon DEF GuestWrite, sockVars
<1>2. q \in Numbers(t) /\ q \in Nat
  <2>1. nStreams[t] >= 1 /\ ioBase[t] \in Nat
    BY <1>1, NumbersFacts, Zenon DEF AllocInv, Disjoint
  <2>2. q \in Numbers(t)
    BY <2>1, NumbersFacts, Zenon
  <2> QED
    BY <2>1, <2>2, NumbersFacts, SMTT(20) DEF Numbers
<1>3. f \in Frame /\ f.s = t /\ f.k = sent[t] + 1 /\ f.q = q
  <2>1. sent[t] \in Nat
    BY OutputTypes, Zenon
  <2>2. sent[t] + 1 \in Nat \ {0}
    BY <2>1, Successor, Zenon
  <2> QED
    BY <1>2, <2>2, Zenon DEF Frame
<1>4. /\ sent'[t] = sent[t] + 1 /\ \A s \in Sessions : s # t => sent'[s] = sent[s]
      /\ \A s \in Sessions : sent[s] \in Nat /\ sent'[s] \in Nat
  <2>1. \A s \in Sessions : sent[s] \in Nat
    BY OutputTypes, Zenon
  <2>2. DOMAIN sent = Sessions
    BY Zenon DEF TypeOK, HistoryTypeOK
  <2>3. sent'[t] = sent[t] + 1 /\ \A s \in Sessions : s # t => sent'[s] = sent[s]
    BY <1>1, <2>2, Zenon
  <2>4. sent[t] + 1 \in Nat
    BY <2>1
  <2> QED
    BY <2>1, <2>3, <2>4, Zenon
<1>4a. \A s \in Sessions : /\ sent[s] \in Nat /\ sent'[s] \in Nat
                           /\ sent'[s] = sent[s] \/ sent'[s] = sent[s] + 1
  BY <1>4, Zenon
<1> HIDE DEF f
<1>5. /\ n \in Nat /\ n2 = n + 1 /\ guestOut'[n + 1] = f
      /\ \A i \in 1..n : guestOut'[i] = guestOut[i]
  <2>1. guestOut \in Seq(Frame)
    BY OutputTypes, Zenon
  <2>2. f \in Frame
    BY <1>3, Zenon
  <2>3. /\ Len(guestOut) \in Nat /\ Len(Append(guestOut, f)) = Len(guestOut) + 1
        /\ \A i \in 1..Len(guestOut) : Append(guestOut, f)[i] = guestOut[i]
        /\ Append(guestOut, f)[Len(guestOut) + 1] = f
    BY <2>1, <2>2
  <2> QED
    BY <1>1, <2>3, Zenon
<1>6. /\ \A s \in Sessions : Passed(s)' = Passed(s) /\ Arrived(s)' = Arrived(s)
      /\ Routing' <=> Routing
  BY <1>1, Zenon DEF Passed, Arrived, Routed, Routing, readerVars
<1>7. \A s \in Sessions : (Allocated(s)' <=> Allocated(s)) /\ Numbers(s)' = Numbers(s)
  BY <1>1, Zenon DEF Allocated, Numbers, allocVars, stdinVars
<1>8. \A s \in Sessions : ClientQueue(s)'
  BY <1>1, Zenon DEF OutputInv, ClientQueue
<1>9. ASSUME reader \in {"read", "find", "send"}
      PROVE  (RoutedNext /\ Addressed /\ Ordered /\ Complete)'
  <2>1. RoutedNext /\ Addressed /\ Ordered /\ Complete
    BY <1>9, Zenon DEF OutputInv, ReaderQueue
  <2>2. RoutedNext'
    BY <1>1, <1>6, <1>7, <2>1, OutputTypes, Zenon DEF RoutedNext, readerVars
  <2>3. \A s \in Sessions : Passed(s) \in Nat /\ Passed(s) <= sent[s]
    BY <2>1, OutputTypes, Zenon DEF Complete
  <2>4. \A i \in 1..n :
           /\ guestOut[i].s \in Sessions /\ guestOut[i].k \in Nat
           /\ Allocated(guestOut[i].s) /\ guestOut[i].q \in Numbers(guestOut[i].s)
           /\ Passed(guestOut[i].s) < guestOut[i].k /\ guestOut[i].k <= sent[guestOut[i].s]
    BY <2>1, OutputTypes, Zenon DEF Addressed
  <2>5. \A i \in 1..n2 : i \in 1..n \/ i = n + 1
    BY <1>5, LastIndex, Zenon
  <2>6. /\ Addressed' <=>
             \A i \in 1..n2 :
                (/\ Allocated(guestOut[i].s) /\ guestOut[i].q \in Numbers(guestOut[i].s)
                 /\ Passed(guestOut[i].s) < guestOut[i].k
                 /\ guestOut[i].k <= sent[guestOut[i].s])'
        /\ Ordered' <=>
             \A i, j \in 1..n2 :
                i < j /\ guestOut'[i].s = guestOut'[j].s => guestOut'[i].k < guestOut'[j].k
        /\ Complete' <=>
             \A s \in Sessions :
                /\ Passed(s)' <= sent'[s]
                /\ \A k \in Nat :
                      Passed(s)' < k /\ k <= sent'[s] =>
                          \E i \in 1..n2 : guestOut'[i].s = s /\ guestOut'[i].k = k
        /\ \A i, j \in 1..n :
              i < j /\ guestOut[i].s = guestOut[j].s => guestOut[i].k < guestOut[j].k
        /\ \A s \in Sessions : \A k \in Nat :
              Passed(s) < k /\ k <= sent[s] =>
                  \E i \in 1..n : guestOut[i].s = s /\ guestOut[i].k = k
    <3>1. Addressed' <=>
             \A i \in 1..n2 :
                (/\ Allocated(guestOut[i].s) /\ guestOut[i].q \in Numbers(guestOut[i].s)
                 /\ Passed(guestOut[i].s) < guestOut[i].k
                 /\ guestOut[i].k <= sent[guestOut[i].s])'
      BY Zenon DEF Addressed
    <3>2. Ordered' <=>
             \A i, j \in 1..n2 :
                i < j /\ guestOut'[i].s = guestOut'[j].s => guestOut'[i].k < guestOut'[j].k
      BY Zenon DEF Ordered
    <3>3. Complete' <=>
             \A s \in Sessions :
                /\ Passed(s)' <= sent'[s]
                /\ \A k \in Nat :
                      Passed(s)' < k /\ k <= sent'[s] =>
                          \E i \in 1..n2 : guestOut'[i].s = s /\ guestOut'[i].k = k
      BY Zenon DEF Complete
    <3>4. \A i, j \in 1..n :
             i < j /\ guestOut[i].s = guestOut[j].s => guestOut[i].k < guestOut[j].k
      BY <2>1, Zenon DEF Ordered
    <3>5. \A s \in Sessions : \A k \in Nat :
             Passed(s) < k /\ k <= sent[s] =>
                 \E i \in 1..n : guestOut[i].s = s /\ guestOut[i].k = k
      BY <2>1, Zenon DEF Complete
    <3> QED
      BY <3>1, <3>2, <3>3, <3>4, <3>5, Zenon
  <2> HIDE DEF n, n2
  <2>7. Addressed'
    <3> SUFFICES ASSUME NEW i \in 1..n2
                 PROVE  (/\ Allocated(guestOut[i].s) /\ guestOut[i].q \in Numbers(guestOut[i].s)
                         /\ Passed(guestOut[i].s) < guestOut[i].k
                         /\ guestOut[i].k <= sent[guestOut[i].s])'
      BY <2>6, Zenon
    <3>1. CASE i \in 1..n
      <4>1. PICK u \in Sessions : u = guestOut[i].s
        BY <2>4, <3>1, Zenon
      <4>2. /\ guestOut'[i] = guestOut[i] /\ guestOut[i].k \in Nat
            /\ Allocated(u) /\ guestOut[i].q \in Numbers(u)
            /\ Passed(u) < guestOut[i].k /\ guestOut[i].k <= sent[u]
        <5>1. guestOut'[i] = guestOut[i]
          BY <1>5, <3>1, Zenon
        <5> QED
          BY <2>4, <3>1, <4>1, <5>1, Zenon
      <4>3. guestOut[i].k <= sent'[u]
        <5>1. \A y \in Nat : y <= sent[u] => y <= sent'[u]
          BY <1>4a, Grown, Zenon
        <5> QED
          BY <4>2, <5>1, Zenon
      <4> QED
        BY <1>6, <1>7, <4>1, <4>2, <4>3, Zenon
    <3>2. CASE i = n + 1
      <4>1. Passed(t) < f.k
        <5>1. Passed(t) < sent[t] + 1
          BY <1>4, <2>3, Successor, Zenon
        <5> QED
          BY <1>3, <5>1, Zenon
      <4>2. f.k <= sent'[t]
        <5>1. sent[t] \in Nat /\ f.k = sent[t] + 1 /\ sent'[t] = sent[t] + 1
          BY <1>3, <1>4, Zenon
        <5> QED
          BY <5>1, Successor, Zenon
      <4> QED
        BY <1>1, <1>2, <1>3, <1>5, <1>6, <1>7, <3>2, <4>1, <4>2, ZenonT(20)
    <3> QED
      BY <2>5, <3>1, <3>2, Zenon
  <2>8. Ordered'
    <3> SUFFICES ASSUME NEW i \in 1..n2, NEW j \in 1..n2, i < j,
                        guestOut'[i].s = guestOut'[j].s
                 PROVE  guestOut'[i].k < guestOut'[j].k
      BY <2>6, Zenon
    <3>1. i \in 1..n /\ guestOut'[i] = guestOut[i]
      BY <1>5, LastIndex, Zenon
    <3>2. CASE j \in 1..n
      BY <1>5, <2>6, <3>1, <3>2, ZenonT(20)
    <3>3. CASE j = n + 1
      <4>1. guestOut[i].s = t /\ guestOut'[j].k = sent[t] + 1
        BY <1>3, <1>5, <3>1, <3>3, Zenon
      <4>2. guestOut[i].k \in Nat /\ guestOut[i].k <= sent[t]
        BY <2>4, <3>1, <4>1, Zenon
      <4> QED
        <5>1. guestOut[i].k < sent[t] + 1
          BY <1>4, <4>2, Successor, Zenon
        <5> QED
          BY <3>1, <4>1, <5>1, Zenon
    <3> QED
      BY <2>5, <3>2, <3>3, Zenon
  <2>9. Complete'
    <3>1. ASSUME NEW s \in Sessions PROVE Passed(s)' <= sent'[s]
      <4>1. Passed(s) <= sent'[s]
        BY <1>4a, <2>3, Grown, Zenon
      <4> QED
        BY <1>6, <4>1, Zenon
    <3>2. ASSUME NEW s \in Sessions, NEW k \in Nat, Passed(s)' < k, k <= sent'[s]
          PROVE  \E i \in 1..n2 : guestOut'[i].s = s /\ guestOut'[i].k = k
      <4>1. CASE k <= sent[s]
        <5>1. PICK i \in 1..n : guestOut[i].s = s /\ guestOut[i].k = k
          <6>1. Passed(s) < k
            BY <1>6, <3>2, Zenon
          <6> QED
            BY <2>6, <4>1, <6>1, Zenon
        <5>2. i \in 1..n2 /\ guestOut'[i] = guestOut[i]
          BY <1>5, LastIndex, Zenon
        <5> QED
          BY <5>1, <5>2, Zenon
      <4>2. CASE ~ (k <= sent[s])
        <5>1. s = t /\ k = sent[t] + 1
          <6>1. k = sent[s] + 1
            BY <1>4a, <3>2, <4>2, Grown, Zenon
          <6>2. s = t
            <7>1. ASSUME s # t PROVE FALSE
              <8>1. sent'[s] = sent[s]
                BY <1>4, <7>1, Zenon
              <8> QED
                BY <3>2, <4>2, <8>1, Zenon
            <7> QED
              BY <7>1, Zenon
          <6> QED
            BY <6>1, <6>2, Zenon
        <5>2. n + 1 \in 1..n2
          BY <1>5, LastIndex, Zenon
        <5> QED
          BY <1>3, <1>5, <5>1, <5>2, Zenon
      <4> QED
        BY <4>1, <4>2, Zenon
    <3>3. ASSUME NEW s \in Sessions
          PROVE  \A k \in Nat : Passed(s)' < k /\ k <= sent'[s] =>
                    \E i \in 1..n2 : guestOut'[i].s = s /\ guestOut'[i].k = k
      BY <3>2, Zenon
    <3> QED
      BY <2>6, <3>1, <3>3, Zenon
  <2> QED
    BY <2>2, <2>7, <2>8, <2>9, Zenon
<1> QED
  BY <1>1, <1>8, <1>9, Zenon DEF OutputInv, ReaderQueue, readerVars

\* Every step keeps the invariant.
LEMMA OutputNext ==
    ASSUME TypeOK, TypeOK', AllocInv, OutputInv, [Next]_vars
    PROVE  OutputInv'
<1>1. ASSUME NEW s \in Sessions, NEW m \in NStreams, AllocateIo(s, m) PROVE OutputInv'
  <2>1. /\ ~ Allocated(s)
        /\ UNCHANGED <<got, toClient, reader, rframe, rsession, guestOut, sent>>
        /\ \A u \in Sessions : u # s => /\ stdin'[u] = stdin[u] /\ ioBase'[u] = ioBase[u]
                                       /\ nStreams'[u] = nStreams[u]
    BY <1>1, SMTT(20)
       DEF AllocateIo, readerVars, guestVars, historyVars, TypeOK, AllocTypeOK, StdinTypeOK
  <2>2. \A u \in Sessions : Allocated(u) => Allocated(u)' /\ Numbers(u)' = Numbers(u)
    BY <2>1, Zenon DEF Allocated, Numbers
  <2> QED
    BY <2>1, <2>2, OutputFrame, Zenon
<1>2. ASSUME NEW s \in Sessions, Stdin(s) PROVE OutputInv'
  <2>1. UNCHANGED <<got, toClient, reader, rframe, rsession, guestOut, sent, ioBase, nStreams>>
    BY <1>2, Zenon
       DEF Stdin, StartStdin, StdinRead, StdinReadError, StdinSend, allocVars, sockVars,
                readerVars, guestVars, historyVars
  <2>2. \A u \in Sessions : Allocated(u) => Allocated(u)'
    BY <1>2, ZenonT(20)
       DEF Stdin, StartStdin, StdinRead, StdinReadError, StdinSend, Allocated, TypeOK, StdinTypeOK
  <2>3. \A u \in Sessions : Allocated(u) => Allocated(u)' /\ Numbers(u)' = Numbers(u)
    BY <2>1, <2>2, Zenon DEF Numbers
  <2> QED
    BY <2>1, <2>3, OutputFrame, Zenon
<1>3. CASE Closer \/ ConsoleEnd \/ GuestExit \/ UNCHANGED vars
           \/ \E s \in Sessions : ClientExit(s) \/ \E q \in Addressable(s) : ClientWrite(s, q)
  <2>1. UNCHANGED <<got, toClient, reader, rframe, rsession, guestOut, sent, stdin, ioBase, nStreams>>
    BY <1>3, ZenonT(20)
       DEF Closer, CloseSockets, CloseLock, CloseJoin, CloseUnlock, CloseDone, CloseSession,
                ConsoleEnd, GuestExit, ClientExit, ClientWrite, vars, allocVars, stdinVars,
                sockVars, readerVars, guestVars, historyVars
  <2>2. \A u \in Sessions : Allocated(u) => Allocated(u)' /\ Numbers(u)' = Numbers(u)
    BY <2>1, Zenon DEF Allocated, Numbers
  <2> QED
    BY <2>1, <2>2, OutputFrame, Zenon
<1> QED
  BY <1>1, <1>2, <1>3, OutputReader, OutputClient, OutputGuest, Zenon DEF Next, Client, Guest

\* If no client asks for zero streams, the client of a session reads exactly
\* what its process wrote first: ioHyperToClients loses, repeats, reorders and
\* misroutes nothing.
THEOREM OutputRoutedInOrder ==
    ASSUME 0 \notin NStreams
    PROVE  Spec => []OutputInOrder
<1>1. TypeOK /\ TypeOK' /\ AllocInv /\ OutputInv /\ [Next]_vars => OutputInv'
  BY OutputNext, Zenon
<1>2. OutputInv => OutputInOrder
  BY Zenon DEF OutputInv, ClientQueue, OutputInOrder
<1> QED
  BY <1>1, <1>2, OutputInit, AllocAlways, TypeCorrect, PTL DEF Spec

-----------------------------------------------------------------------------
(* The refinement.                                                          *)

\* A client has never got more than its process has written, even after the
\* routing goroutine has ended.
NoMoreThanSent == \A s \in Sessions : Arrived(s) <= sent[s]

\* Everything the refinement needs.
RouterInv == TypeOK /\ AllocInv /\ StdinInv /\ OutputInv /\ NoMoreThanSent

\* The steps other than those of the routing goroutine and of the guest leave
\* what a client has got or can read, taken together, as it is.
LEMMA ArrivedFrame ==
    ASSUME TypeOK, TypeOK', [Next]_vars, reader' \notin {"read", "find", "send"},
           NEW s \in Sessions
    PROVE  Arrived(s)' = Arrived(s) /\ sent[s] <= sent'[s]
<1>0. sent[s] \in Nat /\ sent \in [Sessions -> 0..MaxOut]
  BY OutputTypes, Zenon DEF TypeOK, HistoryTypeOK
<1>1. ASSUME NEW u \in Sessions, ClientRead(u) PROVE Arrived(s)' = Arrived(s) /\ sent' = sent
  <2>1. /\ got' = [got EXCEPT ![u] = Append(@, Head(toClient[u]))]
        /\ toClient' = [toClient EXCEPT ![u] = Tail(@)]
        /\ toClient[u] # <<>> /\ sent' = sent
    BY <1>1, Zenon DEF ClientRead
  <2>2. got \in [Sessions -> Seq(Frame)] /\ toClient \in [Sessions -> Seq(Frame)]
    BY ZenonT(20) DEF TypeOK, HistoryTypeOK, SockTypeOK
  <2>3. CASE s # u
    BY <2>1, <2>2, <2>3, Zenon DEF Arrived
  <2>4. CASE s = u
    <3> DEFINE f == Head(toClient[s])
    <3>1. toClient[s] \in Seq(Frame) /\ toClient[s] # <<>> /\ got[s] \in Seq(Frame)
      BY <2>1, <2>2, <2>4, Zenon
    <3>2. f \in Frame /\ Len(toClient[s]) \in Nat \ {0} /\ Len(Tail(toClient[s])) = Len(toClient[s]) - 1
      BY <3>1
    <3> HIDE DEF f
    <3>3. Len(Append(got[s], f)) = Len(got[s]) + 1 /\ Len(got[s]) \in Nat
      BY <3>1, <3>2
    <3>4. got'[s] = Append(got[s], f) /\ toClient'[s] = Tail(toClient[s])
      BY <2>1, <2>2, <2>4, Zenon DEF f
    <3> DEFINE g == Len(got[s])
               g2 == Len(got'[s])
               c == Len(toClient[s])
               c2 == Len(toClient'[s])
    <3>5. g \in Nat /\ c \in Nat \ {0} /\ g2 = g + 1 /\ c2 = c - 1
      BY <3>2, <3>3, <3>4, Zenon
    <3>6. Arrived(s) = g + c /\ Arrived(s)' = g2 + c2
      BY Zenon DEF Arrived
    <3> HIDE DEF g, g2, c, c2
    <3>7. g2 + c2 = g + c
      BY <3>5
    <3> QED
      BY <2>1, <3>6, <3>7, Zenon
  <2> QED
    BY <2>3, <2>4, Zenon
<1>2. ASSUME NEW u \in Sessions, NEW q \in Addressable(u), GuestWrite(u, q)
      PROVE  UNCHANGED <<got, toClient>> /\ sent[s] <= sent'[s]
  <2>1. UNCHANGED <<got, toClient>> /\ (sent'[s] = sent[s] \/ sent'[s] = sent[s] + 1)
    <3>1. UNCHANGED <<got, toClient>> /\ sent' = [sent EXCEPT ![u] = @ + 1]
      BY <1>2, Zenon DEF GuestWrite, sockVars
    <3>2. CASE s = u
      BY <1>0, <3>1, <3>2, Zenon
    <3>3. CASE s # u
      BY <1>0, <3>1, <3>3, Zenon
    <3> QED
      BY <3>2, <3>3, Zenon
  <2>2. sent'[s] \in Nat
    <3>1. sent[s] + 1 \in Nat
      BY <1>0, Successor, Zenon
    <3>2. CASE sent'[s] = sent[s]
      BY <1>0, <3>2, Zenon
    <3>3. CASE sent'[s] = sent[s] + 1
      BY <3>1, <3>3, Zenon
    <3> QED
      BY <2>1, <3>2, <3>3, Zenon
  <2> QED
    <3>1. sent[s] <= sent'[s]
      <4>1. CASE sent'[s] = sent[s]
        BY <1>0, <2>2, <4>1, Grown, Zenon
      <4>2. CASE sent'[s] = sent[s] + 1
        BY <1>0, <2>2, <4>2, Grown, Zenon
      <4> QED
        BY <2>1, <4>1, <4>2, Zenon
    <3> QED
      BY <2>1, <3>1, Zenon
<1>3. ~ ReaderSend /\ ~ ReaderRead /\ ~ ReaderFind
  BY Zenon DEF ReaderSend, ReaderRead, ReaderFind
<1>4. ASSUME ReaderReadError \/ ReaderSendError \/ Closer \/ ConsoleEnd \/ GuestExit \/ UNCHANGED vars
             \/ \E u \in Sessions : \/ Stdin(u) \/ ClientExit(u)
                                    \/ \E n \in NStreams : AllocateIo(u, n)
                                    \/ \E q \in Addressable(u) : ClientWrite(u, q)
      PROVE  UNCHANGED <<got, toClient, sent>>
  BY <1>4, ZenonT(20)
     DEF ReaderReadError, ReaderSendError, Closer, CloseSockets, CloseLock, CloseJoin,
              CloseUnlock, CloseDone, CloseSession, ConsoleEnd, GuestExit, Stdin, StartStdin,
              StdinRead, StdinReadError, StdinSend, ClientExit, AllocateIo, ClientWrite,
              vars, sockVars, historyVars
<1>5. UNCHANGED <<got, toClient>> => Arrived(s)' = Arrived(s)
  BY Zenon DEF Arrived
<1>6. sent' = sent => sent[s] <= sent'[s]
  BY <1>0
<1> QED
  BY <1>1, <1>2, <1>3, <1>4, <1>5, <1>6, Zenon DEF Next, Client, Guest, Reader

\* While the routing goroutine runs, nothing beyond what was sent has passed it.
LEMMA PassedBoundsArrived ==
    ASSUME TypeOK, OutputInv, reader \in {"read", "find", "send"}, NEW s \in Sessions
    PROVE  Arrived(s) <= sent[s]
<1> DEFINE a == Arrived(s)
           p == Passed(s)
           r == Routed(s)
           n == sent[s]
<1>1. a \in Nat /\ r \in {0, 1} /\ n \in Nat /\ p = a + r
  BY OutputTypes, Zenon DEF Passed
<1>2. p <= n
  BY Zenon DEF OutputInv, ReaderQueue, Complete
<1> HIDE DEF a, p, r, n
<1>3. a <= n
  BY <1>1, <1>2
<1> QED
  BY <1>3, Zenon DEF a, n

\* The bound is inductive.
LEMMA BoundNext ==
    ASSUME TypeOK, TypeOK', OutputInv', NoMoreThanSent, [Next]_vars
    PROVE  NoMoreThanSent'
<1> SUFFICES ASSUME NEW s \in Sessions PROVE Arrived(s)' <= sent'[s]
  BY Zenon DEF NoMoreThanSent
<1>1. CASE reader' \in {"read", "find", "send"}
  <2>1. (TypeOK /\ OutputInv /\ reader \in {"read", "find", "send"} => Arrived(s) <= sent[s])'
    BY PassedBoundsArrived, PTL
  <2> QED
    BY <1>1, <2>1, Zenon
<1>2. CASE reader' \notin {"read", "find", "send"}
  <2> DEFINE a == Arrived(s)
             a2 == Arrived(s)'
             n == sent[s]
             n2 == sent'[s]
  <2>1. a2 = a /\ n <= n2 /\ a <= n
    BY <1>2, ArrivedFrame, Zenon DEF NoMoreThanSent
  <2>2. a \in Nat /\ n \in Nat /\ n2 \in Nat
    <3>1. sent'[s] \in 0..MaxOut
      BY Zenon DEF TypeOK, HistoryTypeOK
    <3> QED
      BY <3>1, OutputTypes, BoundsAssumption
  <2> HIDE DEF a, a2, n, n2
  <2>3. a2 <= n2
    BY <2>1, <2>2
  <2> QED
    BY <2>3, Zenon DEF a2, n2
<1> QED
  BY <1>1, <1>2, Zenon

\* It holds at first.
LEMMA BoundInit == Init => NoMoreThanSent
<1> SUFFICES ASSUME Init, NEW s \in Sessions PROVE Arrived(s) <= sent[s]
  BY ZenonT(20) DEF NoMoreThanSent
<1>1. got[s] = <<>> /\ toClient[s] = <<>> /\ sent[s] = 0 /\ Len(<<>>) = 0
  BY Zenon DEF Init
<1> QED
  BY <1>1 DEF Arrived

\* All of it holds in every state, if no client asks for zero streams.
LEMMA RouterInvAlways ==
    ASSUME 0 \notin NStreams
    PROVE  Spec => []RouterInv
<1>1. TypeOK /\ TypeOK' /\ StdinInv /\ [Next]_vars => StdinInv'
  BY StdinNext, Zenon
<1>2. TypeOK /\ TypeOK' /\ AllocInv /\ OutputInv /\ [Next]_vars => OutputInv'
  BY OutputNext, Zenon
<1>3. TypeOK /\ TypeOK' /\ OutputInv' /\ NoMoreThanSent /\ [Next]_vars => NoMoreThanSent'
  BY BoundNext, Zenon
<1>4. TypeOK /\ AllocInv /\ StdinInv /\ OutputInv /\ NoMoreThanSent => RouterInv
  BY Zenon DEF RouterInv
<1> QED
   BY <1>1, <1>2, <1>3, <1>4, StdinInit, OutputInit, BoundInit, AllocAlways, TypeCorrect,
     PTL DEF Spec

\* A pipe of n frames, extended by one.
LEMMA PipeGrows ==
    ASSUME NEW n \in Nat, NEW s
    PROVE  /\ Len([i \in 1..n |-> <<s, i>>]) = n
           /\ Append([i \in 1..n |-> <<s, i>>], <<s, n + 1>>) = [i \in 1..(n + 1) |-> <<s, i>>]
<1> DEFINE f == [i \in 1..n |-> <<s, i>>]
           T == {<<s, i>> : i \in Nat}
<1>1. f \in Seq(T) /\ Len(f) = n
  OBVIOUS
<1>2. \A i \in 1..n : f[i] = <<s, i>>
  BY Zenon
<1>3. <<s, n + 1>> \in T
  OBVIOUS
<1> HIDE DEF f, T
<1>4. Append(f, <<s, n + 1>>) = [i \in 1..(n + 1) |-> IF i = n + 1 THEN <<s, n + 1>> ELSE f[i]]
  BY <1>1, <1>3
<1>5. [i \in 1..(n + 1) |-> IF i = n + 1 THEN <<s, n + 1>> ELSE f[i]] = [i \in 1..(n + 1) |-> <<s, i>>]
  BY <1>2
<1> QED
  BY <1>1, <1>4, <1>5, Zenon DEF f

\* What was delivered is such a pipe.
LEMMA DeliveredIsPipe ==
    ASSUME OutputInv, NEW s \in Sessions
    PROVE  DeliveredTo(s) = [i \in 1..Len(got[s]) |-> <<s, i>>]
  BY Zenon DEF OutputInv, ClientQueue, DeliveredTo

\* A client that reads takes the next frame of its pipe.
LEMMA ReadIsClientReads ==
    ASSUME RouterInv, RouterInv', NEW s \in Sessions, ClientRead(s)
    PROVE  Router!ClientReads(s)
<1> DEFINE n == Len(got[s])
           c == Len(toClient[s])
           d == [u \in Sessions |-> DeliveredTo(u)]
<1>1. /\ got' = [got EXCEPT ![s] = Append(@, Head(toClient[s]))]
      /\ toClient[s] # <<>>
      /\ UNCHANGED <<stdin, sent, written, guestIn>>
  BY Zenon DEF ClientRead, stdinVars
<1>2. got \in [Sessions -> Seq(Frame)] /\ toClient[s] \in Seq(Frame)
  BY Zenon DEF RouterInv, TypeOK, HistoryTypeOK, SockTypeOK
<1>3. n \in Nat /\ c \in Nat \ {0} /\ Head(toClient[s]) \in Frame
  BY <1>1, <1>2
<1>4. got'[s] = Append(got[s], Head(toClient[s])) /\ \A u \in Sessions \ {s} : got'[u] = got[u]
  BY <1>1, <1>2, Zenon
<1>5. Len(got'[s]) = n + 1
  BY <1>2, <1>3, <1>4, SMTT(20)
<1>6. n + c <= sent[s] /\ sent[s] \in Nat
  BY OutputTypes, Zenon DEF RouterInv, NoMoreThanSent, Arrived
<1>7. n < sent[s]
  <2> HIDE DEF n, c
  <2> QED
    BY <1>3, <1>6
<1>8. d[s] = [i \in 1..n |-> <<s, i>>]
  BY DeliveredIsPipe, Zenon DEF RouterInv
<1>9. DeliveredTo(s)' = [i \in 1..(n + 1) |-> <<s, i>>]
  <2>1. (OutputInv => DeliveredTo(s) = [i \in 1..Len(got[s]) |-> <<s, i>>])'
    BY DeliveredIsPipe, PTL
  <2> QED
    BY <1>5, <2>1, Zenon DEF RouterInv
<1>10. \A u \in Sessions \ {s} : DeliveredTo(u)' = d[u]
  BY <1>4, Zenon DEF DeliveredTo
<1>11. Len(d[s]) = n /\ DeliveredTo(s)' = Append(d[s], <<s, Len(d[s]) + 1>>)
  <2> HIDE DEF n, d
  <2> QED
    BY <1>3, <1>8, <1>9, PipeGrows
<1>12. [u \in Sessions |-> DeliveredTo(u)'] = [d EXCEPT ![s] = Append(@, <<s, Len(@) + 1>>)]
  BY <1>10, <1>11, ZenonT(20)
<1>13. {u \in Sessions : Allocated(u)}' = {u \in Sessions : Allocated(u)}
  BY <1>1, Zenon DEF Allocated
<1> QED
  BY <1>1, <1>7, <1>11, <1>12, <1>13, Zenon DEF Router!ClientReads

\* A forwarded frame is the next one of the pipe to the process; one that
\* cannot be sent leaves the pipes as they are.
LEMMA SendIsProcessReads ==
    ASSUME RouterInv, NEW s \in Sessions, StdinSend(s)
    PROVE  Router!ProcessReads(s) \/ UNCHANGED Router!pipes
<1> DEFINE n == Len(guestIn[s])
           m == Len(fromClient[s])
<1>1. /\ stdin[s] = "send"
      /\ stdin' = [stdin EXCEPT ![s] = "read"] \/ stdin' = [stdin EXCEPT ![s] = "done"]
      /\ UNCHANGED <<sent, got, written>>
      /\ \/ guestIn' = [guestIn EXCEPT ![s] = Append(@, Head(held[s]).k)]
         \/ UNCHANGED guestIn
  BY Zenon DEF StdinSend
<1>2. {u \in Sessions : Allocated(u)}' = {u \in Sessions : Allocated(u)}
  BY <1>1, Zenon DEF Allocated, RouterInv, TypeOK, StdinTypeOK
<1>3. [u \in Sessions |-> DeliveredTo(u)]' = [u \in Sessions |-> DeliveredTo(u)]
  BY <1>1, Zenon DEF DeliveredTo
<1>4. /\ n \in Nat /\ m \in Nat /\ Len(held[s]) = 1 /\ held[s] \in Seq(Frame)
      /\ written[s] = n + Len(held[s]) + m
      /\ \A i \in 1..Len(held[s]) : held[s][i].k = n + i
  BY <1>1, StdinLengths, Zenon DEF RouterInv, StdinInv, StdinQueue
<1>5. Head(held[s]).k = n + 1
  <2> HIDE DEF n
  <2> QED
    BY <1>4
<1>6. n < written[s]
  <2> HIDE DEF n, m
  <2> QED
    BY <1>4
<1>7. guestIn \in [Sessions -> Seq(Nat)]
  BY Zenon DEF RouterInv, TypeOK, HistoryTypeOK
<1>8. CASE guestIn' = [guestIn EXCEPT ![s] = Append(@, Head(held[s]).k)]
  BY <1>1, <1>2, <1>3, <1>5, <1>6, <1>7, <1>8, Zenon DEF Router!ProcessReads
<1>9. CASE UNCHANGED guestIn
  BY <1>1, <1>2, <1>3, <1>9, Zenon DEF Router!pipes
<1> QED
  BY <1>1, <1>8, <1>9, Zenon

\* Every step of the goroutines, the clients and the guest is a step of the
\* pipes or leaves them as they are.
LEMMA RouterNext ==
    ASSUME RouterInv, RouterInv', [Next]_vars
    PROVE  [Router!Next]_(Router!pipes)
<1> DEFINE A == {u \in Sessions : Allocated(u)}
<1>0. stdin \in [Sessions -> {"none", "starting", "read", "send", "done"}]
  BY Zenon DEF RouterInv, TypeOK, StdinTypeOK
<1>1. ASSUME NEW s \in Sessions, NEW n \in NStreams, AllocateIo(s, n) PROVE Router!Allocate(s)
  <2>1. /\ stdin[s] = "none" /\ stdin' = [stdin EXCEPT ![s] = "starting"]
        /\ UNCHANGED <<sent, got, written, guestIn>>
    BY <1>1, Zenon DEF AllocateIo, Allocated, historyVars
  <2>2. s \notin A /\ A' = A \cup {s}
    BY <1>0, <2>1, Zenon DEF Allocated
  <2>3. [u \in Sessions |-> DeliveredTo(u)]' = [u \in Sessions |-> DeliveredTo(u)]
    BY <2>1, Zenon DEF DeliveredTo
  <2> QED
    BY <2>1, <2>2, <2>3, Zenon DEF Router!Allocate
<1>2. ASSUME NEW s \in Sessions, NEW q \in Addressable(s), GuestWrite(s, q)
      PROVE  Router!ProcessWrites(s)
  <2>1. /\ Allocated(s) /\ sent' = [sent EXCEPT ![s] = @ + 1]
        /\ UNCHANGED <<stdin, got, written, guestIn>>
    BY <1>2, Zenon DEF GuestWrite, stdinVars
  <2>2. s \in A /\ A' = A /\ [u \in Sessions |-> DeliveredTo(u)]' = [u \in Sessions |-> DeliveredTo(u)]
    BY <2>1, Zenon DEF Allocated, DeliveredTo
  <2> QED
    BY <2>1, <2>2, Zenon DEF Router!ProcessWrites
<1>3. ASSUME NEW s \in Sessions, NEW q \in Addressable(s), ClientWrite(s, q)
      PROVE  Router!ClientWrites(s)
  <2>1. /\ conn[s] = "open" /\ written' = [written EXCEPT ![s] = @ + 1]
        /\ UNCHANGED <<stdin, got, sent, guestIn>>
    BY <1>3, Zenon DEF ClientWrite, stdinVars
  <2>2. s \in A
    BY <2>1, Zenon DEF RouterInv, AllocInv, HasSocket
  <2>3. A' = A /\ [u \in Sessions |-> DeliveredTo(u)]' = [u \in Sessions |-> DeliveredTo(u)]
    BY <2>1, Zenon DEF Allocated, DeliveredTo
  <2> QED
    BY <2>1, <2>2, <2>3, Zenon DEF Router!ClientWrites
<1>4. ASSUME NEW s \in Sessions, ClientRead(s) PROVE Router!ClientReads(s)
  BY <1>4, ReadIsClientReads, Zenon
<1>5. ASSUME NEW s \in Sessions, StdinSend(s)
      PROVE  Router!ProcessReads(s) \/ UNCHANGED Router!pipes
  BY <1>5, SendIsProcessReads, Zenon
<1>6. ASSUME \/ Reader \/ Closer \/ ConsoleEnd \/ GuestExit \/ UNCHANGED vars
             \/ \E s \in Sessions :
                   ClientExit(s) \/ StartStdin(s) \/ StdinRead(s) \/ StdinReadError(s)
      PROVE  UNCHANGED Router!pipes
  <2>1. UNCHANGED <<sent, got, written, guestIn>>
    BY <1>6, ZenonT(20)
       DEF Reader, ReaderRead, ReaderReadError, ReaderFind, ReaderSend, ReaderSendError,
                Closer, CloseSockets, CloseLock, CloseJoin, CloseUnlock, CloseDone, CloseSession,
                ConsoleEnd, GuestExit, ClientExit, StartStdin, StdinRead, StdinReadError,
                vars, historyVars
  <2>2. \A u \in Sessions : Allocated(u)' <=> Allocated(u)
    BY <1>0, <1>6, ZenonT(20)
       DEF Reader, ReaderRead, ReaderReadError, ReaderFind, ReaderSend, ReaderSendError,
                Closer, CloseSockets, CloseLock, CloseJoin, CloseUnlock, CloseDone, CloseSession,
                ConsoleEnd, GuestExit, ClientExit, StartStdin, StdinRead, StdinReadError,
                vars, stdinVars, Allocated
  <2>3. A' = A
    BY <2>2, Zenon
  <2>4. [u \in Sessions |-> DeliveredTo(u)]' = [u \in Sessions |-> DeliveredTo(u)]
    BY <2>1, Zenon DEF DeliveredTo
  <2> QED
    BY <2>1, <2>3, <2>4, Zenon DEF Router!pipes
<1>7. (\E s \in Sessions : \/ Router!Allocate(s) \/ Router!ProcessWrites(s) \/ Router!ClientReads(s)
                          \/ Router!ClientWrites(s) \/ Router!ProcessReads(s)) => Router!Next
  BY Zenon DEF Router!Next
<1> QED
  BY <1>1, <1>2, <1>3, <1>4, <1>5, <1>6, <1>7, Zenon DEF Next, Stdin, Client, Guest

\* Nothing is allocated, written or read at first.
LEMMA RouterInit == Init => Router!Init
<1> SUFFICES ASSUME Init PROVE Router!Init
  BY Zenon
<1>1. {s \in Sessions : Allocated(s)} = {}
  BY Zenon DEF Init, Allocated
<1>2. \A s \in Sessions : DeliveredTo(s) = <<>>
  <2>1. \A s \in Sessions : Len(got[s]) = 0
    BY Zenon DEF Init
  <2>2. \A s \in Sessions : DeliveredTo(s) = [i \in 1..0 |-> <<got[s][i].s, got[s][i].k>>]
    BY <2>1, Zenon DEF DeliveredTo
  <2>3. ASSUME NEW s \in Sessions PROVE DeliveredTo(s) = <<>>
    <3> DEFINE d == DeliveredTo(s)
    <3>0. 1..0 = {}
      OBVIOUS
    <3>1. d \in [1..0 -> Nat]
      BY <2>2, <3>0, Zenon
    <3> HIDE DEF d
    <3>2. d \in Seq(Nat) /\ Len(d) = 0
      BY <3>1
    <3> QED
      BY <3>2, EmptySeq, Zenon DEF d
  <2> QED
    BY <2>3, ZenonT(20)
<1> QED
  BY <1>1, <1>2, Zenon DEF Init, Router!Init

\* If no client asks for zero streams, the VM object implements IoRouter: over
\* one channel, one map and one routing goroutine every session of AllocateIo
\* gets a pair of pipes of its own.
THEOREM VMIoImplementsPipes ==
    ASSUME 0 \notin NStreams
    PROVE  Spec => ImplementsPipes
<1>1. RouterInv /\ RouterInv' /\ [Next]_vars => [Router!Next]_(Router!pipes)
  BY RouterNext, Zenon
<1> QED
  BY <1>1, RouterInit, RouterInvAlways, PTL DEF Spec, ImplementsPipes, Router!Spec

=============================================================================
