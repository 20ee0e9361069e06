-------------------------------- MODULE VMIo --------------------------------
(***************************************************************************)
(* The I/O side of one VM object of the proxy (proxy/vm.go): the sessions  *)
(* AllocateIo creates, the goroutine that routes the output of the guest   *)
(* to the clients (ioHyperToClients), one goroutine per session that       *)
(* forwards stdin (ioClientToHyper), the console goroutine, and the        *)
(* goroutine started by the hello handler, which waits for the loss of the *)
(* VM and then runs vm.Close.                                              *)
(*                                                                         *)
(* The model starts when vm.Connect has returned: the I/O socket is open   *)
(* and ioHyperToClients runs.  A critical section of the vm mutex is one   *)
(* step, except the one of Close, which waits for other goroutines while   *)
(* it holds the mutex.                                                     *)
(*                                                                         *)
(* A frame carries the sequence number q it is addressed to, which is all  *)
(* the proxy looks at.  Its other fields are history: s is the session of  *)
(* the process that wrote it and k its rank among the frames of s.  Frames *)
(* are written and read whole, and none exceeds the size that hyperstart   *)
(* accepts: the buffers of the shim are smaller.                           *)
(***************************************************************************)
EXTENDS Integers, Sequences

CONSTANTS
    Sessions,    \* the ioSession objects, one per AllocateIo call
    NStreams,    \* the values of nStreams that clients ask for
    Consoles,    \* whether a console goroutine runs: "run", "off" or both
    SockCap,     \* frames a client socket buffers in each direction
    MaxOut,      \* bound: output frames written by the process of a session
    MaxIn        \* bound: stdin frames written by the client of a session

ASSUME StreamsAssumption == NStreams \subseteq Nat
ASSUME ConsolesAssumption == Consoles \subseteq {"off", "run"}
ASSUME BoundsAssumption == SockCap \in Nat \ {0} /\ MaxOut \in Nat /\ MaxIn \in Nat

NoSession == "none"
ASSUME NoSessionAssumption == NoSession \notin Sessions

VARIABLES
    nextIoBase,  \* vm.nextIoBase
    ioSessions,  \* vm.ioSessions: sequence number -> session
    ioBase,      \* session.ioBase, 0 before the session exists
    nStreams,    \* session.nStreams
    stdin,       \* where ioClientToHyper of the session is
    held,        \* the stdin frame that goroutine has read
    conn,        \* session.client, the proxy's end of the socket pair
    peer,        \* the client's end of the socket pair
    toClient,    \* frames buffered from the proxy to the client
    fromClient,  \* frames buffered from the client to the proxy
    reader,      \* where ioHyperToClients is
    rframe,      \* the frame it is routing, a sequence of length 0 or 1
    rsession,    \* the session it routes it to
    console,     \* the consoleToLog goroutine
    vmLost,      \* the vmLost channel is closed
    closer,      \* where the goroutine that runs vm.Close is
    closing,     \* the session it is closing
    ioSocket,    \* hyperHandler.io, the proxy's end
    guest,       \* the qemu process
    guestOut,    \* frames on the I/O channel, from the guest
    sent,        \* history: frames written by the process of a session
    got,         \* history: frames read by the client of a session
    written,     \* history: stdin frames written by the client
    guestIn      \* history: stdin frames received by the guest

allocVars   == <<nextIoBase, ioSessions, ioBase, nStreams>>
stdinVars   == <<stdin, held>>
sockVars    == <<conn, peer, toClient, fromClient>>
readerVars  == <<reader, rframe, rsession>>
closeVars   == <<vmLost, closer, closing, ioSocket, console>>
guestVars   == <<guest, guestOut>>
historyVars == <<sent, got, written, guestIn>>
vars == <<allocVars, stdinVars, sockVars, readerVars, closeVars, guestVars,
          historyVars>>

Frame == [s : Sessions, k : Nat \ {0}, q : Nat]

Streams(s) == {ioBase[s] + i : i \in 0..(nStreams[s] - 1)}
Allocated(s) == stdin[s] # "none"

\* The waitgroup of a session counts its running stdin goroutine.
StdinRunning(s) == stdin[s] \in {"read", "send"}

\* vm.Close keeps the vm mutex while it waits for the stdin goroutines.
LockFree == closer \notin {"iterate", "join"}

Delete(f, q) == [x \in DOMAIN f \ {q} |-> f[x]]
Register(f, base, n, s) ==
    [x \in DOMAIN f \cup {base + i : i \in 0..(n - 1)} |->
        IF x \in {base + i : i \in 0..(n - 1)} THEN s ELSE f[x]]

Init ==
    /\ nextIoBase = 1
    /\ ioSessions = [q \in {} |-> NoSession]
    /\ ioBase = [s \in Sessions |-> 0]
    /\ nStreams = [s \in Sessions |-> 0]
    /\ stdin = [s \in Sessions |-> "none"]
    /\ held = [s \in Sessions |-> <<>>]
    /\ conn = [s \in Sessions |-> "none"]
    /\ peer = [s \in Sessions |-> "none"]
    /\ toClient = [s \in Sessions |-> <<>>]
    /\ fromClient = [s \in Sessions |-> <<>>]
    /\ reader = "read"
    /\ rframe = <<>>
    /\ rsession = NoSession
    /\ console \in Consoles
    /\ vmLost = FALSE
    /\ closer = "wait"
    /\ closing = NoSession
    /\ ioSocket = "open"
    /\ guest = "alive"
    /\ guestOut = <<>>
    /\ sent = [s \in Sessions |-> 0]
    /\ got = [s \in Sessions |-> <<>>]
    /\ written = [s \in Sessions |-> 0]
    /\ guestIn = [s \in Sessions |-> <<>>]

-----------------------------------------------------------------------------
(***************************************************************************)
(* AllocateIo                                                              *)
(***************************************************************************)

\* Mutant of AllocateIo: one number is taken, however many streams.
AllocateIoOneNumber(s, n) ==
    /\ LockFree
    /\ ~ Allocated(s)
    /\ ioBase' = [ioBase EXCEPT ![s] = nextIoBase]
    /\ nStreams' = [nStreams EXCEPT ![s] = n]
    /\ ioSessions' = Register(ioSessions, nextIoBase, n, s)
    /\ nextIoBase' = nextIoBase + 1
    /\ conn' = [conn EXCEPT ![s] = "open"]
    /\ peer' = [peer EXCEPT ![s] = "open"]
    /\ stdin' = [stdin EXCEPT ![s] = "starting"]
    /\ UNCHANGED <<held, toClient, fromClient, readerVars, closeVars, guestVars,
                   historyVars>>

\* The critical section: take the next sequence numbers and publish the
\* session.  The socket pair has been made by allocateIoHandler.
AllocateIo(s, n) ==
    /\ LockFree
    /\ ~ Allocated(s)
    /\ ioBase' = [ioBase EXCEPT ![s] = nextIoBase]
    /\ nStreams' = [nStreams EXCEPT ![s] = n]
    /\ ioSessions' = Register(ioSessions, nextIoBase, n, s)
    /\ nextIoBase' = nextIoBase + n
    /\ conn' = [conn EXCEPT ![s] = "open"]
    /\ peer' = [peer EXCEPT ![s] = "open"]
    /\ stdin' = [stdin EXCEPT ![s] = "starting"]
    /\ UNCHANGED <<held, toClient, fromClient, readerVars, closeVars, guestVars,
                   historyVars>>

\* session.wg.Add(1) and go vm.ioClientToHyper(session), after the unlock.
StartStdin(s) ==
    /\ stdin[s] = "starting"
    /\ stdin' = [stdin EXCEPT ![s] = "read"]
    /\ UNCHANGED <<held, allocVars, sockVars, readerVars, closeVars, guestVars,
                   historyVars>>

(***************************************************************************)
(* ioClientToHyper                                                         *)
(***************************************************************************)

\* A frame addressed to another stream than ioBase closes the session.
StdinRead(s) ==
    /\ stdin[s] = "read"
    /\ conn[s] = "open"
    /\ fromClient[s] # <<>>
    /\ fromClient' = [fromClient EXCEPT ![s] = Tail(@)]
    /\ LET f == Head(fromClient[s]) IN
         \/ /\ f.q # ioBase[s]
            /\ conn' = [conn EXCEPT ![s] = "closed"]
            /\ stdin' = [stdin EXCEPT ![s] = "done"]
            /\ UNCHANGED held
         \/ /\ f.q = ioBase[s]
            /\ held' = [held EXCEPT ![s] = <<f>>]
            /\ stdin' = [stdin EXCEPT ![s] = "send"]
            /\ UNCHANGED conn
    /\ UNCHANGED <<peer, toClient, allocVars, readerVars, closeVars, guestVars,
                   historyVars>>

\* The read fails: the session was closed, or the client is gone.
StdinReadError(s) ==
    /\ stdin[s] = "read"
    /\ \/ conn[s] = "closed"
       \/ peer[s] = "closed" /\ fromClient[s] = <<>>
    /\ stdin' = [stdin EXCEPT ![s] = "done"]
    /\ UNCHANGED <<held, allocVars, sockVars, readerVars, closeVars, guestVars,
                   historyVars>>

\* Mutant of StdinSend: the frame may be sent again.
StdinSendAgain(s) ==
    /\ stdin[s] = "send"
    /\ UNCHANGED held
    /\ \/ /\ ioSocket = "open" /\ guest = "alive"
          /\ guestIn' = [guestIn EXCEPT ![s] = Append(@, Head(held[s]).k)]
          /\ UNCHANGED stdin
       \/ /\ ioSocket = "closed" \/ guest = "gone"
          /\ stdin' = [stdin EXCEPT ![s] = "done"]
          /\ UNCHANGED guestIn
    /\ UNCHANGED <<sent, got, written, allocVars, sockVars, readerVars,
                   closeVars, guestVars>>

StdinSend(s) ==
    /\ stdin[s] = "send"
    /\ held' = [held EXCEPT ![s] = <<>>]
    /\ \/ /\ ioSocket = "open" /\ guest = "alive"
          /\ guestIn' = [guestIn EXCEPT ![s] = Append(@, Head(held[s]).k)]
          /\ stdin' = [stdin EXCEPT ![s] = "read"]
       \/ /\ ioSocket = "closed" \/ guest = "gone"
          /\ stdin' = [stdin EXCEPT ![s] = "done"]
          /\ UNCHANGED guestIn
    /\ UNCHANGED <<sent, got, written, allocVars, sockVars, readerVars,
                   closeVars, guestVars>>

(***************************************************************************)
(* ioHyperToClients                                                        *)
(***************************************************************************)

ReaderRead ==
    /\ reader = "read"
    /\ guestOut # <<>>
    /\ rframe' = <<Head(guestOut)>>
    /\ guestOut' = Tail(guestOut)
    /\ reader' = "find"
    /\ UNCHANGED <<rsession, guest, allocVars, stdinVars, sockVars, closeVars,
                   historyVars>>

\* Mutant of ReaderReadError: signalVMLost is not called.
ReaderReadErrorSilent ==
    /\ reader = "read"
    /\ \/ guestOut = <<>> /\ guest = "gone"
       \/ ioSocket = "closed"
    /\ reader' = "done"
    /\ UNCHANGED <<vmLost, rframe, rsession, closer, closing, ioSocket, console,
                   allocVars, stdinVars, sockVars, guestVars, historyVars>>

\* A read error on the I/O channel means that the VM is gone.
ReaderReadError ==
    /\ reader = "read"
    /\ \/ guestOut = <<>> /\ guest = "gone"
       \/ ioSocket = "closed"
    /\ vmLost' = TRUE
    /\ reader' = "done"
    /\ UNCHANGED <<rframe, rsession, closer, closing, ioSocket, console,
                   allocVars, stdinVars, sockVars, guestVars, historyVars>>

\* Mutant of FindSession: the map is looked up one number too far.
FindSessionOffByOne(q) == IF q + 1 \in DOMAIN ioSessions THEN ioSessions[q + 1] ELSE NoSession

FindSession(q) == IF q \in DOMAIN ioSessions THEN ioSessions[q] ELSE NoSession

\* findSession takes the vm mutex.  Without a session the frame is dropped.
ReaderFind ==
    /\ reader = "find"
    /\ LockFree
    /\ rsession' = FindSession(rframe[1].q)
    /\ \/ /\ rsession' = NoSession
          /\ reader' = "read"
          /\ rframe' = <<>>
       \/ /\ rsession' # NoSession
          /\ reader' = "send"
          /\ UNCHANGED rframe
    /\ UNCHANGED <<allocVars, stdinVars, sockVars, closeVars, guestVars,
                   historyVars>>

\* The write blocks while the socket buffer of the client is full.
ReaderSend ==
    /\ reader = "send"
    /\ conn[rsession] = "open" /\ peer[rsession] = "open"
    /\ Len(toClient[rsession]) < SockCap
    /\ toClient' = [toClient EXCEPT ![rsession] = Append(@, rframe[1])]
    /\ rframe' = <<>>
    /\ rsession' = NoSession
    /\ reader' = "read"
    /\ UNCHANGED <<conn, peer, fromClient, allocVars, stdinVars, closeVars,
                   guestVars, historyVars>>

\* A write error ends the goroutine, without signalVMLost.
ReaderSendError ==
    /\ reader = "send"
    /\ conn[rsession] = "closed" \/ peer[rsession] = "closed"
    /\ rframe' = <<>>
    /\ rsession' = NoSession
    /\ reader' = "broken"
    /\ UNCHANGED <<allocVars, stdinVars, sockVars, closeVars, guestVars,
                   historyVars>>

\* consoleToLog ends when its socket is closed at either end.
ConsoleEnd ==
    /\ console = "run"
    /\ ioSocket = "closed" \/ guest = "gone"
    /\ console' = "done"
    /\ UNCHANGED <<vmLost, closer, closing, ioSocket, allocVars, stdinVars,
                   sockVars, readerVars, guestVars, historyVars>>

(***************************************************************************)
(* vm.Close, run by the goroutine that waits on OnVMLost                   *)
(***************************************************************************)

CloseSockets ==
    /\ closer = "wait" /\ vmLost
    /\ ioSocket' = "closed"
    /\ closer' = "lock"
    /\ UNCHANGED <<vmLost, closing, console, allocVars, stdinVars, sockVars,
                   readerVars, guestVars, historyVars>>

CloseLock ==
    /\ closer = "lock"
    /\ closer' = "iterate"
    /\ UNCHANGED <<vmLost, closing, ioSocket, console, allocVars, stdinVars,
                   sockVars, readerVars, guestVars, historyVars>>

\* Mutant of CloseSession: the session is closed at its other number.
CloseSessionInverted(q) ==
    /\ closer = "iterate"
    /\ ioSessions' = Delete(ioSessions, q)
    /\ LET s == ioSessions[q] IN
         \/ /\ q = ioBase[s]
            /\ UNCHANGED <<conn, closer, closing>>
         \/ /\ q # ioBase[s]
            /\ conn' = [conn EXCEPT ![s] = "closed"]
            /\ closing' = s
            /\ closer' = "join"
    /\ UNCHANGED <<nextIoBase, ioBase, nStreams, peer, toClient, fromClient,
                   vmLost, ioSocket, console, stdinVars, readerVars, guestVars,
                   historyVars>>

\* Mutant of CloseSession: the socket of the session is left open.
CloseSessionOpen(q) ==
    /\ closer = "iterate"
    /\ ioSessions' = Delete(ioSessions, q)
    /\ LET s == ioSessions[q] IN
         \/ /\ q # ioBase[s]
            /\ UNCHANGED <<conn, closer, closing>>
         \/ /\ q = ioBase[s]
            /\ UNCHANGED conn
            /\ closing' = s
            /\ closer' = "join"
    /\ UNCHANGED <<nextIoBase, ioBase, nStreams, peer, toClient, fromClient,
                   vmLost, ioSocket, console, stdinVars, readerVars, guestVars,
                   historyVars>>

\* Mutant of CloseSession: sessions are dropped from the map and not closed.
CloseSessionForgotten(q) ==
    /\ closer = "iterate"
    /\ ioSessions' = Delete(ioSessions, q)
    /\ UNCHANGED <<nextIoBase, ioBase, nStreams, sockVars, closeVars, stdinVars,
                   readerVars, guestVars, historyVars>>

\* One turn of the loop over the map, whose order is not specified.  A
\* session with two sequence numbers is closed at its ioBase only.
CloseSession(q) ==
    /\ closer = "iterate"
    /\ ioSessions' = Delete(ioSessions, q)
    /\ LET s == ioSessions[q] IN
         \/ /\ q # ioBase[s]
            /\ UNCHANGED <<conn, closer, closing>>
         \/ /\ q = ioBase[s]
            /\ conn' = [conn EXCEPT ![s] = "closed"]
            /\ closing' = s
            /\ closer' = "join"
    /\ UNCHANGED <<nextIoBase, ioBase, nStreams, peer, toClient, fromClient,
                   vmLost, ioSocket, console, stdinVars, readerVars, guestVars,
                   historyVars>>

\* session.wg.Wait()
CloseJoin ==
    /\ closer = "join"
    /\ ~ StdinRunning(closing)
    /\ closing' = NoSession
    /\ closer' = "iterate"
    /\ UNCHANGED <<vmLost, ioSocket, console, allocVars, stdinVars, sockVars,
                   readerVars, guestVars, historyVars>>

CloseUnlock ==
    /\ closer = "iterate"
    /\ DOMAIN ioSessions = {}
    /\ closer' = "wait-vm"
    /\ UNCHANGED <<vmLost, closing, ioSocket, console, allocVars, stdinVars,
                   sockVars, readerVars, guestVars, historyVars>>

\* vm.wg.Wait(): the reader and the console goroutines.
CloseDone ==
    /\ closer = "wait-vm"
    /\ reader \in {"done", "broken"}
    /\ console # "run"
    /\ closer' = "done"
    /\ UNCHANGED <<vmLost, closing, ioSocket, console, allocVars, stdinVars,
                   sockVars, readerVars, guestVars, historyVars>>

(***************************************************************************)
(* The environment: the clients that hold the other end of the socket      *)
(* pairs (cc-shim) and the guest (hyperstart).                             *)
(***************************************************************************)

ClientWrite(s, q) ==
    /\ peer[s] = "open" /\ conn[s] = "open"
    /\ written[s] < MaxIn
    /\ Len(fromClient[s]) < SockCap
    /\ written' = [written EXCEPT ![s] = @ + 1]
    /\ fromClient' = [fromClient EXCEPT
                        ![s] = Append(@, [s |-> s, k |-> written[s] + 1, q |-> q])]
    /\ UNCHANGED <<conn, peer, toClient, sent, got, guestIn, allocVars,
                   stdinVars, readerVars, closeVars, guestVars>>

\* What the proxy wrote stays readable after the proxy has closed its end.
ClientRead(s) ==
    /\ peer[s] = "open"
    /\ toClient[s] # <<>>
    /\ got' = [got EXCEPT ![s] = Append(@, Head(toClient[s]))]
    /\ toClient' = [toClient EXCEPT ![s] = Tail(@)]
    /\ UNCHANGED <<conn, peer, fromClient, sent, written, guestIn, allocVars,
                   stdinVars, readerVars, closeVars, guestVars>>

ClientExit(s) ==
    /\ peer[s] = "open"
    /\ peer' = [peer EXCEPT ![s] = "closed"]
    /\ UNCHANGED <<conn, toClient, fromClient, allocVars, stdinVars, readerVars,
                   closeVars, guestVars, historyVars>>

\* The process of session s writes to stdout (ioBase) or stderr (ioBase + 1).
GuestWrite(s, q) ==
    /\ guest = "alive" /\ ioSocket = "open"
    /\ Allocated(s)
    /\ sent[s] < MaxOut
    /\ sent' = [sent EXCEPT ![s] = @ + 1]
    /\ guestOut' = Append(guestOut, [s |-> s, k |-> sent[s] + 1, q |-> q])
    /\ UNCHANGED <<guest, got, written, guestIn, allocVars, stdinVars, sockVars,
                   readerVars, closeVars>>

GuestExit ==
    /\ guest = "alive"
    /\ guest' = "gone"
    /\ UNCHANGED <<guestOut, allocVars, stdinVars, sockVars, readerVars,
                   closeVars, historyVars>>

-----------------------------------------------------------------------------
Stdin(s) == StartStdin(s) \/ StdinRead(s) \/ StdinReadError(s) \/ StdinSend(s)
Reader == ReaderRead \/ ReaderReadError \/ ReaderFind \/ ReaderSend \/ ReaderSendError
Closer ==
    \/ CloseSockets \/ CloseLock \/ CloseJoin \/ CloseUnlock \/ CloseDone
    \/ \E q \in DOMAIN ioSessions : CloseSession(q)
\* The streams a client is told of: the first one even if it asked for none.
Addressable(s) == {ioBase[s]} \cup Streams(s)
Client(s) ==
    \/ ClientRead(s) \/ ClientExit(s)
    \/ \E q \in Addressable(s) : ClientWrite(s, q)
Guest == GuestExit \/ \E s \in Sessions : \E q \in Addressable(s) : GuestWrite(s, q)

Next ==
    \/ \E s \in Sessions : Stdin(s) \/ Client(s) \/ \E n \in NStreams : AllocateIo(s, n)
    \/ Reader \/ Closer \/ ConsoleEnd \/ Guest

Spec == Init /\ [][Next]_vars

\* The Go scheduler runs every goroutine that is not blocked, and a client
\* reads what it is sent for as long as it lives (the poll loop of cc-shim).
Fairness ==
    /\ WF_vars(Reader) /\ WF_vars(Closer) /\ WF_vars(ConsoleEnd)
    /\ \A s \in Sessions : WF_vars(Stdin(s)) /\ WF_vars(ClientRead(s))

FairSpec == Spec /\ Fairness

-----------------------------------------------------------------------------

AllocTypeOK ==
    /\ nextIoBase \in Nat \ {0}
    /\ DOMAIN ioSessions \subseteq 1..(nextIoBase - 1)
    /\ \A q \in DOMAIN ioSessions : ioSessions[q] \in Sessions
    /\ ioBase \in [Sessions -> Nat]
    /\ nStreams \in [Sessions -> NStreams \cup {0}]
StdinTypeOK ==
    /\ stdin \in [Sessions -> {"none", "starting", "read", "send", "done"}]
    /\ held \in [Sessions -> Seq(Frame)]
    /\ \A s \in Sessions : Len(held[s]) = (IF stdin[s] = "send" THEN 1 ELSE 0)
SockTypeOK ==
    /\ conn \in [Sessions -> {"none", "open", "closed"}]
    /\ peer \in [Sessions -> {"none", "open", "closed"}]
    /\ toClient \in [Sessions -> Seq(Frame)]
    /\ fromClient \in [Sessions -> Seq(Frame)]
    /\ \A s \in Sessions : Len(toClient[s]) <= SockCap /\ Len(fromClient[s]) <= SockCap
ReaderTypeOK ==
    /\ reader \in {"read", "find", "send", "done", "broken"}
    /\ rframe \in Seq(Frame)
    /\ Len(rframe) = (IF reader \in {"find", "send"} THEN 1 ELSE 0)
    /\ rsession \in Sessions \cup {NoSession}
    /\ rsession # NoSession <=> reader = "send"
CloseTypeOK ==
    /\ vmLost \in BOOLEAN
    /\ closer \in {"wait", "lock", "iterate", "join", "wait-vm", "done"}
    /\ closing \in Sessions \cup {NoSession}
    /\ closing # NoSession <=> closer = "join"
    /\ ioSocket \in {"open", "closed"}
    /\ console \in {"off", "run", "done"}
GuestTypeOK == guest \in {"alive", "gone"} /\ guestOut \in Seq(Frame)
HistoryTypeOK ==
    /\ sent \in [Sessions -> 0..MaxOut]
    /\ got \in [Sessions -> Seq(Frame)]
    /\ written \in [Sessions -> 0..MaxIn]
    /\ guestIn \in [Sessions -> Seq(Nat)]

\* The type invariant of the VM object, its goroutines and its sockets.
TypeOK ==
    /\ AllocTypeOK /\ StdinTypeOK /\ SockTypeOK /\ ReaderTypeOK
    /\ CloseTypeOK /\ GuestTypeOK /\ HistoryTypeOK

\* What the client of a session has read is exactly what its process wrote
\* first: ioHyperToClients loses, repeats and reorders nothing within a
\* session, and never hands a client a frame of another session.
OutputInOrder ==
    \A s \in Sessions : \A i \in 1..Len(got[s]) : got[s][i].s = s /\ got[s][i].k = i

\* The same for stdin: ioClientToHyper forwards a prefix of what its client
\* wrote.
StdinInOrder ==
    \A s \in Sessions : \A i \in 1..Len(guestIn[s]) : guestIn[s][i] = i

\* "Used to allocate globally unique IO sequence numbers" (vm.nextIoBase): no
\* sequence number told to a client is ever told to another one.
GloballyUnique ==
    \A s, t \in Sessions :
        Allocated(s) /\ Allocated(t) /\ s # t => Addressable(s) \cap Addressable(t) = {}

\* A session whose socket is open is in vm.ioSessions under its ioBase, where
\* vm.Close looks for it: no open session escapes the map.
OpenIsRegistered ==
    \A s \in Sessions :
        conn[s] = "open" => ioBase[s] \in DOMAIN ioSessions /\ ioSessions[ioBase[s]] = s

\* vm.Close, which waits for goroutines with the vm mutex held, always ends.
CloseTerminates == vmLost ~> closer = "done"

\* Losing the VM ends every session that exists when vm.Close starts: its
\* stdin goroutine terminates.
SessionsEnd ==
    \A s \in Sessions :
        vmLost /\ closer = "wait" /\ Allocated(s) ~> stdin[s] = "done"

\* The end of the qemu process leads to the end of vm.Close, unless the
\* goroutine that would have noticed it has ended on a write error before.
LossDetected == guest = "gone" ~> closer = "done" \/ reader = "broken"

\* Every frame a process writes reaches the client of its session, unless the
\* client exits or the routing goroutine ends on a write error.
OutputDelivered ==
    \A s \in Sessions : \A k \in 1..MaxOut :
        sent[s] >= k ~> Len(got[s]) >= k \/ peer[s] = "closed" \/ reader = "broken"

=============================================================================
