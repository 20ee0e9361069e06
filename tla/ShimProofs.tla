----------------------------- MODULE ShimProofs -----------------------------
(***************************************************************************)
(* Proofs about Shim, for any stdin, any capacities of the pipe and of the *)
(* socket, any number of events and any faults.                            *)
(***************************************************************************)
EXTENDS Shim, Integers, SequenceTheorems, TLAPS

-----------------------------------------------------------------------------
(* Signals.                                                                 *)

SignalType ==
  /\ sigpipe \in Seq(Signals) /\ caught \in Seq(Signals)
  /\ sent \in Seq([msg : {"winsize", "killcontainer"}, of : Nat])
  /\ Len(sigpipe) <= Len(caught)

\* The signals that have been taken off the pipe.
Handled == Len(caught) - Len(sigpipe)

\* The pipe holds the last of the signals caught.
PipeInv ==
  \A i \in 1..Len(sigpipe) : sigpipe[i] = caught[Handled + i]

\* Every message is for a signal that was handled, in the order of the signals.
SentInv ==
  /\ \A i \in 1..Len(sent) :
        /\ 1 <= sent[i].of /\ sent[i].of <= Handled
        /\ Forwarded(caught[sent[i].of])
        /\ sent[i].msg = Message(caught[sent[i].of])
  /\ \A i, j \in 1..Len(sent) : i < j => sent[j].of > sent[i].of

\* While the proxy is there no signal goes without its message.
AllSent ==
  up /\ stdin # "closed" =>
     \A k \in 1..Len(caught) :
        k <= Handled /\ Forwarded(caught[k]) => \E i \in 1..Len(sent) : sent[i].of = k

SInv == SignalType /\ PipeInv /\ SentInv /\ AllSent

\* The ranks of the messages are those of signals that have been caught.
LEMMA SentRange ==
  ASSUME SInv
  PROVE  /\ Handled \in Nat /\ Len(caught) \in Nat /\ Len(sent) \in Nat
         /\ Handled <= Len(caught) /\ Len(sigpipe) = Len(caught) - Handled
         /\ \A i \in 1..Len(sent) :
               sent[i].of \in Nat /\ 1 <= sent[i].of /\ sent[i].of <= Handled
<1>1. /\ Handled \in Nat /\ Len(caught) \in Nat /\ Len(sent) \in Nat
      /\ Handled <= Len(caught) /\ Len(sigpipe) = Len(caught) - Handled
  BY DEF SInv, SignalType, Handled
<1>2. \A i \in 1..Len(sent) : sent[i] \in [msg : {"winsize", "killcontainer"}, of : Nat]
  BY ElementOfSeq, Zenon DEF SInv, SignalType
<1>3. \A i \in 1..Len(sent) : sent[i].of \in Nat
  BY <1>2, Zenon
<1>4. QED
  BY <1>1, <1>3, Zenon DEF SInv, SentInv

\* Nothing has been caught or sent at first.
LEMMA InitSInv == Init => SInv
  BY DEF Init, SInv, SignalType, PipeInv, SentInv, AllSent, Handled

\* A step that leaves the signals alone.
LEMMA SignalsUntouched ==
  ASSUME SInv, UNCHANGED <<stdin, sigpipe, caught, sent>>, up' => up
  PROVE  SInv'
<1>1. SignalType' /\ PipeInv'
  BY Zenon DEF SInv, SignalType, PipeInv, Handled
<1>2. SentInv'
  BY Zenon DEF SInv, SentInv, Handled, Forwarded, Message
<1>3. AllSent'
  BY Zenon DEF SInv, AllSent, Handled, Forwarded
<1>4. QED
  BY <1>1, <1>2, <1>3, Zenon DEF SInv

\* signal_handler adds to the pipe and to the signals caught at the same end.
LEMMA RaiseSignals ==
  ASSUME SInv, Raise
  PROVE  SInv'
<1>1. PICK s \in Signals :
        IF Len(sigpipe) < PipeCap
        THEN sigpipe' = Append(sigpipe, s) /\ caught' = Append(caught, s)
        ELSE UNCHANGED <<sigpipe, caught>>
  BY Zenon DEF Raise
<1>u. UNCHANGED <<stdin, sent, up>>
  BY Zenon DEF Raise, envVars
<1>2. CASE UNCHANGED <<sigpipe, caught>>
  BY <1>2, <1>u, SignalsUntouched, Zenon
<1>3. CASE sigpipe' = Append(sigpipe, s) /\ caught' = Append(caught, s)
  <2>1. /\ sigpipe' \in Seq(Signals) /\ Len(sigpipe') = Len(sigpipe) + 1
        /\ caught' \in Seq(Signals) /\ Len(caught') = Len(caught) + 1
        /\ \A k \in 1..Len(caught) : caught'[k] = caught[k]
        /\ \A k \in 1..Len(sigpipe) : sigpipe'[k] = sigpipe[k]
        /\ caught'[Len(caught) + 1] = s /\ sigpipe'[Len(sigpipe) + 1] = s
    BY <1>3 DEF SInv, SignalType
  <2>2. SignalType' /\ Handled' = Handled /\ Handled \in 0..Len(caught)
    BY <2>1, <1>u DEF SInv, SignalType, Handled
  <2>3. PipeInv'
    <3>1. \A i \in 1..Len(sigpipe') : i \in 1..Len(sigpipe) \/ i = Len(sigpipe) + 1
      BY <2>1 DEF SInv, SignalType
    <3>2. \A i \in 1..Len(sigpipe) : Handled + i \in 1..Len(caught)
      BY SentRange
    <3>3. Handled + (Len(sigpipe) + 1) = Len(caught) + 1
      BY SentRange
    <3>4. \A i \in 1..Len(sigpipe) : sigpipe'[i] = caught'[Handled + i]
      BY <2>1, <3>2, Zenon DEF SInv, PipeInv
    <3>5. QED
      BY <2>1, <2>2, <3>1, <3>3, <3>4, Zenon DEF PipeInv
  <2>4. SentInv'
    <3>1. \A i \in 1..Len(sent) : sent[i].of \in 1..Len(caught)
      BY SentRange
    <3>2. \A i \in 1..Len(sent) : caught'[sent[i].of] = caught[sent[i].of]
      BY <3>1, <2>1, Zenon
    <3>3. QED
      BY <3>2, <2>2, <1>u, Zenon DEF SInv, SentInv, Forwarded, Message
  <2>5. AllSent'
    <3>1. \A k \in 1..Len(caught)' : k <= Handled' => k \in 1..Len(caught)
      BY <2>1, <2>2 DEF SInv, SignalType
    <3>2. QED
      BY <3>1, <2>1, <2>2, <1>u, Zenon DEF SInv, AllSent, Forwarded
  <2>6. QED
    BY <2>2, <2>3, <2>4, <2>5, Zenon DEF SInv
<1>4. QED
  BY <1>1, <1>2, <1>3, Zenon

\* handle_signals takes the next signal, with or without a message.
LEMMA HandleSignals ==
  ASSUME SInv, HandleSignal
  PROVE  SInv'
<1>u. UNCHANGED <<stdin, caught, up>>
  BY Zenon DEF HandleSignal, envVars
<1>1. CASE UNCHANGED <<sigpipe, sent>>
  BY <1>1, <1>u, SignalsUntouched, Zenon
<1>2. CASE /\ sigpipe # <<>> /\ sigpipe' = Tail(sigpipe)
           /\ sent' = IF up /\ Forwarded(Head(sigpipe))
                      THEN Append(sent, MessageFor(Head(sigpipe))) ELSE sent
  <2> DEFINE h == Handled + 1
  <2>1. /\ sigpipe' \in Seq(Signals) /\ Len(sigpipe') = Len(sigpipe) - 1
        /\ \A k \in 1..Len(sigpipe') : sigpipe'[k] = sigpipe[k + 1]
        /\ Len(sigpipe) >= 1 /\ Len(sigpipe) \in Nat /\ Len(caught) \in Nat
        /\ Head(sigpipe) = sigpipe[1]
    BY <1>2 DEF SInv, SignalType
  <2>2. Handled' = h /\ h \in 1..Len(caught) /\ Head(sigpipe) = caught[h]
    BY <2>1, <1>u DEF SInv, SignalType, PipeInv, Handled
  <2>3. PipeInv'
    <3>1. \A k \in 1..Len(sigpipe') : k + 1 \in 1..Len(sigpipe)
                                      /\ Handled + (k + 1) = h + k
      BY <2>1 DEF Handled, SInv, SignalType
    <3>2. \A k \in 1..Len(sigpipe') : sigpipe'[k] = caught[h + k]
      BY <3>1, <2>1, Zenon DEF SInv, PipeInv
    <3>3. QED
      BY <3>2, <2>2, <1>u, Zenon DEF PipeInv
  <2>4. \A s : (Forwarded(s) <=> Forwarded(s)')
    BY <1>u, Zenon DEF Forwarded
  <2>5. CASE ~(up /\ Forwarded(caught[h]))
    <3>1. sent' = sent
      BY <2>5, <2>2, <1>2, Zenon
    <3>2. SignalType'
      BY <3>1, <2>1, <1>u DEF SInv, SignalType
    <3>3. SentInv'
      <4>1. \A i \in 1..Len(sent) : sent[i].of <= Handled'
        BY <2>2, SentRange
      <4>2. QED
        BY <4>1, <3>1, <1>u, <2>4, Zenon DEF SInv, SentInv, Forwarded, Message
    <3>4. AllSent'
      <4>1. \A k \in 1..Len(caught) : k <= h => k <= Handled \/ k = h
        BY <2>1 DEF Handled
      <4>2. QED
        BY <4>1, <3>1, <2>2, <2>4, <2>5, <1>u, Zenon DEF SInv, AllSent
    <3>5. QED
      BY <3>2, <2>3, <3>3, <3>4, Zenon DEF SInv
  <2>6. CASE up /\ Forwarded(caught[h])
    <3> DEFINE m == [msg |-> Message(caught[h]), of |-> h]
    <3>1. sent' = Append(sent, m)
      BY <2>6, <2>2, <1>2, Zenon DEF MessageFor, Handled
    <3>2. m \in [msg : {"winsize", "killcontainer"}, of : Nat]
          /\ m.of = h /\ m.msg = Message(caught[h])
      BY <2>2 DEF Message
    <3> HIDE DEF m
    <3>3. /\ sent' \in Seq([msg : {"winsize", "killcontainer"}, of : Nat])
          /\ Len(sent') = Len(sent) + 1 /\ Len(sent) \in Nat
          /\ \A i \in 1..Len(sent) : sent'[i] = sent[i]
          /\ sent'[Len(sent) + 1] = m
      BY <3>1, <3>2 DEF SInv, SignalType
    <3>4. SignalType'
      BY <3>3, <2>1, <1>u DEF SInv, SignalType
    <3>5. SentInv'
      <4>1. \A i \in 1..Len(sent) : sent[i].of \in Nat /\ 1 <= sent[i].of /\ sent[i].of < h
        BY SentRange
      <4>2. \A i \in 1..Len(sent') : i \in 1..Len(sent) \/ i = Len(sent) + 1
        BY <3>3
      <4>3. \A i \in 1..Len(sent') :
              /\ 1 <= sent'[i].of /\ sent'[i].of <= h
              /\ Forwarded(caught[sent'[i].of])
              /\ sent'[i].msg = Message(caught[sent'[i].of])
        <5>1. ASSUME NEW i \in 1..Len(sent)
              PROVE  /\ 1 <= sent'[i].of /\ sent'[i].of <= h
                     /\ Forwarded(caught[sent'[i].of])
                     /\ sent'[i].msg = Message(caught[sent'[i].of])
          <6>1. sent'[i] = sent[i]
            BY <3>3, Zenon
          <6>2. 1 <= sent[i].of /\ sent[i].of <= h
            BY <4>1, <2>2
          <6>3. Forwarded(caught[sent[i].of]) /\ sent[i].msg = Message(caught[sent[i].of])
            BY Zenon DEF SInv, SentInv
          <6>4. QED
            BY <6>1, <6>2, <6>3, Zenon
        <5>2. 1 <= m.of /\ m.of <= h /\ Forwarded(caught[m.of]) /\ m.msg = Message(caught[m.of])
          BY <3>2, <2>2, <2>6
        <5>3. QED
          BY <4>2, <5>1, <5>2, <3>3, Zenon
      <4>4. \A i, j \in 1..Len(sent') : i < j => sent'[j].of > sent'[i].of
        <5>1. \A i, j \in 1..Len(sent) : i < j => sent'[j].of > sent'[i].of
          BY <3>3, Zenon DEF SInv, SentInv
        <5>2. \A i \in 1..Len(sent) : m.of > sent'[i].of
          BY <3>2, <3>3, <4>1, <2>2, Zenon
        <5>3. ASSUME NEW i \in 1..Len(sent'), NEW j \in 1..Len(sent'), i < j
              PROVE  sent'[j].of > sent'[i].of
          <6>1. i \in 1..Len(sent)
            BY <3>3, <5>3
          <6>2. j \in 1..Len(sent) \/ j = Len(sent) + 1
            BY <4>2, Zenon
          <6>3. QED
            BY <6>1, <6>2, <5>1, <5>2, <5>3, <3>3, Zenon
        <5>4. QED
          BY <5>3, Zenon
      <4>5. QED
        BY <4>3, <4>4, <1>u, <2>2, Zenon DEF SentInv, Forwarded, Message
    <3>6. AllSent'
      <4>1. \A k \in 1..Len(caught) : k <= h => k <= Handled \/ k = h
        BY <2>1 DEF Handled
      <4>2. \A i \in 1..Len(sent) : i \in 1..Len(sent') /\ sent'[i] = sent[i]
        BY <3>3
      <4>3. Len(sent) + 1 \in 1..Len(sent') /\ sent'[Len(sent) + 1].of = h
        BY <3>3, <3>2
      <4>4. ASSUME up, stdin # "closed", NEW k \in 1..Len(caught), k <= h,
                   Forwarded(caught[k])
            PROVE  \E i \in 1..Len(sent') : sent'[i].of = k
        <5>1. CASE k <= Handled
          <6>1. PICK i \in 1..Len(sent) : sent[i].of = k
            BY <4>4, <5>1, Zenon DEF SInv, AllSent
          <6> QED
            BY <4>2, <6>1, Zenon
        <5>2. CASE k = h
          BY <4>3, <5>2, Zenon
        <5> QED
          BY <4>1, <4>4, <5>1, <5>2, Zenon
      <4>5. QED
        BY <4>4, <2>2, <2>4, <1>u, Zenon DEF AllSent, Forwarded
    <3>7. QED
      BY <3>4, <2>3, <3>5, <3>6, Zenon DEF SInv
  <2>7. QED
    BY <2>5, <2>6, Zenon
<1>3. QED
  BY <1>1, <1>2, Zenon DEF HandleSignal

\* With stdin closed handle_stdin may take what the pipe holds for input.
LEMMA StdinSignals ==
  ASSUME SInv, HandleStdin
  PROVE  SInv'
<1>u. UNCHANGED <<stdin, caught, sent, up>>
  BY Zenon DEF HandleStdin, envVars
<1>1. CASE sigpipe' = sigpipe
  BY <1>1, <1>u, SignalsUntouched, Zenon
<1>2. CASE stdin = "closed" /\ sigpipe' = <<>>
  <2>1. SignalType' /\ PipeInv' /\ AllSent'
    BY <1>2, <1>u DEF SInv, SignalType, PipeInv, AllSent, Handled
  <2>2. Handled <= Handled' /\ Handled \in Nat /\ Handled' \in Nat
    BY <1>2, <1>u DEF SInv, SignalType, Handled
  <2>3. \A i \in 1..Len(sent) : sent[i].of <= Handled'
    BY <2>2, SentRange
  <2>4. SentInv'
    BY <2>3, <1>u, Zenon DEF SInv, SentInv, Forwarded, Message
  <2>5. QED
    BY <2>1, <2>4, Zenon DEF SInv
<1>3. QED
  BY <1>1, <1>2, Zenon DEF HandleStdin

\* Every step keeps SInv.
LEMMA NextSInv == SInv /\ [Next]_vars => SInv'
<1> SUFFICES ASSUME SInv, [Next]_vars PROVE SInv'
  BY Zenon
<1>1. CASE UNCHANGED vars
  BY <1>1, SignalsUntouched, Zenon DEF vars
<1>2. CASE Poll \/ ReadOutput \/ HandleOutput \/ HandleCtl
  <2>1. UNCHANGED <<stdin, sigpipe, caught, sent, up>>
    BY <1>2, Zenon DEF Poll, ReadOutput, HandleOutput, HandleCtl, sigVars, envVars
  <2>2. QED
    BY <2>1, SignalsUntouched, Zenon
<1>3. CASE Environment
  <2>1. UNCHANGED <<stdin, sigpipe, caught, sent>> /\ (up' => up)
    <3>1. Env /\ (up' = up \/ ProxyEnds)
      BY <1>3, Zenon
         DEF Environment, Type, GuestWrite, GuestEof, GuestExit, Answer, ProxyEnds, envVars
    <3>2. QED
      BY <3>1 DEF Env, ProxyEnds
  <2>2. QED
    BY <2>1, SignalsUntouched, Zenon
<1>4. QED
  BY <1>1, <1>2, <1>3, RaiseSignals, HandleSignals, StdinSignals, Zenon DEF Next, Loop

\* The signals the shim has caught go to the proxy one by one and in order, as
\* the messages of handle_signals, and while the proxy is there none is left
\* out: for any capacity of the self-pipe.
THEOREM SignalsTheorem == Spec => []SignalsInOrder
<1>1. SInv => SignalsInOrder
  <2> SUFFICES ASSUME SInv PROVE SignalsInOrder
    BY Zenon
  <2>1. Handled \in Nat /\ Len(caught) \in Nat /\ Len(sigpipe) = Len(caught) - Handled
        /\ Handled <= Len(caught)
    BY DEF SInv, SignalType, Handled
  <2>2. sigpipe = SubSeq(caught, Handled + 1, Len(caught))
    <3> DEFINE t == SubSeq(caught, Handled + 1, Len(caught))
    <3>1. t \in Seq(Signals) /\ Len(t) = Len(caught) - Handled
          /\ \A i \in 1..Len(t) : t[i] = caught[Handled + i]
      BY <2>1 DEF SInv, SignalType
    <3> HIDE DEF t
    <3>2. sigpipe = t
      BY <3>1, <2>1, SeqEqual, Zenon DEF SInv, SignalType, PipeInv
    <3>3. QED
      BY <3>2, Zenon DEF t
  <2>3. \A i \in 1..Len(sent) :
          /\ sent[i].of \in 1..Handled
          /\ Forwarded(caught[sent[i].of]) /\ sent[i].msg = Message(caught[sent[i].of])
          /\ \A j \in 1..(i - 1) : sent[j].of < sent[i].of
    <3> SUFFICES ASSUME NEW i \in 1..Len(sent)
                 PROVE  /\ sent[i].of \in 1..Handled
                        /\ Forwarded(caught[sent[i].of])
                        /\ sent[i].msg = Message(caught[sent[i].of])
                        /\ \A j \in 1..(i - 1) : sent[j].of < sent[i].of
      BY Zenon
    <3>1. Len(sent) \in Nat /\ \A j \in 1..Len(sent) : sent[j].of \in Nat
      BY SentRange, Zenon
    <3>2. sent[i].of \in 1..Handled
      BY SentRange
    <3>3. \A j \in 1..(i - 1) : sent[j].of < sent[i].of
      <4>1. \A j \in 1..(i - 1) : j \in 1..Len(sent) /\ j < i
        BY <3>1
      <4>2. \A j \in 1..(i - 1) : sent[i].of > sent[j].of
        BY <4>1, Zenon DEF SInv, SentInv
      <4>3. QED
        BY <3>1, <4>1, <4>2, Zenon
    <3>4. QED
      BY <3>2, <3>3, Zenon DEF SInv, SentInv
  <2>4. up /\ stdin # "closed" =>
          \A k \in 1..Handled : Forwarded(caught[k]) => \E i \in 1..Len(sent) : sent[i].of = k
    <3>1. \A k \in 1..Handled : k \in 1..Len(caught) /\ k <= Handled
      BY <2>1
    <3>2. QED
      BY <3>1, Zenon DEF SInv, AllSent
  <2>5. QED
    BY <2>2, <2>3, <2>4, Zenon DEF SignalsInOrder, Handled
<1>2. QED
  BY <1>1, InitSInv, NextSInv, PTL DEF Spec

-----------------------------------------------------------------------------
(* Output: reading a frame.                                                 *)

Units == {"h", "d"} \X {Out, Err} \X Nat \X {"out", "code"}

Header(i) == io[i][1] = "h"

FrameRecord ==
  frame = [stream |-> frame.stream, want |-> frame.want, data |-> frame.data,
           read |-> frame.read]

GuestRecord ==
  guest = [out |-> guest.out, eof |-> guest.eof, code |-> guest.code]

OutType ==
  /\ io \in Seq(Units)
  /\ FrameRecord
  /\ frame.stream \in {Out, Err} /\ frame.want \in Nat /\ frame.data \in Seq(Nat)
  /\ shown \in [{Out, Err} -> Seq(Nat)]
  /\ GuestRecord /\ guest.out \in [{Out, Err} -> Nat]
  /\ stdin \in Stdins

\* The units of the current frame that are still to be read.
Rest == frame.want - Len(frame.data)

FrameInv ==
  /\ Rest >= 0
  /\ frame.read => Rest = 0
  /\ ~frame.read => Rest > 0 \/ frame.want = 0

\* The unread units are the rest of the current frame and then whole frames; the
\* last of them may be cut off once the proxy is gone.
Shape ==
  /\ \A i \in 1..Len(io) : i <= Rest =>
        /\ ~Header(i) /\ io[i][2] = frame.stream
        /\ io[i][4] = IF exiting THEN "code" ELSE "out"
  /\ \A i \in 1..Len(io) : i = Rest + 1 => Header(i)
  /\ \A i, j \in 1..Len(io) : Header(i) /\ i < j /\ j <= i + io[i][3] =>
        ~Header(j) /\ io[j][2] = io[i][2] /\ io[j][4] = io[i][4]
  /\ \A i, j \in 1..Len(io) : Header(i) /\ j = i + io[i][3] + 1 => Header(j)
  /\ up => Rest <= Len(io)
  /\ up => \A i \in 1..Len(io) : Header(i) => i + io[i][3] <= Len(io)

\* The shim has read the end of a stream.
EofRead == exiting \/ (frame.read /\ frame.want = 0)

\* An end of a stream comes before the i-th unread unit.
EofBefore(i) ==
  EofRead \/ \E k \in 1..Len(io) : k < i /\ Header(k) /\ io[k][3] = 0

\* After the end of a stream come ends of streams and at last the exit code, and
\* the exit code comes after the end of a stream.
CodeLast ==
  /\ \A i \in 1..Len(io) : EofBefore(i) /\ io[i][4] = "out" => Header(i) /\ io[i][3] = 0
  /\ \A i \in 1..Len(io) : io[i][4] = "code" =>
        /\ EofBefore(i) /\ guest.code
        /\ Header(i) => io[i][3] = 1 /\ i + 1 >= Len(io)
        /\ ~Header(i) => io[i][3] = ExitCode /\ i = Len(io)
  /\ frame.want > 0 /\ exiting =>
        /\ frame.want = 1 /\ guest.code /\ Len(io) <= Rest
        /\ Rest = 0 => frame.data[1] = ExitCode

\* The same seen from the workload.
GuestInv ==
  /\ EofBefore(Len(io) + 1) => guest.eof # {}
  /\ up /\ guest.eof # {} => EofBefore(Len(io) + 1)
  /\ guest.code => guest.eof = Streams

\* The units of stream s the shim has read, shown or not.
Pos(s) == Len(shown[s]) + IF frame.stream = s /\ ~exiting THEN Len(frame.data) ELSE 0

\* The i-th unread unit is output to stream s.
Output(i, s) == ~Header(i) /\ io[i][4] = "out" /\ io[i][2] = s

\* The exit code has arrived, read or not.
CodeHere == (exiting /\ frame.want > 0) \/ \E i \in 1..Len(io) : io[i][4] = "code"

\* Stream s holds, after what has been read, the next units the workload wrote
\* to it, in order and without a gap, up to the last one unless the end was cut.
StreamInv(s) ==
  /\ \A i \in 1..Len(shown[s]) : shown[s][i] = i
  /\ frame.stream = s /\ ~exiting =>
        \A i \in 1..Len(frame.data) : frame.data[i] = Len(shown[s]) + i
  /\ Pos(s) <= guest.out[s]
  /\ \A i \in 1..Len(io) : Output(i, s) => Pos(s) < io[i][3] /\ io[i][3] <= guest.out[s]
  /\ \A i, j \in 1..Len(io) : Output(i, s) /\ Output(j, s) /\ i < j => io[i][3] < io[j][3]
  /\ \A i \in 1..Len(io), v \in Nat : Output(i, s) /\ Pos(s) < v /\ v < io[i][3] =>
        \E j \in 1..Len(io) : Output(j, s) /\ io[j][3] = v
  /\ up \/ CodeHere => \A v \in Nat : Pos(s) < v /\ v <= guest.out[s] =>
        \E j \in 1..Len(io) : Output(j, s) /\ io[j][3] = v

\* What the shim ends with.
EndInv ==
  status = "exit" =>
     /\ guest.code /\ code = ExitCode
     /\ ~dropped => \A s \in {Out, Err} : Len(shown[s]) = guest.out[s]

OInv == /\ OutType /\ FrameInv /\ Shape /\ CodeLast /\ GuestInv /\ EndInv
        /\ ~dropped => \A s \in {Out, Err} : StreamInv(s)
-----------------------------------------------------------------------------

\* The types of what OutType is about, one by one.
LEMMA UnitTypes ==
  ASSUME OutType
  PROVE  /\ Len(io) \in Nat /\ Len(frame.data) \in Nat /\ frame.want \in Nat
         /\ \A s \in {Out, Err} : Len(shown[s]) \in Nat /\ guest.out[s] \in Nat
         /\ \A i \in 1..Len(io) :
               /\ io[i] \in Units
               /\ io[i][1] \in {"h", "d"} /\ io[i][2] \in {Out, Err}
               /\ io[i][3] \in Nat /\ io[i][4] \in {"out", "code"}
<1>1. \A i \in 1..Len(io) : io[i] \in Units
  BY ElementOfSeq, Zenon DEF OutType
<1>2. \A u \in Units : /\ u[1] \in {"h", "d"} /\ u[2] \in {Out, Err}
                       /\ u[3] \in Nat /\ u[4] \in {"out", "code"}
  BY Zenon DEF Units
<1>3. /\ Len(io) \in Nat /\ Len(frame.data) \in Nat /\ frame.want \in Nat
      /\ \A s \in {Out, Err} : Len(shown[s]) \in Nat /\ guest.out[s] \in Nat
  BY DEF OutType
<1>4. QED
  BY <1>1, <1>2, <1>3, Zenon

\* Positions in the streams are numbers.
LEMMA PosType ==
  ASSUME OutType, NEW s \in {Out, Err}
  PROVE  Pos(s) \in Nat /\ Len(shown[s]) \in Nat /\ guest.out[s] \in Nat
<1>1. Len(shown[s]) \in Nat /\ guest.out[s] \in Nat /\ Len(frame.data) \in Nat
  BY UnitTypes, Zenon
<1>2. \A a, b \in Nat : a + b \in Nat /\ a + 0 \in Nat
  OBVIOUS
<1>3. QED
  BY <1>1, <1>2, Zenon DEF Pos

\* A step that leaves the output alone; the shim may fail.
LEMMA OutputUntouched ==
  ASSUME OInv, UNCHANGED <<stdin, code, io, frame, exiting, shown, dropped, up, guest>>,
         status' \in {status, "failure"}
  PROVE  OInv'
<1>1. OutType' /\ FrameInv'
  BY Zenon DEF OInv, OutType, FrameRecord, GuestRecord, FrameInv, Rest
<1>2. Shape'
  BY DEF OInv, Shape, Header, Rest
<1>3. CodeLast' /\ GuestInv'
  BY DEF OInv, CodeLast, GuestInv, Header, Rest, EofBefore, EofRead, Streams
<1>4. EndInv'
  BY Zenon DEF OInv, EndInv
<1>5. ASSUME ~dropped, NEW s \in {Out, Err} PROVE StreamInv(s)'
  <2>1. StreamInv(s)
    BY <1>5, Zenon DEF OInv
  <2>2. QED
    BY <2>1, ZenonT(20) DEF StreamInv, Pos, Output, Header, CodeHere
<1>6. QED
  BY <1>1, <1>2, <1>3, <1>4, <1>5, Zenon DEF OInv

\* Nothing has been written, read or shown at first.
LEMMA InitOInv == Init => OInv
<1> SUFFICES ASSUME Init PROVE OInv
  BY Zenon
<1>1. /\ io = <<>> /\ Len(io) = 0 /\ frame.stream = Out /\ frame.want = 0
      /\ frame.data = <<>> /\ Len(frame.data) = 0 /\ Rest = 0
      /\ \A s \in {Out, Err} : shown[s] = <<>> /\ Len(shown[s]) = 0 /\ guest.out[s] = 0
      /\ guest.eof = {}
  BY DEF Init, NoFrame, Rest
<1>2. ~frame.read /\ ~exiting /\ ~guest.code /\ status = "run"
  BY Zenon DEF Init, NoFrame
<1>3. OutType
  BY <1>1 DEF Init, OutType, FrameRecord, GuestRecord, NoFrame
<1>4. FrameInv /\ Shape /\ EndInv
  BY <1>1, <1>2 DEF FrameInv, Shape, EndInv
<1>5. CodeLast /\ GuestInv
  BY <1>1, <1>2 DEF CodeLast, GuestInv, EofBefore, EofRead
<1>6. \A s \in {Out, Err} : StreamInv(s)
  BY <1>1, <1>2 DEF StreamInv, Pos
<1>7. QED
  BY <1>3, <1>4, <1>5, <1>6, Zenon DEF OInv

\* What a read leaves in the socket.
Shifted ==
  /\ io' \in Seq(Units) /\ Len(io) \in Nat /\ Len(io) >= 1 /\ Len(io') = Len(io) - 1
  /\ \A i \in 1..Len(io') : i + 1 \in 1..Len(io) /\ io'[i] = io[i + 1]
  /\ \A i \in 1..Len(io) : i > 1 => i - 1 \in 1..Len(io') /\ io'[i - 1] = io[i]

\* Taking the first unit off the socket shifts the others.
LEMMA ShiftedTail ==
  ASSUME io \in Seq(Units), io # <<>>, io' = Tail(io)
  PROVE  Shifted
<1>1. /\ io' \in Seq(Units) /\ Len(io) \in Nat /\ Len(io) >= 1
      /\ Len(io') = Len(io) - 1 /\ \A i \in 1..Len(io') : io'[i] = io[i + 1]
  OBVIOUS
<1>2. /\ \A i \in 1..Len(io') : i + 1 \in 1..Len(io)
      /\ \A i \in 1..Len(io) : i > 1 => i - 1 \in 1..Len(io') /\ (i - 1) + 1 = i
  BY <1>1
<1>3. QED
  BY <1>1, <1>2, Zenon DEF Shifted

\* The header of the next frame.
ReadHeader ==
  /\ ~frame.read /\ Rest = 0 /\ Shifted /\ FrameRecord'
  /\ frame'.stream = io[1][2] /\ frame'.want = io[1][3] /\ frame'.data = <<>>
  /\ frame'.read <=> io[1][3] = 0

\* The next unit of the current frame.
ReadData ==
  /\ ~frame.read /\ Rest > 0 /\ Shifted /\ FrameRecord'
  /\ frame'.stream = frame.stream /\ frame'.want = frame.want
  /\ frame'.data = Append(frame.data, io[1][3])
  /\ frame'.read <=> Len(frame.data) + 1 = frame.want

Others == UNCHANGED <<stdin, status, code, exiting, shown, dropped, up, guest>>

\* read_IO_message reads a header.
LEMMA HeaderStep ==
  ASSUME OInv, ReadHeader, Others
  PROVE  OInv'
<1> DEFINE u == io[1]
           v == io[1][3]
<1>0. /\ OutType /\ FrameInv /\ Shape /\ CodeLast /\ GuestInv /\ EndInv
      /\ Shifted
  BY Zenon DEF OInv, ReadHeader
<1>1. /\ 1 \in 1..Len(io) /\ v \in Nat /\ u[2] \in {Out, Err} /\ u[4] \in {"out", "code"}
  BY <1>0, UnitTypes DEF Shifted
<1>2. Header(1) /\ frame.want = 0 /\ Len(frame.data) = 0 /\ Rest = 0
  <2>1. Rest = 0 /\ frame.want = 0
    BY <1>0 DEF ReadHeader, FrameInv
  <2>2. Len(frame.data) = 0
    BY <2>1, <1>0, UnitTypes DEF Rest
  <2>3. Header(1)
    BY <2>1, <1>0, <1>1 DEF Shape
  <2>4. QED
    BY <2>1, <2>2, <2>3, Zenon
<1>3. Rest' = v /\ Len(frame'.data) = 0
  BY <1>1 DEF ReadHeader, Rest
<1>4. OutType' /\ FrameInv'
  <2>1. OutType'
    BY <1>0, <1>1 DEF OutType, GuestRecord, ReadHeader, Shifted, Others
  <2>2. FrameInv'
    BY <1>1, <1>3 DEF FrameInv, ReadHeader
  <2>3. QED
    BY <2>1, <2>2, Zenon
<1>5. v > 0 => u[4] = IF exiting THEN "code" ELSE "out"
  <2>1. EofBefore(1) <=> exiting
    BY DEF EofBefore, EofRead, ReadHeader
  <2>2. EofBefore(1) /\ u[4] = "out" => v = 0
    BY <1>0, <1>1, Zenon DEF CodeLast
  <2>3. u[4] = "code" => EofBefore(1)
    BY <1>0, <1>1, Zenon DEF CodeLast
  <2>4. QED
    BY <2>1, <2>2, <2>3, <1>1
<1>6. Shape'
  <2>1. ASSUME NEW i \in 1..Len(io'), i <= v
        PROVE  /\ ~Header(i)' /\ io'[i][2] = u[2]
               /\ io'[i][4] = IF exiting THEN "code" ELSE "out"
    <3>1. i + 1 \in 1..Len(io) /\ 1 < i + 1 /\ i + 1 <= 1 + v /\ v > 0 /\ io'[i] = io[i + 1]
      BY <2>1, <1>0, <1>1 DEF Shifted
    <3>2. QED
      BY <3>1, <1>0, <1>1, <1>2, <1>5 DEF Shape, Header
  <2>2. ASSUME NEW i \in 1..Len(io'), i = v + 1
        PROVE  Header(i)'
    <3>1. i + 1 \in 1..Len(io) /\ io'[i] = io[i + 1]
      BY <1>0, Zenon DEF Shifted
    <3>2. i + 1 = 1 + v + 1
      BY <2>2, <1>1
    <3>3. QED
      BY <3>1, <3>2, <1>0, <1>1, <1>2 DEF Shape, Header
  <2>3. ASSUME NEW i \in 1..Len(io'), NEW j \in 1..Len(io'), Header(i)'
        PROVE  /\ i < j /\ j <= i + io'[i][3] =>
                     ~Header(j)' /\ io'[j][2] = io'[i][2] /\ io'[j][4] = io'[i][4]
               /\ j = i + io'[i][3] + 1 => Header(j)'
    <3>1. /\ i + 1 \in 1..Len(io) /\ io'[i] = io[i + 1] /\ j + 1 \in 1..Len(io)
          /\ io'[j] = io[j + 1]
      BY <1>0, Zenon DEF Shifted
    <3>2. io[i + 1][3] \in Nat /\ Header(i + 1)
      BY <3>1, <2>3, <1>0, UnitTypes, Zenon DEF Header
    <3>3. /\ i < j /\ j <= i + io[i + 1][3] => i + 1 < j + 1 /\ j + 1 <= (i + 1) + io[i + 1][3]
          /\ j = i + io[i + 1][3] + 1 => j + 1 = (i + 1) + io[i + 1][3] + 1
      BY <3>2, SMTT(20)
    <3>4. QED
      BY <3>1, <3>2, <3>3, <1>0 DEF Shape, Header
  <2>4. ASSUME up
        PROVE  /\ v <= Len(io')
               /\ \A i \in 1..Len(io') : Header(i)' => i + io'[i][3] <= Len(io')
    <3>1. 1 + v <= Len(io)
      BY <2>4, <1>0, <1>1, <1>2, Zenon DEF Shape
    <3>2. ASSUME NEW i \in 1..Len(io'), Header(i)' PROVE i + io'[i][3] <= Len(io')
      <4>1. i + 1 \in 1..Len(io) /\ io'[i] = io[i + 1] /\ Header(i + 1)
        BY <3>2, <1>0, Zenon DEF Shifted, Header
      <4>2. (i + 1) + io[i + 1][3] <= Len(io) /\ io[i + 1][3] \in Nat
        BY <4>1, <2>4, <1>0, UnitTypes, Zenon DEF Shape
      <4>3. QED
        BY <4>1, <4>2, <1>0 DEF Shifted
    <3>3. QED
      BY <3>1, <3>2, <1>0, <1>1 DEF Shifted
  <2>5. frame'.stream = u[2] /\ exiting' = exiting /\ up' = up
    BY Zenon DEF ReadHeader, Others
  <2>6. QED
    BY <2>1, <2>2, <2>3, <2>4, <2>5, <1>3 DEF Shape
<1>7. \A i \in 1..(Len(io') + 1) : EofBefore(i)' <=> EofBefore(i + 1)
  <2> SUFFICES ASSUME NEW i \in 1..(Len(io') + 1)
               PROVE  EofBefore(i)' <=> EofBefore(i + 1)
    BY Zenon
  <2>1. EofRead' <=> exiting \/ v = 0
    BY Zenon DEF EofRead, ReadHeader, Others
  <2>2. EofRead <=> exiting
    BY Zenon DEF EofRead, ReadHeader
  <2>3. ASSUME NEW k \in 1..Len(io'), k < i, Header(k)', io'[k][3] = 0
        PROVE  EofBefore(i + 1)
    <3>1. k + 1 \in 1..Len(io) /\ io[k + 1] = io'[k] /\ k + 1 < i + 1
      BY <2>3, <1>0 DEF Shifted
    <3>2. QED
      BY <3>1, <2>3, Zenon DEF EofBefore, Header
  <2>4. v = 0 => EofBefore(i + 1)
    <3>1. 1 < i + 1
      OBVIOUS
    <3>2. QED
      BY <3>1, <1>1, <1>2, Zenon DEF EofBefore
  <2>5. ASSUME NEW k \in 1..Len(io), k < i + 1, Header(k), io[k][3] = 0
        PROVE  EofBefore(i)'
    <3>1. CASE k = 1
      BY <3>1, <2>5, <2>1, Zenon DEF EofBefore
    <3>2. CASE k > 1
      <4>1. k - 1 \in 1..Len(io') /\ io'[k - 1] = io[k] /\ k - 1 < i
        BY <3>2, <2>5, <1>0 DEF Shifted
      <4>2. QED
        BY <4>1, <2>5, Zenon DEF EofBefore, Header
    <3>3. QED
      BY <3>1, <3>2
  <2>6. QED
    BY <2>1, <2>2, <2>3, <2>4, <2>5, Zenon DEF EofBefore
<1>8. CodeLast'
  <2>1. ASSUME NEW i \in 1..Len(io')
        PROVE  /\ EofBefore(i)' /\ io'[i][4] = "out" => Header(i)' /\ io'[i][3] = 0
               /\ io'[i][4] = "code" =>
                     /\ EofBefore(i)' /\ guest.code
                     /\ Header(i)' => io'[i][3] = 1 /\ i + 1 >= Len(io')
                     /\ ~Header(i)' => io'[i][3] = ExitCode /\ i = Len(io')
    <3>1. i + 1 \in 1..Len(io) /\ io'[i] = io[i + 1] /\ (Header(i)' <=> Header(i + 1))
      BY <1>0, Zenon DEF Shifted, Header
    <3>2. EofBefore(i)' <=> EofBefore(i + 1)
      BY <1>7, <1>0 DEF Shifted
    <3>3. /\ (i + 1) + 1 >= Len(io) => i + 1 >= Len(io')
          /\ i + 1 = Len(io) => i = Len(io')
      BY <1>0 DEF Shifted
    <3>4. QED
      BY <3>1, <3>2, <3>3, <1>0 DEF CodeLast
  <2>2. ASSUME v > 0, exiting
        PROVE  v = 1 /\ guest.code /\ Len(io') <= v
    <3>1. u[4] = "code"
      BY <2>2, <1>5, Zenon
    <3>2. v = 1 /\ guest.code /\ 1 + 1 >= Len(io)
      BY <3>1, <1>0, <1>1, <1>2, Zenon DEF CodeLast
    <3>3. QED
      BY <3>2, <1>0 DEF Shifted
  <2>3. frame'.want = v /\ exiting' = exiting /\ guest' = guest
    BY Zenon DEF ReadHeader, Others
  <2>4. QED
    BY <2>1, <2>2, <2>3, <1>1, <1>3 DEF CodeLast
<1>9. GuestInv'
  <2>1. EofBefore(Len(io) + 1)' <=> EofBefore(Len(io) + 1)
    <3>1. Len(io') + 1 \in 1..(Len(io') + 1) /\ (Len(io') + 1) + 1 = Len(io) + 1
      BY <1>0 DEF Shifted
    <3>2. QED
      BY <3>1, <1>7, Zenon
  <2>2. QED
    BY <2>1, <1>0, Zenon DEF GuestInv, Others, Streams
<1>10. EndInv'
  BY <1>0, Zenon DEF EndInv, Others
<1>11. ASSUME ~dropped, NEW s \in {Out, Err} PROVE StreamInv(s)'
  <2>0. StreamInv(s)
    BY <1>11, Zenon DEF OInv
  <2>1. Pos(s) = Len(shown[s]) /\ Pos(s)' = Pos(s)
    BY <1>2, <1>3, <1>0, UnitTypes DEF Pos, Others
  <2>2. \A i \in 1..Len(io') : i + 1 \in 1..Len(io) /\ io'[i] = io[i + 1]
                               /\ (Output(i, s)' <=> Output(i + 1, s))
    BY <1>0, Zenon DEF Shifted, Output, Header
  <2>3. \A j \in 1..Len(io) : Output(j, s) =>
            j - 1 \in 1..Len(io') /\ io'[j - 1] = io[j] /\ Output(j - 1, s)'
    <3> SUFFICES ASSUME NEW j \in 1..Len(io), Output(j, s)
                 PROVE  j - 1 \in 1..Len(io') /\ io'[j - 1] = io[j] /\ Output(j - 1, s)'
      BY Zenon
    <3>1. j # 1
      BY <1>2, Zenon DEF Output
    <3>2. j - 1 \in 1..Len(io') /\ io'[j - 1] = io[j]
      BY <3>1, <1>0 DEF Shifted
    <3>3. QED
      BY <3>2, Zenon DEF Output, Header
  <2>4. CodeHere' => CodeHere
    <3>1. ASSUME NEW i \in 1..Len(io'), io'[i][4] = "code" PROVE CodeHere
      BY <3>1, <2>2, Zenon DEF CodeHere
    <3>2. exiting /\ v > 0 => CodeHere
      BY <1>1, <1>5, Zenon DEF CodeHere
    <3>3. frame'.want = v /\ exiting' = exiting
      BY Zenon DEF ReadHeader, Others
    <3>4. QED
      BY <3>1, <3>2, <3>3, Zenon DEF CodeHere
  <2>5. shown' = shown /\ guest' = guest /\ up' = up /\ exiting' = exiting
    BY Zenon DEF Others
  <2>6. /\ \A i \in 1..Len(shown[s]) : shown[s][i] = i
        /\ \A i \in 1..Len(frame'.data) : FALSE
        /\ Pos(s) <= guest.out[s]
    BY <2>0, <1>3, SMTT(20) DEF StreamInv
  <2>7. \A i \in 1..Len(io') : Output(i, s)' => Pos(s) < io'[i][3] /\ io'[i][3] <= guest.out[s]
    BY <2>0, <2>2 DEF StreamInv
  <2>8. \A i, j \in 1..Len(io') : Output(i, s)' /\ Output(j, s)' /\ i < j => io'[i][3] < io'[j][3]
    <3>1. \A i, j \in 1..Len(io') : i < j => i + 1 < j + 1
      OBVIOUS
    <3>2. QED
      BY <3>1, <2>0, <2>2 DEF StreamInv
  <2>9. \A i \in 1..Len(io'), w \in Nat : Output(i, s)' /\ Pos(s) < w /\ w < io'[i][3] =>
          \E j \in 1..Len(io') : Output(j, s)' /\ io'[j][3] = w
    <3> SUFFICES ASSUME NEW i \in 1..Len(io'), NEW w \in Nat,
                        Output(i, s)', Pos(s) < w, w < io'[i][3]
                 PROVE  \E j \in 1..Len(io') : Output(j, s)' /\ io'[j][3] = w
      BY Zenon
    <3>1. PICK j \in 1..Len(io) : Output(j, s) /\ io[j][3] = w
      BY <2>0, <2>2, Zenon DEF StreamInv
    <3>2. QED
      BY <3>1, <2>3, Zenon
  <2>10. up \/ CodeHere' => \A w \in Nat : Pos(s) < w /\ w <= guest.out[s] =>
          \E j \in 1..Len(io') : Output(j, s)' /\ io'[j][3] = w
    <3> SUFFICES ASSUME up \/ CodeHere', NEW w \in Nat, Pos(s) < w, w <= guest.out[s]
                 PROVE  \E j \in 1..Len(io') : Output(j, s)' /\ io'[j][3] = w
      BY Zenon
    <3>1. PICK j \in 1..Len(io) : Output(j, s) /\ io[j][3] = w
      BY <2>0, <2>4, Zenon DEF StreamInv
    <3>2. QED
      BY <3>1, <2>3, Zenon
  <2>11. QED
    BY <2>1, <2>5, <2>6, <2>7, <2>8, <2>9, <2>10, Zenon DEF StreamInv
<1>12. QED
  BY <1>4, <1>6, <1>8, <1>9, <1>10, <1>11, Zenon DEF OInv, Others

\* read_IO_message reads a unit of data.
LEMMA DataStep ==
  ASSUME OInv, ReadData, Others
  PROVE  OInv'
<1> DEFINE u == io[1]
           v == io[1][3]
           l == Len(frame.data)
<1>0. /\ OutType /\ FrameInv /\ Shape /\ CodeLast /\ GuestInv /\ EndInv
      /\ Shifted
  BY Zenon DEF OInv, ReadData
<1>1. 1 \in 1..Len(io) /\ v \in Nat /\ l \in Nat /\ frame.want \in Nat
  BY <1>0, UnitTypes, SMTT(20) DEF Shifted
<1>2. /\ Rest \in Nat /\ 1 <= Rest /\ frame.want > 0
      /\ ~Header(1) /\ u[2] = frame.stream /\ u[4] = IF exiting THEN "code" ELSE "out"
  BY <1>0, <1>1, SMTT(20) DEF ReadData, Shape, Rest
<1>3. /\ frame'.data \in Seq(Nat) /\ Len(frame'.data) = l + 1
      /\ \A i \in 1..l : frame'.data[i] = frame.data[i]
      /\ frame'.data[l + 1] = v
  BY <1>0, <1>1, SMTT(20) DEF OutType, ReadData
<1>4. Rest' = Rest - 1 /\ frame'.want = frame.want /\ frame'.stream = frame.stream
      /\ exiting' = exiting /\ guest' = guest /\ shown' = shown /\ up' = up
  BY <1>1, <1>3 DEF ReadData, Rest, Others
<1>5. OutType' /\ FrameInv'
  <2>1. OutType'
    BY <1>0, <1>3, <1>4, Zenon DEF OutType, GuestRecord, Shifted, Others, ReadData
  <2>2. FrameInv'
    <3>1. frame'.read <=> Rest - 1 = 0
      BY <1>1, SMTT(20) DEF ReadData, Rest
    <3>2. QED
      BY <3>1, <1>2, <1>4 DEF FrameInv
  <2>3. QED
    BY <2>1, <2>2, Zenon
<1>6. Shape'
  <2>1. ASSUME NEW i \in 1..Len(io'), i <= Rest - 1
        PROVE  /\ ~Header(i)' /\ io'[i][2] = frame.stream
               /\ io'[i][4] = IF exiting THEN "code" ELSE "out"
    <3>1. i + 1 \in 1..Len(io) /\ io'[i] = io[i + 1]
      BY <1>0, Zenon DEF Shifted
    <3>2. i + 1 <= Rest
      BY <2>1, <1>2
    <3>3. QED
      BY <3>1, <3>2, <1>0 DEF Shape, Header
  <2>2. ASSUME NEW i \in 1..Len(io'), i = (Rest - 1) + 1
        PROVE  Header(i)'
    <3>1. i + 1 \in 1..Len(io) /\ io'[i] = io[i + 1]
      BY <1>0, Zenon DEF Shifted
    <3>2. i + 1 = Rest + 1
      BY <2>2, <1>2
    <3>3. QED
      BY <3>1, <3>2, <1>0 DEF Shape, Header
  <2>3. ASSUME NEW i \in 1..Len(io'), NEW j \in 1..Len(io'), Header(i)'
        PROVE  /\ i < j /\ j <= i + io'[i][3] =>
                     ~Header(j)' /\ io'[j][2] = io'[i][2] /\ io'[j][4] = io'[i][4]
               /\ j = i + io'[i][3] + 1 => Header(j)'
    <3>1. /\ i + 1 \in 1..Len(io) /\ io'[i] = io[i + 1] /\ j + 1 \in 1..Len(io)
          /\ io'[j] = io[j + 1]
      BY <1>0, Zenon DEF Shifted
    <3>2. io[i + 1][3] \in Nat /\ Header(i + 1)
      BY <3>1, <2>3, <1>0, UnitTypes, Zenon DEF Header
    <3>3. /\ i < j /\ j <= i + io[i + 1][3] => i + 1 < j + 1 /\ j + 1 <= (i + 1) + io[i + 1][3]
          /\ j = i + io[i + 1][3] + 1 => j + 1 = (i + 1) + io[i + 1][3] + 1
      BY <3>2
    <3>4. QED
      BY <3>1, <3>2, <3>3, <1>0 DEF Shape, Header
  <2>4. ASSUME up
        PROVE  /\ Rest - 1 <= Len(io')
               /\ \A i \in 1..Len(io') : Header(i)' => i + io'[i][3] <= Len(io')
    <3>1. Rest <= Len(io)
      BY <2>4, <1>0, Zenon DEF Shape
    <3>2. ASSUME NEW i \in 1..Len(io'), Header(i)' PROVE i + io'[i][3] <= Len(io')
      <4>1. i + 1 \in 1..Len(io) /\ io'[i] = io[i + 1] /\ Header(i + 1)
        BY <3>2, <1>0, Zenon DEF Shifted, Header
      <4>2. (i + 1) + io[i + 1][3] <= Len(io) /\ io[i + 1][3] \in Nat
        BY <4>1, <2>4, <1>0, UnitTypes, Zenon DEF Shape
      <4>3. QED
        BY <4>1, <4>2, <1>0 DEF Shifted
    <3>3. Len(io') = Len(io) - 1 /\ Len(io) \in Nat /\ Rest \in Int
      BY <1>0, <1>2 DEF Shifted
    <3>4. Rest - 1 <= Len(io')
      BY <3>1, <3>3
    <3>5. QED
      BY <3>2, <3>4, Zenon
  <2>5. QED
    BY <2>1, <2>2, <2>3, <2>4, <1>4, Zenon DEF Shape
<1>7. \A i \in 1..(Len(io') + 1) : EofBefore(i)' <=> EofBefore(i + 1)
  <2> SUFFICES ASSUME NEW i \in 1..(Len(io') + 1)
               PROVE  EofBefore(i)' <=> EofBefore(i + 1)
    BY Zenon
  <2>1. (EofRead' <=> exiting) /\ (EofRead <=> exiting)
    BY <1>2, <1>4 DEF EofRead
  <2>2. ASSUME NEW k \in 1..Len(io'), k < i, Header(k)', io'[k][3] = 0
        PROVE  EofBefore(i + 1)
    <3>1. k + 1 \in 1..Len(io) /\ io[k + 1] = io'[k] /\ k + 1 < i + 1
      BY <2>2, <1>0 DEF Shifted
    <3>2. QED
      BY <3>1, <2>2, Zenon DEF EofBefore, Header
  <2>3. ASSUME NEW k \in 1..Len(io), k < i + 1, Header(k), io[k][3] = 0
        PROVE  EofBefore(i)'
    <3>1. k # 1
      BY <2>3, <1>2, Zenon
    <3>2. k - 1 \in 1..Len(io') /\ io'[k - 1] = io[k] /\ k - 1 < i
      BY <3>1, <2>3, <1>0 DEF Shifted
    <3>3. QED
      BY <3>2, <2>3, Zenon DEF EofBefore, Header
  <2>4. QED
    BY <2>1, <2>2, <2>3, Zenon DEF EofBefore
<1>8. CodeLast'
  <2>1. ASSUME NEW i \in 1..Len(io')
        PROVE  /\ EofBefore(i)' /\ io'[i][4] = "out" => Header(i)' /\ io'[i][3] = 0
               /\ io'[i][4] = "code" =>
                     /\ EofBefore(i)' /\ guest.code
                     /\ Header(i)' => io'[i][3] = 1 /\ i + 1 >= Len(io')
                     /\ ~Header(i)' => io'[i][3] = ExitCode /\ i = Len(io')
    <3>1. i + 1 \in 1..Len(io) /\ io'[i] = io[i + 1] /\ (Header(i)' <=> Header(i + 1))
      BY <1>0, Zenon DEF Shifted, Header
    <3>2. EofBefore(i)' <=> EofBefore(i + 1)
      BY <1>7, <1>0 DEF Shifted
    <3>3. /\ (i + 1) + 1 >= Len(io) => i + 1 >= Len(io')
          /\ i + 1 = Len(io) => i = Len(io')
      BY <1>0 DEF Shifted
    <3>4. QED
      BY <3>1, <3>2, <3>3, <1>0, Zenon DEF CodeLast
  <2>2. ASSUME exiting
        PROVE  /\ frame.want = 1 /\ guest.code /\ Len(io') <= Rest - 1
               /\ frame'.data[1] = ExitCode
    <3>1. frame.want = 1 /\ guest.code /\ Len(io) <= Rest
      BY <2>2, <1>0, <1>2, Zenon DEF CodeLast
    <3>2. v = ExitCode
      BY <2>2, <1>0, <1>1, <1>2, Zenon DEF CodeLast
    <3>3. l = 0
      BY <3>1, <1>1, <1>2 DEF Rest
    <3>4. frame'.data[1] = v
      BY <3>3, <1>3
    <3>5. QED
      BY <3>1, <3>2, <3>4, <1>0, <1>2 DEF Shifted
  <2>3. QED
    BY <2>1, <2>2, <1>4, Zenon DEF CodeLast
<1>9. GuestInv'
  <2>1. EofBefore(Len(io) + 1)' <=> EofBefore(Len(io) + 1)
    <3>1. Len(io') + 1 \in 1..(Len(io') + 1) /\ (Len(io') + 1) + 1 = Len(io) + 1
      BY <1>0 DEF Shifted
    <3>2. QED
      BY <3>1, <1>7, Zenon
  <2>2. QED
    BY <2>1, <1>0, Zenon DEF GuestInv, Others, Streams
<1>10. EndInv'
  BY <1>0, Zenon DEF EndInv, Others
<1>11. ASSUME ~dropped, NEW s \in {Out, Err} PROVE StreamInv(s)'
  <2>0. StreamInv(s) /\ Pos(s) \in Nat /\ Len(shown[s]) \in Nat /\ guest.out[s] \in Nat
    BY <1>11, <1>0, PosType, Zenon DEF OInv
  <2> DEFINE g == Len(shown[s])
  <2>1. \A i \in 1..Len(io') : i + 1 \in 1..Len(io) /\ io'[i] = io[i + 1]
                               /\ (Output(i, s)' <=> Output(i + 1, s))
                               /\ io[i + 1][3] \in Nat
    BY <1>0, UnitTypes, Zenon DEF Shifted, Output, Header
  <2>2. \A j \in 1..Len(io) : Output(j, s) /\ j # 1 =>
            j - 1 \in 1..Len(io') /\ io'[j - 1] = io[j] /\ Output(j - 1, s)'
    BY <1>0 DEF Shifted, Output, Header
  <2>3. CodeHere' => CodeHere
    <3>1. ASSUME NEW i \in 1..Len(io'), io'[i][4] = "code" PROVE CodeHere
      BY <3>1, <2>1, Zenon DEF CodeHere
    <3>2. QED
      BY <3>1, <1>4, Zenon DEF CodeHere
  <2>4. \A i, j \in 1..Len(io') : Output(i, s)' /\ Output(j, s)' /\ i < j => io'[i][3] < io'[j][3]
    <3>1. \A i, j \in 1..Len(io') : i < j => i + 1 < j + 1
      OBVIOUS
    <3>2. \A i, j \in 1..Len(io) : Output(i, s) /\ Output(j, s) /\ i < j => io[i][3] < io[j][3]
      BY <2>0, Zenon DEF StreamInv
    <3>3. QED
      BY <3>1, <3>2, <2>1, Zenon
  <2>5. \A i \in 1..Len(shown[s]) : shown[s][i] = i
    BY <2>0, Zenon DEF StreamInv
  \* The unit is one of stream s, or it is not and nothing changes for s.
  <2>6. CASE frame.stream = s /\ ~exiting
    <3>1. Output(1, s)
      BY <2>6, <1>2, Zenon DEF Output
    <3>2. Pos(s) = g + l /\ Pos(s)' = Pos(s) + 1
      <4>1. Pos(s) = g + l
        BY <2>6, Zenon DEF Pos
      <4>2. Pos(s)' = g + (l + 1)
        BY <2>6, <1>3, <1>4, Zenon DEF Pos
      <4>3. g \in Nat /\ l \in Nat
        BY <2>0, <1>1, Zenon
      <4> HIDE DEF g, l
      <4>4. QED
        BY <4>1, <4>2, <4>3
    <3>3. v = Pos(s) + 1 /\ v <= guest.out[s]
      <4>1. Pos(s) < v /\ v <= guest.out[s]
        BY <3>1, <2>0, <1>1, Zenon DEF StreamInv
      <4>2. ASSUME Pos(s) + 1 < v PROVE FALSE
        <5>1. PICK j \in 1..Len(io) : Output(j, s) /\ io[j][3] = Pos(s) + 1
          <6>1. Pos(s) + 1 \in Nat /\ Pos(s) < Pos(s) + 1
            BY <2>0
          <6>2. QED
            BY <6>1, <4>2, <3>1, <2>0, <1>1, Zenon DEF StreamInv
        <5>2. j = 1 \/ 1 < j
          BY SMTT(20)
        <5>3. 1 < j => v < io[j][3]
          BY <5>1, <3>1, <2>0, <1>1, Zenon DEF StreamInv
        <5>4. QED
          BY <5>1, <5>2, <5>3, <4>2, <2>0, <1>1, SMTT(20)
      <4>3. QED
        BY <4>1, <4>2, <2>0, <1>1, SMTT(20)
    <3>4. \A i \in 1..Len(frame'.data) : frame'.data[i] = Len(shown[s]) + i
      <4>1. \A i \in 1..l : frame.data[i] = Len(shown[s]) + i
        BY <2>0, <2>6, Zenon DEF StreamInv
      <4>2. \A i \in 1..Len(frame'.data) : i \in 1..l \/ i = l + 1
        BY <1>1, <1>3
      <4>3. v = g + (l + 1)
        <5>1. g \in Nat /\ l \in Nat
          BY <2>0, <1>1, Zenon
        <5> HIDE DEF g, l, v
        <5>2. QED
          BY <5>1, <3>2, <3>3
      <4>4. QED
        BY <4>1, <4>2, <4>3, <1>3, Zenon
    <3>5. \A i \in 1..Len(io') : Output(i, s)' => Pos(s)' < io'[i][3] /\ io'[i][3] <= guest.out[s]
      <4>1. \A i \in 1..Len(io') : 1 < i + 1
        BY SMTT(20)
      <4>2. \A i \in 1..Len(io') : Output(i, s)' => v < io'[i][3] /\ io'[i][3] <= guest.out[s]
        BY <4>1, <3>1, <2>0, <2>1, <1>1, ZenonT(20) DEF StreamInv
      <4>3. Pos(s)' = v
        BY <3>2, <3>3, Zenon
      <4>4. QED
        BY <4>2, <4>3, Zenon
    <3>6. \A w \in Nat : Pos(s)' < w => Pos(s) < w /\ w # v
      <4>1. Pos(s)' = Pos(s) + 1 /\ v = Pos(s) + 1 /\ Pos(s) \in Nat
        BY <3>2, <3>3, <2>0, Zenon
      <4> HIDE DEF v
      <4>2. QED
        BY <4>1
    <3>7. \A i \in 1..Len(io'), w \in Nat : Output(i, s)' /\ Pos(s)' < w /\ w < io'[i][3] =>
            \E j \in 1..Len(io') : Output(j, s)' /\ io'[j][3] = w
      <4> SUFFICES ASSUME NEW i \in 1..Len(io'), NEW w \in Nat,
                          Output(i, s)', Pos(s)' < w, w < io'[i][3]
                   PROVE  \E j \in 1..Len(io') : Output(j, s)' /\ io'[j][3] = w
        BY Zenon
      <4>0. Pos(s) < w /\ i + 1 \in 1..Len(io) /\ Output(i + 1, s) /\ w < io[i + 1][3]
        BY <3>6, <2>1, Zenon
      <4>1. PICK j \in 1..Len(io) : Output(j, s) /\ io[j][3] = w
        BY <4>0, <2>0, Zenon DEF StreamInv
      <4>2. j # 1
        BY <4>1, <3>6, Zenon
      <4>3. QED
        BY <4>1, <4>2, <2>2, Zenon
    <3>8. up \/ CodeHere' => \A w \in Nat : Pos(s)' < w /\ w <= guest.out[s] =>
            \E j \in 1..Len(io') : Output(j, s)' /\ io'[j][3] = w
      <4> SUFFICES ASSUME up \/ CodeHere', NEW w \in Nat, Pos(s)' < w, w <= guest.out[s]
                   PROVE  \E j \in 1..Len(io') : Output(j, s)' /\ io'[j][3] = w
        BY Zenon
      <4>1. PICK j \in 1..Len(io) : Output(j, s) /\ io[j][3] = w
        BY <3>6, <2>0, <2>3, Zenon DEF StreamInv
      <4>2. j # 1
        BY <4>1, <3>6, Zenon
      <4>3. QED
        BY <4>1, <4>2, <2>2, Zenon
    <3>9. Pos(s)' <= guest.out[s]
      BY <3>2, <3>3, ZenonT(20)
    <3>10. QED
      BY <3>4, <3>5, <3>7, <3>8, <3>9, <2>4, <2>5, <1>4, Zenon DEF StreamInv
  <2>7. CASE ~(frame.stream = s /\ ~exiting)
    <3>1. ~Output(1, s)
      BY <2>7, <1>2, Zenon DEF Output
    <3>2. Pos(s)' = Pos(s)
      BY <2>7, <1>4, Zenon DEF Pos
    <3>3. \A i \in 1..Len(io') : Output(i, s)' => Pos(s) < io'[i][3] /\ io'[i][3] <= guest.out[s]
      BY <2>0, <2>1 DEF StreamInv
    <3>4. \A i \in 1..Len(io'), w \in Nat : Output(i, s)' /\ Pos(s) < w /\ w < io'[i][3] =>
            \E j \in 1..Len(io') : Output(j, s)' /\ io'[j][3] = w
      <4> SUFFICES ASSUME NEW i \in 1..Len(io'), NEW w \in Nat,
                          Output(i, s)', Pos(s) < w, w < io'[i][3]
                   PROVE  \E j \in 1..Len(io') : Output(j, s)' /\ io'[j][3] = w
        BY Zenon
      <4>1. PICK j \in 1..Len(io) : Output(j, s) /\ io[j][3] = w
        BY <2>0, <2>1, ZenonT(20) DEF StreamInv
      <4>2. QED
        BY <4>1, <3>1, <2>2, Zenon
    <3>5. up \/ CodeHere' => \A w \in Nat : Pos(s) < w /\ w <= guest.out[s] =>
            \E j \in 1..Len(io') : Output(j, s)' /\ io'[j][3] = w
      <4> SUFFICES ASSUME up \/ CodeHere', NEW w \in Nat, Pos(s) < w, w <= guest.out[s]
                   PROVE  \E j \in 1..Len(io') : Output(j, s)' /\ io'[j][3] = w
        BY Zenon
      <4>1. PICK j \in 1..Len(io) : Output(j, s) /\ io[j][3] = w
        BY <2>0, <2>3, Zenon DEF StreamInv
      <4>2. QED
        BY <4>1, <3>1, <2>2, Zenon
    <3>6. Pos(s) <= guest.out[s]
      BY <2>0, Zenon DEF StreamInv
    <3>7. QED
      BY <3>2, <3>3, <3>4, <3>5, <3>6, <2>4, <2>5, <2>7, <1>4 DEF StreamInv
  <2>8. QED
    BY <2>6, <2>7, Zenon
<1>12. QED
  BY <1>5, <1>6, <1>8, <1>9, <1>10, <1>11, Zenon DEF OInv, Others

\* read_IO_message keeps OInv.
LEMMA ReadOutputStep ==
  ASSUME OInv, ReadOutput
  PROVE  OInv'
<1>u. UNCHANGED <<stdin, code, exiting, shown, dropped, up, guest>>
  BY Zenon DEF ReadOutput, envVars
<1>0. io \in Seq(Units) /\ FrameInv /\ Len(frame.data) \in Nat /\ frame.want \in Nat
  BY UnitTypes, Zenon DEF OInv, OutType
<1>1. CASE UNCHANGED <<io, frame>> /\ Exit("failure")
  BY <1>1, <1>u, OutputUntouched, Zenon DEF Exit
<1>2. ASSUME io # <<>>, io' = Tail(io), ~frame.read, UNCHANGED <<status, todo>>,
             frame' = IF frame.want = Len(frame.data)
                      THEN [stream |-> Head(io)[2], want |-> Head(io)[3], data |-> <<>>,
                            read |-> Head(io)[3] = 0]
                      ELSE [frame EXCEPT !.data = Append(@, Head(io)[3]),
                               !.read = Len(frame.data) + 1 = frame.want]
      PROVE  OInv'
  <2>1. Shifted /\ Others /\ Head(io) = io[1]
    BY <1>2, <1>u, <1>0, ShiftedTail DEF Others
  <2>2. CASE frame.want = Len(frame.data)
    <3>1. ASSUME NEW r, frame' = [stream |-> io[1][2], want |-> io[1][3], data |-> <<>>, read |-> r]
          PROVE  /\ frame'.stream = io[1][2] /\ frame'.want = io[1][3] /\ frame'.data = <<>>
                 /\ frame'.read = r /\ FrameRecord'
      BY <3>1, Zenon DEF FrameRecord
    <3>2. /\ frame'.stream = io[1][2] /\ frame'.want = io[1][3] /\ frame'.data = <<>>
          /\ frame'.read = (io[1][3] = 0) /\ FrameRecord'
      BY <3>1, <2>1, <2>2, <1>2, Zenon
    <3>3. Rest = 0
      BY <2>2, <1>0 DEF Rest
    <3>4. ReadHeader
      BY <3>2, <3>3, <2>1, <1>2, Zenon DEF ReadHeader
    <3>5. QED
      BY <3>4, <2>1, HeaderStep, Zenon
  <2>3. CASE frame.want # Len(frame.data)
    <3>1. ASSUME NEW r, frame' = [frame EXCEPT !.data = Append(@, io[1][3]), !.read = r]
          PROVE  /\ frame'.stream = frame.stream /\ frame'.want = frame.want
                 /\ frame'.data = Append(frame.data, io[1][3]) /\ frame'.read = r
                 /\ FrameRecord'
      BY <3>1, Zenon DEF OInv, OutType, FrameRecord
    <3>2. /\ frame'.stream = frame.stream /\ frame'.want = frame.want
          /\ frame'.data = Append(frame.data, io[1][3])
          /\ frame'.read = (Len(frame.data) + 1 = frame.want) /\ FrameRecord'
      BY <3>1, <2>1, <2>3, <1>2, Zenon
    <3>3. Rest > 0
      BY <2>3, <1>0 DEF Rest, FrameInv
    <3>4. ReadData
      BY <3>2, <3>3, <2>1, <1>2, Zenon DEF ReadData
    <3>5. QED
      BY <3>4, <2>1, DataStep, Zenon
  <2>4. QED
    BY <2>2, <2>3, Zenon
<1>3. QED
  BY <1>1, <1>2, Zenon DEF ReadOutput

-----------------------------------------------------------------------------
(* Output: the steps of the guest and of handle_proxy_output.               *)

\* handle_proxy_output is done with a frame.
FrameDone ==
  /\ frame.read /\ frame' = NoFrame
  /\ UNCHANGED <<stdin, io, up, guest>>

\* What does not depend on how it is done with: the frame is not the exit code,
\* and exiting is set once the end of a stream has been read.
LEMMA DoneStep ==
  ASSUME OInv, FrameDone, exiting' <=> EofRead, shown' \in [{Out, Err} -> Seq(Nat)]
  PROVE  /\ OutType' /\ FrameInv' /\ Shape' /\ CodeLast' /\ GuestInv'
         /\ Rest = 0 /\ Rest' = 0 /\ Len(frame'.data) = 0 /\ frame'.want = 0
<1>1. frame'.stream = Out /\ frame'.want = 0 /\ frame'.data = <<>> /\ Len(frame'.data) = 0
      /\ FrameRecord'
  BY Zenon DEF FrameDone, NoFrame, FrameRecord
<1>2. ~frame'.read
  BY Zenon DEF FrameDone, NoFrame
<1>3. Rest = 0 /\ Rest' = 0
  <2>1. Rest = 0
    BY Zenon DEF OInv, FrameInv, FrameDone
  <2>2. Rest' = 0 - 0
    BY <1>1, Zenon DEF Rest
  <2>3. QED
    BY <2>1, <2>2
<1>4. OutType'
  BY <1>1 DEF OInv, OutType, GuestRecord, FrameDone
<1>5. FrameInv'
  BY <1>1, <1>3 DEF FrameInv
<1>6. Shape'
  <2>1. Shape /\ io' = io /\ up' = up
    BY Zenon DEF OInv, FrameDone
  <2>2. \A i \in 1..Len(io) : ~(i <= Rest')
    BY <1>3
  <2>3. Rest' = Rest /\ (\A i : Header(i)' <=> Header(i))
    BY <2>1, <1>3, Zenon DEF Header
  <2>4. QED
    BY <2>1, <2>2, <2>3 DEF Shape
<1>7. \A i : EofBefore(i)' <=> EofBefore(i)
  <2>1. EofRead' <=> EofRead
    BY <1>2, Zenon DEF EofRead
  <2>2. QED
    BY <2>1, Zenon DEF EofBefore, Header, FrameDone
<1>8. CodeLast'
  <2>1. ~(frame'.want > 0)
    BY <1>1
  <2>2. CodeLast /\ io' = io /\ guest' = guest /\ (\A i : Header(i)' <=> Header(i))
    BY Zenon DEF OInv, Header, FrameDone
  <2>3. QED
    BY <2>1, <2>2, <1>7, Zenon DEF CodeLast
<1>9. GuestInv'
  BY <1>7, Zenon DEF OInv, GuestInv, FrameDone, Streams
<1>10. QED
  BY <1>1, <1>3, <1>4, <1>5, <1>6, <1>8, <1>9, Zenon

\* Stream s is as it was as long as the same units have been read.
LEMMA DoneStream ==
  ASSUME NEW s \in {Out, Err}, StreamInv(s), FrameDone, Pos(s)' = Pos(s),
         \A i \in 1..Len(shown'[s]) : shown'[s][i] = i,
         Len(frame'.data) = 0, frame'.want = 0
  PROVE  StreamInv(s)'
<1>1. io' = io /\ up' = up /\ guest' = guest
  BY Zenon DEF FrameDone
<1>2. CodeHere' => CodeHere
  BY <1>1 DEF CodeHere
<1>3. \A i : Output(i, s)' <=> Output(i, s)
  BY <1>1, Zenon DEF Output, Header
<1>4. \A i \in 1..Len(frame'.data) : FALSE
  OBVIOUS
<1>5. QED
  BY <1>1, <1>2, <1>3, <1>4 DEF StreamInv

\* handle_proxy_output keeps OInv, whether it shows the frame, fails to, notes
\* the end of a stream or takes the frame for the exit code.
LEMMA HandleOutputStep ==
  ASSUME OInv, HandleOutput
  PROVE  OInv'
<1>u. FrameDone /\ UNCHANGED <<up, guest, stdin, io>> /\ status = "run"
  BY Zenon DEF HandleOutput, FrameDone, envVars, Handling
<1>0. OutType /\ FrameInv /\ CodeLast /\ EndInv /\ Rest = 0
      /\ Len(frame.data) = frame.want /\ frame.want \in Nat
  <2>1. OutType /\ FrameInv /\ CodeLast /\ EndInv /\ Rest = 0
    BY <1>u, Zenon DEF OInv, FrameInv, FrameDone
  <2>2. QED
    BY <2>1, UnitTypes DEF Rest
\* The end of a stream.
<1>1. ASSUME ~exiting, frame.want = 0, exiting' = TRUE, UNCHANGED <<status, code, shown, dropped>>
      PROVE  OInv'
  <2>1. EofRead /\ exiting'
    BY <1>1, <1>u, Zenon DEF EofRead, FrameDone
  <2>2. /\ OutType' /\ FrameInv' /\ Shape' /\ CodeLast' /\ GuestInv'
        /\ Len(frame'.data) = 0 /\ frame'.want = 0
    BY <2>1, <1>1, <1>u, <1>0, DoneStep, Zenon DEF OutType
  <2>3. EndInv'
    BY <1>0, <1>1, <1>u, Zenon DEF EndInv
  <2>4. ASSUME ~dropped, NEW s \in {Out, Err} PROVE StreamInv(s)'
    <3>1. StreamInv(s) /\ Len(shown[s]) \in Nat
      BY <2>4, <1>0, PosType, Zenon DEF OInv
    <3>2. Pos(s) = Len(shown[s]) + 0
      <4>1. Len(frame.data) = 0
        BY <1>0, <1>1, Zenon
      <4>2. QED
        BY <4>1, Zenon DEF Pos
    <3>3. Pos(s)' = Len(shown[s]) + 0
      BY <2>1, <1>1, Zenon DEF Pos
    <3>4. \A i \in 1..Len(shown'[s]) : shown'[s][i] = i
      BY <3>1, <1>1, Zenon DEF StreamInv
    <3>5. QED
      BY <3>1, <3>2, <3>3, <3>4, <2>2, <1>u, DoneStream, Zenon
  <2>5. QED
    BY <2>2, <2>3, <2>4, <1>1, Zenon DEF OInv
\* The exit code: there is nothing left to read.
<1>2. ASSUME exiting, frame.want = 1, Exit("exit"), code' = frame.data[1],
             UNCHANGED <<exiting, shown, dropped>>
      PROVE  OInv'
  <2>1. EofRead /\ exiting'
    BY <1>2, Zenon DEF EofRead
  <2>2. /\ OutType' /\ FrameInv' /\ Shape' /\ CodeLast' /\ GuestInv'
        /\ Len(frame'.data) = 0 /\ frame'.want = 0
    BY <2>1, <1>2, <1>u, <1>0, DoneStep, Zenon DEF OutType
  <2>3. guest.code /\ Len(io) = 0 /\ code' = ExitCode
    <3>1. guest.code /\ Len(io) <= Rest /\ frame.data[1] = ExitCode
      BY <1>0, <1>2 DEF CodeLast
    <3>2. Len(io) \in Nat
      BY <1>0, UnitTypes, Zenon
    <3>3. QED
      BY <3>1, <3>2, <1>0, <1>2
  <2>4. ASSUME ~dropped, NEW s \in {Out, Err}
        PROVE  StreamInv(s)' /\ Len(shown[s]) = guest.out[s]
    <3>1. StreamInv(s) /\ Len(shown[s]) \in Nat /\ guest.out[s] \in Nat
      BY <2>4, <1>0, PosType, Zenon DEF OInv
    <3>2. Pos(s) = Len(shown[s]) + 0 /\ Pos(s)' = Len(shown[s]) + 0
      BY <2>1, <1>2, Zenon DEF Pos
    <3>3. Pos(s) = Len(shown[s])
      BY <3>1, <3>2
    <3>4. \A i \in 1..Len(shown'[s]) : shown'[s][i] = i
      BY <3>1, <1>2, Zenon DEF StreamInv
    <3>5. StreamInv(s)'
      BY <3>1, <3>2, <3>4, <2>2, <1>u, DoneStream, Zenon
    <3>6. Pos(s) <= guest.out[s] /\ ~(Pos(s) < guest.out[s])
      <4>1. CodeHere
        BY <1>2 DEF CodeHere
      <4>2. \A j \in 1..Len(io) : FALSE
        BY <2>3
      <4>3. \A w \in Nat : ~(Pos(s) < w /\ w <= guest.out[s])
        BY <4>1, <4>2, <3>1, Zenon DEF StreamInv
      <4>4. guest.out[s] <= guest.out[s]
        BY <3>1
      <4>5. QED
        BY <4>3, <4>4, <3>1, Zenon DEF StreamInv
    <3>7. QED
      BY <3>1, <3>3, <3>5, <3>6
  <2>5. EndInv'
    BY <2>3, <2>4, <1>2, <1>u, Zenon DEF EndInv
  <2>6. QED
    BY <2>2, <2>4, <2>5, <1>2, Zenon DEF OInv
\* Output, or the end of a second stream.
<1>3. ASSUME ~(~exiting /\ frame.want = 0), ~(exiting /\ frame.want = 1),
             shown' = [shown EXCEPT ![frame.stream] = @ \o frame.data],
             UNCHANGED <<status, code, exiting, dropped>>
      PROVE  OInv'
  <2>1. (exiting /\ frame.want = 0) \/ (~exiting /\ frame.want > 0)
    <3>1. exiting /\ frame.want > 0 => frame.want = 1
      BY <1>0, Zenon DEF CodeLast
    <3>2. frame.want = 0 \/ frame.want > 0
      BY <1>0
    <3>3. QED
      BY <3>1, <3>2, <1>3, Zenon
  <2>2. exiting' <=> EofRead
    BY <2>1, <1>3, <1>0, Zenon DEF EofRead
  <2>3. shown' \in [{Out, Err} -> Seq(Nat)]
    BY <1>3, <1>0 DEF OutType
  <2>4. /\ OutType' /\ FrameInv' /\ Shape' /\ CodeLast' /\ GuestInv'
        /\ Len(frame'.data) = 0 /\ frame'.want = 0
    BY <2>2, <2>3, <1>u, DoneStep, Zenon
  <2>5. EndInv'
    BY <1>3, <1>u, Zenon DEF EndInv
  <2>6. ASSUME ~dropped, NEW s \in {Out, Err} PROVE StreamInv(s)'
    <3>0. frame.stream \in {Out, Err} /\ frame.data \in Seq(Nat) /\ shown[s] \in Seq(Nat)
          /\ DOMAIN shown = {Out, Err}
      BY <1>0, Zenon DEF OutType
    <3>1. StreamInv(s) /\ Len(shown[s]) \in Nat
      BY <2>6, <1>0, PosType, Zenon DEF OInv
    <3>2. CASE frame.stream = s
      <4>1. shown'[s] = shown[s] \o frame.data
        BY <3>0, <3>2, <1>3, Zenon
      <4>2. /\ Len(shown'[s]) = Len(shown[s]) + Len(frame.data)
            /\ \A i \in 1..Len(shown'[s]) :
                  shown'[s][i] = IF i <= Len(shown[s]) THEN shown[s][i]
                                 ELSE frame.data[i - Len(shown[s])]
        <5> DEFINE c == shown[s] \o frame.data
        <5>1. /\ Len(c) = Len(shown[s]) + Len(frame.data)
              /\ \A i \in 1..(Len(shown[s]) + Len(frame.data)) :
                    c[i] = IF i <= Len(shown[s]) THEN shown[s][i]
                           ELSE frame.data[i - Len(shown[s])]
          BY <3>0, ConcatProperties, ZenonT(20)
        <5>2. shown'[s] = c
          BY <4>1, Zenon
        <5> HIDE DEF c
        <5>3. QED
          BY <5>1, <5>2, Zenon
      <4>3. Pos(s)' = Len(shown'[s]) + 0
        BY <2>4, Zenon DEF Pos
      <4>4. Pos(s) = Len(shown[s]) + Len(frame.data)
        <5>1. CASE ~exiting
          BY <5>1, <3>2, Zenon DEF Pos
        <5>2. CASE exiting
          <6>1. Len(frame.data) = 0
            BY <5>2, <2>1, <1>0, Zenon
          <6>2. Pos(s) = Len(shown[s]) + 0
            BY <5>2, Zenon DEF Pos
          <6>3. QED
            BY <6>1, <6>2, Zenon
        <5>3. QED
          BY <5>1, <5>2, Zenon
      <4>5. Pos(s)' = Pos(s)
        <5>1. Len(shown'[s]) \in Nat
          BY <2>3
        <5>2. QED
          BY <5>1, <4>2, <4>3, <4>4
      <4>6. \A i \in 1..Len(shown'[s]) : shown'[s][i] = i
        <5> SUFFICES ASSUME NEW i \in 1..Len(shown'[s]) PROVE shown'[s][i] = i
          BY Zenon
        <5> DEFINE g == Len(shown[s])
                   l == Len(frame.data)
        <5>1. g \in Nat /\ l \in Nat /\ i \in 1..(g + l)
          BY <4>2, <3>1, <1>0, Zenon
        <5>2. i \in 1..g \/ (i - g \in 1..l /\ ~(i <= g) /\ g + (i - g) = i)
          <6> HIDE DEF g, l
          <6>1. QED
            BY <5>1
        <5>3. i \in 1..g => shown[s][i] = i /\ i <= g
          BY <5>1, <3>1 DEF StreamInv
        <5>4. ~exiting => \A j \in 1..l : frame.data[j] = g + j
          BY <3>1, <3>2, Zenon DEF StreamInv
        <5>5. exiting => \A j \in 1..l : FALSE
          BY <2>1, <1>0
        <5>6. QED
          BY <5>2, <5>3, <5>4, <5>5, <4>2, Zenon
      <4>7. QED
        BY <4>5, <4>6, <3>1, <2>4, <1>u, DoneStream, Zenon
    <3>3. CASE frame.stream # s
      <4>1. shown'[s] = shown[s]
        BY <3>0, <3>3, <1>3, Zenon
      <4>2. Pos(s) = Len(shown[s]) + 0
        BY <3>3, Zenon DEF Pos
      <4>3. Pos(s)' = Len(shown[s]) + 0
        BY <4>1, <2>4, Zenon DEF Pos
      <4>4. \A i \in 1..Len(shown'[s]) : shown'[s][i] = i
        BY <4>1, <3>1, Zenon DEF StreamInv
      <4>5. QED
        BY <4>2, <4>3, <4>4, <3>1, <2>4, <1>u, DoneStream, Zenon
    <3>4. QED
      BY <3>2, <3>3, Zenon
  <2>7. QED
    BY <2>4, <2>5, <2>6, <1>3, Zenon DEF OInv
\* The same with a write that fails.
<1>4. ASSUME ~(~exiting /\ frame.want = 0), ~(exiting /\ frame.want = 1),
             dropped' = TRUE, UNCHANGED <<status, code, exiting, shown>>
      PROVE  OInv'
  <2>1. (exiting /\ frame.want = 0) \/ (~exiting /\ frame.want > 0)
    <3>1. exiting /\ frame.want > 0 => frame.want = 1
      BY <1>0, Zenon DEF CodeLast
    <3>2. frame.want = 0 \/ frame.want > 0
      BY <1>0
    <3>3. QED
      BY <3>1, <3>2, <1>4, Zenon
  <2>2. exiting' <=> EofRead
    BY <2>1, <1>4, <1>0, Zenon DEF EofRead
  <2>3. OutType' /\ FrameInv' /\ Shape' /\ CodeLast' /\ GuestInv'
    BY <2>2, <1>4, <1>u, <1>0, DoneStep, Zenon DEF OutType
  <2>4. EndInv'
    BY <1>4, <1>u, Zenon DEF EndInv
  <2>5. QED
    BY <2>3, <2>4, <1>4, Zenon DEF OInv
<1>5. QED
  BY <1>1, <1>2, <1>3, <1>4, Zenon DEF HandleOutput

IsUnit(u, k, s, v, is) == u[1] = k /\ u[2] = s /\ u[3] = v /\ u[4] = is

\* A frame has been added to the socket.
Added(is, s, d) ==
  /\ io' \in Seq(Units) /\ Len(d) \in Nat /\ Len(io) \in Nat
  /\ Len(io') = Len(io) + 1 + Len(d)
  /\ \A i \in 1..Len(io) : i \in 1..Len(io') /\ io'[i] = io[i]
  /\ Len(io) + 1 \in 1..Len(io') /\ IsUnit(io'[Len(io) + 1], "h", s, Len(d), is)
  /\ \A j \in 1..Len(d) : Len(io) + 1 + j \in 1..Len(io')
                          /\ IsUnit(io'[Len(io) + 1 + j], "d", s, d[j], is)
  /\ \A i \in 1..Len(io') : \/ i \in 1..Len(io) \/ i = Len(io) + 1
                             \/ \E j \in 1..Len(d) : i = Len(io) + 1 + j

\* What the proxy passes on is a whole frame at the end of the socket.
LEMMA FrameAdded ==
  ASSUME OutType, NEW is \in {"out", "code"}, NEW s \in {Out, Err}, NEW d \in Seq(Nat),
         PassOn(is, s, d)
  PROVE  Added(is, s, d)
<1> DEFINE m == Len(d)
           n == Len(io)
           h == <<"h", s, m, is>>
           t == [j \in 1..m |-> <<"d", s, d[j], is>>]
           f == <<h>> \o t
<1>1. m \in Nat /\ n \in Nat /\ io \in Seq(Units) /\ \A j \in 1..m : d[j] \in Nat
  BY UnitTypes DEF OutType
<1>2. h \in Units /\ \A j \in 1..m : <<"d", s, d[j], is>> \in Units
  BY <1>1, Zenon DEF Units
<1>3. io' = io \o f
  BY Zenon DEF PassOn, Frame
<1>4. t \in Seq(Units) /\ Len(t) = m /\ \A j \in 1..m : t[j] = <<"d", s, d[j], is>>
  <2> HIDE DEF m
  <2>1. QED
    BY <1>1, <1>2
<1> HIDE DEF t, h
<1> DEFINE g == <<h>>
<1>5. g \in Seq(Units) /\ Len(g) = 1 /\ g[1] = h
  BY <1>2
<1> HIDE DEF g
<1>6. /\ f \in Seq(Units) /\ Len(f) = 1 + m
      /\ \A i \in 1..(1 + m) : f[i] = IF i <= 1 THEN g[i] ELSE t[i - 1]
  <2>1. f = g \o t
    BY Zenon DEF g
  <2>2. /\ g \o t \in Seq(Units) /\ Len(g \o t) = Len(g) + Len(t)
        /\ \A i \in 1..(Len(g) + Len(t)) :
              (g \o t)[i] = IF i <= Len(g) THEN g[i] ELSE t[i - Len(g)]
    BY <1>4, <1>5, ConcatProperties, Zenon
  <2> HIDE DEF f, m
  <2>3. QED
    BY <2>1, <2>2, <1>4, <1>5, Zenon
<1>7. f[1] = h /\ \A j \in 1..m : f[1 + j] = t[j]
  <2> HIDE DEF f, m
  <2>1. 1 \in 1..(1 + m) /\ 1 <= 1
    BY <1>1
  <2>2. \A j \in 1..m : 1 + j \in 1..(1 + m) /\ ~(1 + j <= 1) /\ (1 + j) - 1 = j
    BY <1>1
  <2>3. QED
    BY <2>1, <2>2, <1>5, <1>6
<1> HIDE DEF f
<1>8. /\ io' \in Seq(Units) /\ Len(io') = n + (1 + m)
      /\ \A i \in 1..(n + (1 + m)) : io'[i] = IF i <= n THEN io[i] ELSE f[i - n]
  <2>1. /\ io \o f \in Seq(Units) /\ Len(io \o f) = Len(io) + Len(f)
        /\ \A i \in 1..(Len(io) + Len(f)) :
              (io \o f)[i] = IF i <= Len(io) THEN io[i] ELSE f[i - Len(io)]
    BY <1>1, <1>6, ConcatProperties, Zenon
  <2> HIDE DEF m
  <2>2. QED
    BY <2>1, <1>3, <1>6, Zenon
<1>9. QED
  <2>1. h = <<"h", s, m, is>>
    BY Zenon DEF h
  <2>2. m = Len(d) /\ n = Len(io)
    BY Zenon
  <2> HIDE DEF n, m
  <2>3. /\ \A i \in 1..n : i \in 1..Len(io') /\ io'[i] = io[i]
        /\ Len(io') = n + 1 + m
    BY <1>1, <1>8
  <2>4. n + 1 \in 1..Len(io') /\ io'[n + 1] = h
    <3>1. n + 1 \in 1..(n + (1 + m)) /\ ~(n + 1 <= n) /\ (n + 1) - n = 1
      BY <1>1
    <3>2. QED
      BY <3>1, <1>7, <1>8, Zenon
  <2>5. \A j \in 1..m : n + 1 + j \in 1..Len(io') /\ io'[n + 1 + j] = t[j]
    <3> SUFFICES ASSUME NEW j \in 1..m
                 PROVE  n + 1 + j \in 1..Len(io') /\ io'[n + 1 + j] = t[j]
      BY Zenon
    <3>1. n + 1 + j \in 1..(n + (1 + m)) /\ ~(n + 1 + j <= n) /\ (n + 1 + j) - n = 1 + j
      BY <1>1
    <3>2. QED
      BY <3>1, <1>7, <1>8, Zenon
  <2>6. \A i \in 1..Len(io') : \/ i \in 1..n \/ i = n + 1
                              \/ \E j \in 1..m : i = n + 1 + j
    <3> SUFFICES ASSUME NEW i \in 1..Len(io'), ~(i \in 1..n), i # n + 1
                 PROVE  \E j \in 1..m : i = n + 1 + j
      BY Zenon
    <3>1. i - (n + 1) \in 1..m /\ i = n + 1 + (i - (n + 1))
      BY <1>1, <1>8
    <3>2. QED
      BY <3>1, Zenon
  <2>0. \A k, v : IsUnit(<<k, s, v, is>>, k, s, v, is)
    BY Zenon DEF IsUnit
  <2>7. \A j \in 1..m : IsUnit(io'[n + 1 + j], "d", s, d[j], is)
    BY <2>0, <2>5, <1>4, Zenon
  <2>8. io' \in Seq(Units) /\ m \in Nat /\ n \in Nat /\ IsUnit(io'[n + 1], "h", s, m, is)
    BY <2>0, <2>1, <2>4, <1>1, <1>8, Zenon
  <2>9. QED
    BY <2>2, <2>3, <2>4, <2>5, <2>6, <2>7, <2>8, Zenon DEF Added

Same == UNCHANGED <<stdin, status, code, frame, exiting, shown, dropped, up>>

\* What does not depend on what the new frame is.
LEMMA AddedShape ==
  ASSUME OInv, up, ~guest.code, Same,
         NEW is \in {"out", "code"}, NEW s \in {Out, Err}, NEW d \in Seq(Nat), Added(is, s, d)
  PROVE  /\ Shape' /\ FrameInv'
         /\ ~(exiting /\ frame.want > 0) /\ status # "exit"
         /\ \A i \in 1..Len(io) : io[i][4] = "out" /\ (Header(i)' <=> Header(i))
         /\ \A i \in 1..(Len(io) + 1) : EofBefore(i)' <=> EofBefore(i)
         /\ \A i \in (Len(io) + 2)..(Len(io') + 1) :
               EofBefore(i)' <=> EofBefore(Len(io) + 1) \/ Len(d) = 0
<1> DEFINE n == Len(io)
           m == Len(d)
<1>0. /\ OutType /\ FrameInv /\ Shape /\ CodeLast /\ EndInv /\ n \in Nat /\ m \in Nat
      /\ Rest \in Int /\ Rest' = Rest /\ Len(io') = n + 1 + m
      /\ (\A i \in 1..n : io[i][3] \in Nat /\ io[i][4] \in {"out", "code"})
  <2>1. OutType /\ FrameInv /\ Shape /\ CodeLast /\ EndInv /\ n \in Nat /\ m \in Nat
        /\ Len(io') = n + 1 + m
    BY Zenon DEF OInv, Added
  <2>2. Rest \in Int
    BY <2>1, UnitTypes DEF Rest
  <2>3. Rest' = Rest
    BY Zenon DEF Same, Rest
  <2>4. QED
    BY <2>1, <2>2, <2>3, UnitTypes, Zenon
<1>1. FrameInv'
  BY <1>0, Zenon DEF FrameInv, Same
<1>2. ~(exiting /\ frame.want > 0) /\ status # "exit"
  BY <1>0, Zenon DEF CodeLast, EndInv
<1>3. \A i \in 1..n : /\ i \in 1..Len(io') /\ io'[i] = io[i] /\ io[i][4] = "out"
                      /\ (Header(i)' <=> Header(i))
  <2>1. \A i \in 1..n : io[i][4] = "out"
    BY <1>0, Zenon DEF CodeLast
  <2>2. QED
    BY <2>1, Zenon DEF Added, Header
<1>4. /\ n + 1 \in 1..Len(io') /\ io'[n + 1][1] = "h"
      /\ io'[n + 1][2] = s /\ io'[n + 1][3] = m /\ io'[n + 1][4] = is
  BY Zenon DEF Added, IsUnit
<1>5. \A i : (\E j \in 1..m : i = n + 1 + j) =>
         i \in 1..Len(io') /\ ~Header(i)' /\ io'[i][2] = s /\ io'[i][4] = is
  <2>1. \A j \in 1..m : /\ n + 1 + j \in 1..Len(io') /\ io'[n + 1 + j][1] = "d"
                        /\ io'[n + 1 + j][2] = s /\ io'[n + 1 + j][4] = is
    BY Zenon DEF Added, IsUnit
  <2>2. QED
    BY <2>1, Zenon DEF Header
<1>6. \A i \in 1..Len(io') : \/ i \in 1..n \/ i = n + 1
                             \/ \E j \in 1..m : i = n + 1 + j
  BY Zenon DEF Added
<1>7. Rest <= n /\ \A i \in 1..n : Header(i) => i + io[i][3] <= n
  BY <1>0, Zenon DEF Shape
<1> HIDE DEF n, m
<1>8. Shape'
  <2>1. ASSUME NEW i \in 1..Len(io'), i <= Rest
        PROVE  /\ ~Header(i)' /\ io'[i][2] = frame.stream
               /\ io'[i][4] = IF exiting THEN "code" ELSE "out"
    <3>1. i \in 1..n
      BY <2>1, <1>0, <1>7
    <3>2. QED
      BY <3>1, <2>1, <1>0, <1>3, ZenonT(20) DEF Shape, n
  <2>2. ASSUME NEW i \in 1..Len(io'), i = Rest + 1
        PROVE  Header(i)'
    <3>1. i \in 1..n \/ i = n + 1
      BY <2>2, <1>0, <1>7
    <3>2. QED
      BY <3>1, <2>2, <1>0, <1>3, <1>4, Zenon DEF Shape, n, Header
  <2>3. ASSUME NEW i \in 1..Len(io'), NEW j \in 1..Len(io'), Header(i)'
        PROVE  /\ i < j /\ j <= i + io'[i][3] =>
                     ~Header(j)' /\ io'[j][2] = io'[i][2] /\ io'[j][4] = io'[i][4]
               /\ j = i + io'[i][3] + 1 => Header(j)'
    <3>1. CASE i \in 1..n
      <4>1. io'[i] = io[i] /\ Header(i) /\ i + io[i][3] <= n /\ io[i][3] \in Nat
        BY <3>1, <2>3, <1>0, <1>3, <1>7, ZenonT(20)
      <4>2. i < j /\ j <= i + io[i][3] => j \in 1..n
        BY <4>1, <1>0
      <4>3. j = i + io[i][3] + 1 => j \in 1..n \/ j = n + 1
        <5> DEFINE q == io[i][3]
        <5>1. i + q <= n /\ q \in Nat /\ n \in Nat /\ i >= 1
          BY <4>1, <3>1, <1>0
        <5> HIDE DEF q
        <5>2. j = i + q + 1 => j \in 1..n \/ j = n + 1
          BY <5>1
        <5>3. QED
          BY <5>2, Zenon DEF q
      <4>4. i < j /\ j <= i + io[i][3] =>
               ~Header(j) /\ io[j][2] = io[i][2] /\ io[j][4] = io[i][4]
        BY <4>1, <4>2, <3>1, <1>0, Zenon DEF Shape, n
      <4>5. j = i + io[i][3] + 1 /\ j \in 1..n => Header(j)
        BY <4>1, <3>1, <1>0, Zenon DEF Shape, n
      <4>6. QED
        <5>1. j = n + 1 => Header(j)'
          BY <1>4, Zenon DEF Header
        <5>2. QED
          BY <5>1, <4>1, <4>2, <4>3, <4>4, <4>5, <1>3, Zenon
    <3>2. CASE i = n + 1
      <4>1. j <= n + 1 + m
        BY <1>0
      <4>2. ASSUME i < j
            PROVE  \E k \in 1..m : j = n + 1 + k
        <5>1. j \notin 1..n /\ j # n + 1
          BY <4>2, <3>2, <1>0
        <5>2. QED
          BY <5>1, <1>6, Zenon
      <4>3. io'[i][3] = m /\ io'[i][2] = s /\ io'[i][4] = is
        BY <3>2, <1>4, Zenon
      <4>4. j # i + m + 1
        BY <4>1, <3>2, <1>0
      <4>5. QED
        BY <4>2, <4>3, <4>4, <1>5, Zenon
    <3>3. QED
      BY <3>1, <3>2, <2>3, <1>5, <1>6, Zenon
  <2>4. Rest <= Len(io')
    BY <1>0, <1>7
  <2>5. ASSUME NEW i \in 1..Len(io'), Header(i)' PROVE i + io'[i][3] <= Len(io')
    <3>1. i \in 1..n \/ i = n + 1
      BY <2>5, <1>5, <1>6, Zenon
    <3>2. CASE i \in 1..n
      <4>1. io'[i][3] = io[i][3] /\ i + io[i][3] <= n /\ io[i][3] \in Nat
        BY <3>2, <2>5, <1>0, <1>3, <1>7, Zenon
      <4>2. QED
        BY <4>1, <1>0
    <3>3. CASE i = n + 1
      BY <3>3, <1>0, <1>4
    <3>4. QED
      BY <3>1, <3>2, <3>3, Zenon
  <2>6. frame' = frame /\ exiting' = exiting
    BY Zenon DEF Same
  <2>7. QED
    BY <2>1, <2>2, <2>3, <2>4, <2>5, <2>6, <1>0, ZenonT(20) DEF Shape
<1>9. EofRead' <=> EofRead
  BY Zenon DEF EofRead, Same
<1>10. ASSUME NEW i \in 1..(n + 1) PROVE EofBefore(i)' <=> EofBefore(i)
  <2>1. ASSUME NEW k \in 1..Len(io'), k < i PROVE k \in 1..n
    BY <2>1, <1>0
  <2>2. QED
    BY <2>1, <1>3, <1>9, ZenonT(20) DEF EofBefore, n
<1>11. ASSUME NEW i \in (n + 2)..(Len(io') + 1)
       PROVE  EofBefore(i)' <=> EofBefore(n + 1) \/ m = 0
  <2>1. \A k \in 1..n : k < n + 1 /\ k < i
    BY <1>0
  <2>2. n + 1 < i
    BY <1>0
  <2>3. EofBefore(n + 1) => EofBefore(i)'
    BY <2>1, <1>3, <1>9, Zenon DEF EofBefore, n
  <2>4. m = 0 => EofBefore(i)'
    BY <2>2, <1>4, Zenon DEF EofBefore, Header
  <2>5. ASSUME NEW k \in 1..Len(io'), Header(k)', io'[k][3] = 0
        PROVE  EofBefore(n + 1) \/ m = 0
    <3>1. CASE k \in 1..n
      BY <3>1, <2>1, <2>5, <1>3, Zenon DEF EofBefore, n
    <3>2. QED
      BY <3>1, <2>5, <1>4, <1>5, <1>6, Zenon
  <2>6. EofBefore(i)' => EofBefore(n + 1) \/ m = 0
    BY <2>5, <1>9, Zenon DEF EofBefore
  <2>7. QED
    BY <2>3, <2>4, <2>6, Zenon
<1>12. QED
  BY <1>1, <1>2, <1>3, <1>8, <1>10, <1>11, Zenon DEF n, m

\* A frame added keeps the types.
LEMMA AddedType ==
  ASSUME OInv, Same, GuestRecord', guest'.out \in [{Out, Err} -> Nat], io' \in Seq(Units)
  PROVE  OutType'
BY Zenon DEF OInv, OutType, FrameRecord, Same

\* A frame that is no output to stream t does not change it.
LEMMA AddedOther ==
  ASSUME NEW is \in {"out", "code"}, NEW s \in {Out, Err}, NEW d \in Seq(Nat), Added(is, s, d),
         NEW t \in {Out, Err}, StreamInv(t), up, Same, guest'.out[t] = guest.out[t],
         is # "out" \/ Len(d) = 0 \/ s # t
  PROVE  StreamInv(t)'
<1>1. \A i \in 1..Len(io) : i \in 1..Len(io') /\ io'[i] = io[i] /\ (Output(i, t)' <=> Output(i, t))
  BY Zenon DEF Added, Output, Header
<1>2. \A i \in 1..Len(io') : Output(i, t)' => i \in 1..Len(io)
  <2> SUFFICES ASSUME NEW i \in 1..Len(io'), Output(i, t)', ~(i \in 1..Len(io)) PROVE FALSE
    BY Zenon
  <2>1. CASE i = Len(io) + 1
    <3>1. io'[i][1] = "h"
      BY <2>1, Zenon DEF Added, IsUnit
    <3>2. QED
      BY <3>1, Zenon DEF Output, Header
  <2>2. ASSUME NEW j \in 1..Len(d), i = Len(io) + 1 + j PROVE FALSE
    <3>1. io'[i][2] = s /\ io'[i][4] = is
      BY <2>2, Zenon DEF Added, IsUnit
    <3>2. Len(d) # 0
      BY <2>2
    <3>3. QED
      BY <3>1, <3>2, Zenon DEF Output
  <2>3. QED
    BY <2>1, <2>2, Zenon DEF Added
<1>3. Pos(t)' = Pos(t) /\ shown' = shown /\ frame' = frame /\ exiting' = exiting /\ up' = up
  BY Zenon DEF Same, Pos
<1>4. /\ \A i \in 1..Len(shown[t]) : shown[t][i] = i
      /\ frame.stream = t /\ ~exiting =>
            \A i \in 1..Len(frame.data) : frame.data[i] = Len(shown[t]) + i
      /\ Pos(t) <= guest.out[t]
  BY Zenon DEF StreamInv
<1>5. \A i \in 1..Len(io') : Output(i, t)' => Pos(t) < io'[i][3] /\ io'[i][3] <= guest.out[t]
  BY <1>1, <1>2, Zenon DEF StreamInv
<1>6. \A i, j \in 1..Len(io') : Output(i, t)' /\ Output(j, t)' /\ i < j => io'[i][3] < io'[j][3]
  BY <1>1, <1>2, Zenon DEF StreamInv
<1>7. \A i \in 1..Len(io'), w \in Nat : Output(i, t)' /\ Pos(t) < w /\ w < io'[i][3] =>
        \E j \in 1..Len(io') : Output(j, t)' /\ io'[j][3] = w
  <2> SUFFICES ASSUME NEW i \in 1..Len(io'), NEW w \in Nat,
                      Output(i, t)', Pos(t) < w, w < io'[i][3]
               PROVE  \E j \in 1..Len(io') : Output(j, t)' /\ io'[j][3] = w
    BY Zenon
  <2>0. i \in 1..Len(io) /\ Output(i, t) /\ w < io[i][3]
    <3>1. i \in 1..Len(io)
      BY <1>2, Zenon
    <3>2. io'[i] = io[i] /\ (Output(i, t)' <=> Output(i, t))
      BY <3>1, <1>1, Zenon
    <3>3. QED
      BY <3>1, <3>2, Zenon
  <2>1. PICK j \in 1..Len(io) : Output(j, t) /\ io[j][3] = w
    BY <2>0, Zenon DEF StreamInv
  <2>2. QED
    BY <2>1, <1>1, Zenon
<1>8. \A w \in Nat : Pos(t) < w /\ w <= guest.out[t] =>
        \E j \in 1..Len(io') : Output(j, t)' /\ io'[j][3] = w
  <2> SUFFICES ASSUME NEW w \in Nat, Pos(t) < w, w <= guest.out[t]
               PROVE  \E j \in 1..Len(io') : Output(j, t)' /\ io'[j][3] = w
    BY Zenon
  <2>0. Pos(t) < w /\ w <= guest.out[t] => \E j \in 1..Len(io) : Output(j, t) /\ io[j][3] = w
    BY Zenon DEF StreamInv
  <2>1. PICK j \in 1..Len(io) : Output(j, t) /\ io[j][3] = w
    BY <2>0, Zenon
  <2>2. QED
    BY <2>1, <1>1, Zenon
<1>9. QED
  BY <1>3, <1>4, <1>5, <1>6, <1>7, <1>8, ZenonT(20) DEF StreamInv

\* Output to stream s goes on where it stopped.
LEMMA AddedOutput ==
  ASSUME OutType, NEW s \in {Out, Err}, NEW d \in Seq(Nat), Added("out", s, d),
         StreamInv(s), up, Same, guest'.out[s] = guest.out[s] + Len(d),
         \A j \in 1..Len(d) : d[j] = guest.out[s] + j
  PROVE  StreamInv(s)'
<1> DEFINE n == Len(io)
           m == Len(d)
           o == guest.out[s]
<1>0. n \in Nat /\ m \in Nat /\ o \in Nat /\ Pos(s) \in Nat /\ Pos(s) <= o
      /\ Len(io') = n + 1 + m /\ \A i \in 1..n : io[i][3] \in Nat
  BY PosType, UnitTypes, Zenon DEF Added, StreamInv
<1>1. \A i \in 1..n : i \in 1..Len(io') /\ io'[i] = io[i] /\ (Output(i, s)' <=> Output(i, s))
  BY Zenon DEF Added, Output, Header
<1>2. \A j \in 1..m : /\ n + 1 + j \in 1..Len(io') /\ io'[n + 1 + j][3] = o + j
                      /\ io'[n + 1 + j][1] = "d" /\ io'[n + 1 + j][2] = s
                      /\ io'[n + 1 + j][4] = "out"
  <2>1. \A j \in 1..m : n + 1 + j \in 1..Len(io') /\ IsUnit(io'[n + 1 + j], "d", s, d[j], "out")
    BY Zenon DEF Added
  <2>2. QED
    BY <2>1, ZenonT(20) DEF IsUnit
<1>3. \A i \in 1..Len(io') : Output(i, s)' => i \in 1..n \/ \E j \in 1..m : i = n + 1 + j
  <2>1. \A i \in 1..Len(io') : i = n + 1 => ~Output(i, s)'
    BY Zenon DEF Added, IsUnit, Output, Header
  <2>2. QED
    BY <2>1, Zenon DEF Added
<1>4. Pos(s)' = Pos(s) /\ shown' = shown /\ frame' = frame /\ exiting' = exiting /\ up' = up
  BY Zenon DEF Same, Pos
<1>5. /\ \A i \in 1..Len(shown[s]) : shown[s][i] = i
      /\ frame.stream = s /\ ~exiting =>
            \A i \in 1..Len(frame.data) : frame.data[i] = Len(shown[s]) + i
  BY Zenon DEF StreamInv
<1>6. \A i \in 1..n : Output(i, s) => Pos(s) < io[i][3] /\ io[i][3] <= o
  BY Zenon DEF StreamInv
<1>7. \A i, j \in 1..n : Output(i, s) /\ Output(j, s) /\ i < j => io[i][3] < io[j][3]
  BY Zenon DEF StreamInv
<1>8. \A w \in Nat : Pos(s) < w /\ w <= o => \E j \in 1..n : Output(j, s) /\ io[j][3] = w
  BY Zenon DEF StreamInv
<1>9. guest'.out[s] = o + m
  BY Zenon
<1> HIDE DEF n, m, o
<1>10. Pos(s) <= o + m
  <2>1. m \in Nat /\ o \in Nat /\ Pos(s) \in Nat /\ Pos(s) <= o
    BY <1>0, Zenon
  <2>2. \A x, y, z \in Nat : x <= y => x <= y + z
    OBVIOUS
  <2>3. QED
    BY <2>1, <2>2, Zenon
<1>11. ASSUME NEW i \in 1..Len(io'), Output(i, s)'
       PROVE  Pos(s) < io'[i][3] /\ io'[i][3] <= o + m
  <2>1. CASE i \in 1..n
    <3>1. io'[i][3] = io[i][3] /\ io[i][3] \in Nat /\ Pos(s) < io[i][3] /\ io[i][3] <= o
      <4>1. io'[i] = io[i] /\ Output(i, s)
        BY <2>1, <1>1, <1>11, Zenon
      <4>2. io[i][3] \in Nat /\ Pos(s) < io[i][3] /\ io[i][3] <= o
        BY <4>1, <2>1, <1>0, <1>6, Zenon
      <4>3. QED
        BY <4>1, <4>2, Zenon
    <3>2. n \in Nat /\ m \in Nat /\ o \in Nat
      BY <1>0, Zenon
    <3>3. QED
      BY <3>1, <3>2
  <2>2. ASSUME NEW j \in 1..m, i = n + 1 + j
        PROVE  Pos(s) < io'[i][3] /\ io'[i][3] <= o + m
    <3>1. io'[i][3] = o + j
      BY <2>2, <1>2, Zenon
    <3>2. QED
      BY <3>1, <1>0
  <2>3. QED
    BY <2>1, <2>2, <1>3, <1>11, Zenon
<1>12. ASSUME NEW i \in 1..Len(io'), NEW k \in 1..Len(io'), Output(i, s)', Output(k, s)', i < k
       PROVE  io'[i][3] < io'[k][3]
  <2>1. CASE i \in 1..n /\ k \in 1..n
    BY <2>1, <1>1, <1>7, <1>12, Zenon
  <2>2. ASSUME i \in 1..n, NEW j \in 1..m, k = n + 1 + j
        PROVE  io'[i][3] < io'[k][3]
    <3>1. io'[i][3] = io[i][3] /\ io[i][3] \in Nat /\ io[i][3] <= o
      BY <2>2, <1>0, <1>1, <1>6, <1>12, Zenon
    <3>2. io'[k][3] = o + j
      BY <2>2, <1>2, Zenon
    <3>3. QED
      BY <3>1, <3>2, <1>0
  <2>3. ASSUME NEW j \in 1..m, i = n + 1 + j, k \in 1..n PROVE FALSE
    BY <2>3, <1>0, <1>12
  <2>4. ASSUME NEW j \in 1..m, i = n + 1 + j, NEW l \in 1..m, k = n + 1 + l
        PROVE  io'[i][3] < io'[k][3]
    <3>1. io'[i][3] = o + j /\ io'[k][3] = o + l
      BY <2>4, <1>2, Zenon
    <3>2. j < l
      BY <2>4, <1>0, <1>12, SMTT(20)
    <3>3. QED
      BY <3>1, <3>2, <1>0
  <2>5. QED
    BY <2>1, <2>2, <2>3, <2>4, <1>3, <1>12, Zenon
<1>13. ASSUME NEW w \in Nat, Pos(s) < w, w <= o + m
       PROVE  \E j \in 1..Len(io') : Output(j, s)' /\ io'[j][3] = w
  <2>1. CASE w <= o
    <3>1. PICK j \in 1..n : Output(j, s) /\ io[j][3] = w
      BY <2>1, <1>8, <1>13, Zenon
    <3>2. QED
      BY <3>1, <1>1, Zenon
  <2>2. CASE w > o
    <3>1. w - o \in 1..m /\ o + (w - o) = w
      BY <2>2, <1>0, <1>13
    <3>2. PICK k \in 1..Len(io') : k = n + 1 + (w - o)
      BY <3>1, <1>2, Zenon
    <3>3. io'[k][3] = w /\ io'[k][1] = "d" /\ io'[k][2] = s /\ io'[k][4] = "out"
      BY <3>1, <3>2, <1>2, Zenon
    <3>4. QED
      BY <3>3, Zenon DEF Output, Header
  <2>3. QED
    BY <2>1, <2>2, <1>0
<1>14. \A i \in 1..Len(io'), w \in Nat : Output(i, s)' /\ Pos(s) < w /\ w < io'[i][3] =>
         \E j \in 1..Len(io') : Output(j, s)' /\ io'[j][3] = w
  <2> SUFFICES ASSUME NEW i \in 1..Len(io'), NEW w \in Nat,
                      Output(i, s)', Pos(s) < w, w < io'[i][3]
               PROVE  w <= o + m
    BY <1>13, Zenon
  <2>1. io'[i][3] <= o + m
    BY <1>11, Zenon
  <2>2. io'[i][3] \in Nat
    <3>1. CASE i \in 1..n
      BY <3>1, <1>0, <1>1, Zenon
    <3>2. ASSUME NEW j \in 1..m, i = n + 1 + j PROVE io'[i][3] \in Nat
      <4>1. io'[i][3] = o + j
        BY <3>2, <1>2, Zenon
      <4>2. QED
        BY <4>1, <1>0
    <3>3. QED
      BY <3>1, <3>2, <1>3, Zenon
  <2>3. QED
    BY <2>1, <2>2, <1>0
<1>15. \A i \in 1..Len(io') : Output(i, s)' => Pos(s) < io'[i][3] /\ io'[i][3] <= guest'.out[s]
  BY <1>9, <1>11, Zenon
<1>16. \A i, k \in 1..Len(io') : Output(i, s)' /\ Output(k, s)' /\ i < k => io'[i][3] < io'[k][3]
  BY <1>12, Zenon
<1>17. \A w \in Nat : Pos(s) < w /\ w <= guest'.out[s] =>
         \E j \in 1..Len(io') : Output(j, s)' /\ io'[j][3] = w
  BY <1>9, <1>13, Zenon
<1>18. Pos(s) <= guest'.out[s]
  BY <1>9, <1>10, Zenon
<1>19. QED
  BY <1>4, <1>5, <1>14, <1>15, <1>16, <1>17, <1>18, ZenonT(20) DEF StreamInv

\* Output is passed on before the end of any stream.
LEMMA GuestWriteStep ==
  ASSUME OInv, GuestWrite, ~LateOutput
  PROVE  OInv'
<1>1. PICK s \in Streams \ guest.eof, n \in 1..2 :
        /\ guest.eof # {} => LateOutput
        /\ PassOn("out", s, [i \in 1..n |-> guest.out[s] + i])
        /\ guest' = [guest EXCEPT !.out[s] = @ + n]
  BY Zenon DEF GuestWrite
<1> DEFINE d == [i \in 1..n |-> guest.out[s] + i]
<1>2. s \in {Out, Err} /\ guest.eof = {} /\ up /\ ~guest.code /\ Same /\ n \in Nat /\ n > 0
  BY <1>1, SMTT(20) DEF Streams, PassOn, GuestWrite, Same, Env, outVars
<1>3. OutType /\ guest.out[s] \in Nat /\ guest.out \in [{Out, Err} -> Nat] /\ GuestRecord
  BY <1>2, UnitTypes, Zenon DEF OInv, OutType
<1>4. d \in Seq(Nat) /\ Len(d) = n /\ \A j \in 1..Len(d) : d[j] = guest.out[s] + j
  BY <1>2, <1>3
<1>5. PassOn("out", s, d)
  BY <1>1, Zenon
<1> HIDE DEF d
<1>6. Added("out", s, d)
  BY <1>2, <1>3, <1>4, <1>5, FrameAdded, Zenon
<1>7. /\ guest'.out = [guest.out EXCEPT ![s] = @ + n] /\ guest'.eof = guest.eof
      /\ GuestRecord'
  BY <1>1, <1>3, Zenon DEF GuestRecord
<1>8. ~guest'.code
  <2>1. guest'.code = guest.code
    BY <1>1, <1>3, Zenon DEF GuestRecord
  <2>2. QED
    BY <2>1, <1>2, Zenon
<1>9. guest'.out \in [{Out, Err} -> Nat] /\ guest'.out[s] = guest.out[s] + n
      /\ \A t \in {Out, Err} : t # s => guest'.out[t] = guest.out[t]
  BY <1>2, <1>3, <1>7
<1>10. OutType'
  BY <1>2, <1>6, <1>7, <1>9, AddedType, Zenon DEF Added
<1>11. /\ Shape' /\ FrameInv' /\ ~(exiting /\ frame.want > 0) /\ status # "exit"
       /\ \A i \in 1..Len(io) : io[i][4] = "out" /\ (Header(i)' <=> Header(i))
       /\ \A i \in 1..(Len(io) + 1) : EofBefore(i)' <=> EofBefore(i)
       /\ \A i \in (Len(io) + 2)..(Len(io') + 1) :
             EofBefore(i)' <=> EofBefore(Len(io) + 1) \/ Len(d) = 0
  BY <1>2, <1>4, <1>6, AddedShape, Zenon
<1>12. ~EofBefore(Len(io) + 1) /\ Len(io) \in Nat /\ Len(io') = Len(io) + 1 + n
  BY <1>2, <1>4, <1>6, Zenon DEF OInv, GuestInv, Added
\* No end of a stream has been sent.
<1>13. \A i \in 1..(Len(io') + 1) : ~EofBefore(i)'
  <2> SUFFICES ASSUME NEW i \in 1..(Len(io') + 1) PROVE ~EofBefore(i)'
    BY Zenon
  <2>1. CASE i \in 1..(Len(io) + 1)
    <3>1. EofBefore(i) => EofBefore(Len(io) + 1)
      <4>1. \A k \in 1..Len(io) : k < Len(io) + 1
        BY <1>12
      <4>2. QED
        BY <4>1, Zenon DEF EofBefore
    <3>2. QED
      BY <3>1, <2>1, <1>11, <1>12, Zenon
  <2>2. CASE i \in (Len(io) + 2)..(Len(io') + 1)
    BY <2>2, <1>2, <1>4, <1>11, <1>12
  <2>3. QED
    BY <2>1, <2>2, <1>12
<1>14. \A i \in 1..Len(io') : io'[i][4] = "out"
  <2>1. io'[Len(io) + 1][4] = "out" /\ \A j \in 1..Len(d) : io'[Len(io) + 1 + j][4] = "out"
    BY <1>6, Zenon DEF Added, IsUnit
  <2>2. \A i \in 1..Len(io) : io'[i][4] = "out"
    BY <1>6, <1>11, Zenon DEF Added
  <2>3. \A i \in 1..Len(io') : i \in 1..Len(io) \/ i = Len(io) + 1
                              \/ \E j \in 1..Len(d) : i = Len(io) + 1 + j
    BY <1>6, Zenon DEF Added
  <2>4. QED
    BY <2>1, <2>2, <2>3, Zenon
<1>15. CodeLast'
  <2>1. \A i \in 1..Len(io') : i \in 1..(Len(io') + 1)
    BY <1>12, <1>2
  <2>2. ~(exiting' /\ frame'.want > 0)
    BY <1>2, <1>11, Zenon DEF Same
  <2>3. \A i \in 1..Len(io') : ~EofBefore(i)' /\ io'[i][4] # "code"
    BY <2>1, <1>13, <1>14, Zenon
  <2>4. QED
    BY <2>2, <2>3, Zenon DEF CodeLast
<1>16. GuestInv'
  <2>1. Len(io') + 1 \in 1..(Len(io') + 1)
    BY <1>12, <1>2
  <2>2. ~EofBefore(Len(io) + 1)'
    BY <2>1, <1>13, Zenon
  <2>3. QED
    BY <2>2, <1>2, <1>7, <1>8, Zenon DEF GuestInv
<1>17. EndInv'
  BY <1>2, <1>11, Zenon DEF EndInv, Same
<1>18. ASSUME ~dropped, NEW t \in {Out, Err} PROVE StreamInv(t)'
  <2>1. StreamInv(t)
    BY <1>18, Zenon DEF OInv
  <2>2. CASE t = s
    BY <2>1, <2>2, <1>2, <1>3, <1>4, <1>6, <1>9, AddedOutput, Zenon
  <2>3. CASE t # s
    BY <2>1, <2>3, <1>2, <1>4, <1>6, <1>9, AddedOther
  <2>4. QED
    BY <2>2, <2>3, Zenon
<1>19. dropped' = dropped
  BY <1>2, ZenonT(30) DEF Same
<1>20. QED
  BY <1>10, <1>11, <1>15, <1>16, <1>17, <1>18, <1>19, Zenon DEF OInv

\* The end of a stream is passed on.
LEMMA GuestEofStep ==
  ASSUME OInv, GuestEof
  PROVE  OInv'
<1>1. PICK s \in Streams \ guest.eof :
        PassOn("out", s, <<>>) /\ guest' = [guest EXCEPT !.eof = @ \cup {s}]
  BY Zenon DEF GuestEof
<1>2. s \in {Out, Err} /\ up /\ Same
  BY <1>1, Zenon DEF Streams, PassOn, GuestEof, Same, Env, outVars
<1>3. OutType /\ GuestRecord /\ guest.out \in [{Out, Err} -> Nat] /\ GuestInv /\ CodeLast
  BY Zenon DEF OInv, OutType
<1>4. ~guest.code
  BY <1>1, <1>3, Zenon DEF GuestInv
<1>5. <<>> \in Seq(Nat) /\ Len(<<>>) = 0
  OBVIOUS
<1> DEFINE d == <<>>
<1>6. Added("out", s, d)
  BY <1>1, <1>2, <1>3, <1>5, FrameAdded, Zenon
<1>7. /\ guest'.out = guest.out /\ guest'.eof = guest.eof \cup {s} /\ GuestRecord'
  BY <1>1, <1>3, Zenon DEF GuestRecord
<1>8. ~guest'.code
  <2>1. guest'.code = guest.code
    BY <1>1, <1>3, Zenon DEF GuestRecord
  <2>2. QED
    BY <2>1, <1>4, Zenon
<1>9. OutType'
  BY <1>2, <1>3, <1>6, <1>7, AddedType, Zenon DEF Added
<1>10. d \in Seq(Nat) /\ Len(d) = 0
  BY <1>5, Zenon
<1> HIDE DEF d
<1>11. /\ Shape' /\ FrameInv' /\ ~(exiting /\ frame.want > 0) /\ status # "exit"
       /\ \A i \in 1..Len(io) : io[i][4] = "out" /\ (Header(i)' <=> Header(i))
       /\ \A i \in 1..(Len(io) + 1) : EofBefore(i)' <=> EofBefore(i)
       /\ \A i \in (Len(io) + 2)..(Len(io') + 1) :
             EofBefore(i)' <=> EofBefore(Len(io) + 1) \/ Len(d) = 0
  BY <1>2, <1>4, <1>6, <1>10, AddedShape, ZenonT(20)
<1>12. Len(io) \in Nat /\ Len(io') = Len(io) + 1
  BY <1>6, <1>10 DEF Added
<1>13. /\ \A i \in 1..Len(io) : io'[i] = io[i]
       /\ io'[Len(io) + 1][1] = "h" /\ io'[Len(io) + 1][3] = 0
       /\ io'[Len(io) + 1][4] = "out"
  BY <1>6, <1>10, ZenonT(20) DEF Added, IsUnit
<1>14. \A i \in 1..Len(io') : i \in 1..Len(io) \/ i = Len(io) + 1
  BY <1>12
<1>15. CodeLast'
  <2>1. ~(exiting' /\ frame'.want > 0)
    BY <1>2, <1>11, Zenon DEF Same
  <2>2. ASSUME NEW i \in 1..Len(io')
        PROVE  /\ io'[i][4] = "out"
               /\ EofBefore(i)' => Header(i)' /\ io'[i][3] = 0
    <3>1. CASE i \in 1..Len(io)
      <4>1. i \in 1..(Len(io) + 1)
        BY <3>1, <1>12, Zenon
      <4>2. QED
        BY <4>1, <3>1, <1>3, <1>11, <1>13 DEF CodeLast
    <3>2. CASE i = Len(io) + 1
      BY <3>2, <1>13, Zenon DEF Header
    <3>3. QED
      BY <3>1, <3>2, <1>14, Zenon
  <2>3. QED
    BY <2>1, <2>2, Zenon DEF CodeLast
<1>16. GuestInv'
  <2>1. Len(io') + 1 \in (Len(io) + 2)..(Len(io') + 1)
    BY <1>12
  <2>2. EofBefore(Len(io) + 1)'
    BY <2>1, <1>10, <1>11, Zenon
  <2>3. guest'.eof # {}
    BY <1>7, Zenon
  <2>4. QED
    BY <2>2, <2>3, <1>8, Zenon DEF GuestInv
<1>17. EndInv'
  BY <1>2, <1>11, Zenon DEF EndInv, Same
<1>18. ASSUME ~dropped, NEW t \in {Out, Err} PROVE StreamInv(t)'
  <2>1. StreamInv(t)
    BY <1>18, Zenon DEF OInv
  <2>2. QED
    BY <2>1, <1>2, <1>6, <1>7, <1>10, AddedOther, Zenon
<1>19. dropped' = dropped
  BY <1>2, Zenon DEF Same
<1>20. QED
  BY <1>9, <1>11, <1>15, <1>16, <1>17, <1>18, <1>19 DEF OInv

\* The exit code is passed on after the ends of all streams.
LEMMA GuestExitStep ==
  ASSUME OInv, GuestExit
  PROVE  OInv'
<1> DEFINE d == <<ExitCode>>
<1>1. /\ guest.eof = Streams /\ ~guest.code /\ up /\ Same /\ PassOn("code", Out, d)
      /\ guest' = [guest EXCEPT !.code = TRUE]
  BY Zenon DEF GuestExit, PassOn, Same, Env, outVars
<1>2. OutType /\ GuestRecord /\ guest.out \in [{Out, Err} -> Nat] /\ GuestInv /\ CodeLast
  BY Zenon DEF OInv, OutType
<1>3. d \in Seq(Nat) /\ Len(d) = 1 /\ d[1] = ExitCode
  BY DEF ExitCode
<1> HIDE DEF d
<1>4. Added("code", Out, d)
  BY <1>1, <1>2, <1>3, FrameAdded, Zenon
<1>5. /\ guest'.out = guest.out /\ guest'.eof = guest.eof /\ GuestRecord' /\ guest'.code
  <2>1. ASSUME NEW v, guest' = [guest EXCEPT !.code = v]
        PROVE  guest'.out = guest.out /\ guest'.eof = guest.eof /\ GuestRecord'
               /\ guest'.code = v
    BY <2>1, <1>2, Zenon DEF GuestRecord
  <2>2. QED
    BY <2>1, <1>1, Zenon
<1>6. OutType'
  BY <1>1, <1>2, <1>4, <1>5, AddedType, Zenon DEF Added
<1>7. /\ Shape' /\ FrameInv' /\ ~(exiting /\ frame.want > 0) /\ status # "exit"
      /\ \A i \in 1..Len(io) : io[i][4] = "out" /\ (Header(i)' <=> Header(i))
      /\ \A i \in 1..(Len(io) + 1) : EofBefore(i)' <=> EofBefore(i)
      /\ \A i \in (Len(io) + 2)..(Len(io') + 1) :
            EofBefore(i)' <=> EofBefore(Len(io) + 1) \/ Len(d) = 0
  BY <1>1, <1>3, <1>4, AddedShape, ZenonT(20)
<1>8. Len(io) \in Nat /\ Len(io') = Len(io) + 2
  BY <1>3, <1>4 DEF Added
<1>9. /\ \A i \in 1..Len(io) : io'[i] = io[i]
      /\ io'[Len(io) + 1][1] = "h" /\ io'[Len(io) + 1][3] = 1 /\ io'[Len(io) + 1][4] = "code"
  BY <1>3, <1>4, Zenon DEF Added, IsUnit
<1>10. /\ io'[Len(io) + 2][1] = "d" /\ io'[Len(io) + 2][3] = ExitCode
       /\ io'[Len(io) + 2][4] = "code"
  <2>1. 1 \in 1..Len(d) /\ Len(io) + 1 + 1 = Len(io) + 2
    BY <1>3, <1>8
  <2>2. IsUnit(io'[Len(io) + 1 + 1], "d", Out, d[1], "code")
    BY <2>1, <1>4, Zenon DEF Added
  <2>3. QED
    BY <2>1, <2>2, <1>3, Zenon DEF IsUnit
<1>11. \A i \in 1..Len(io') : i \in 1..Len(io) \/ i = Len(io) + 1 \/ i = Len(io) + 2
  BY <1>8
\* The ends of the streams have been sent before.
<1>12. EofBefore(Len(io) + 1) /\ Streams # {}
  BY <1>1, <1>2, ZenonT(20) DEF GuestInv, Streams
<1>13. CodeLast'
  <2>1. ~(exiting' /\ frame'.want > 0)
    BY <1>1, <1>7, Zenon DEF Same
  <2>2. ASSUME NEW i \in 1..Len(io)
        PROVE  /\ io'[i][4] = "out"
               /\ EofBefore(i)' => Header(i)' /\ io'[i][3] = 0
    <3>1. i \in 1..(Len(io) + 1)
      BY <1>8
    <3>2. QED
      BY <3>1, <1>2, <1>7, <1>9 DEF CodeLast
  <2>3. ASSUME NEW i, i = Len(io) + 1
        PROVE  io'[i][4] = "code" /\ EofBefore(i)' /\ Header(i)' /\ io'[i][3] = 1
               /\ i + 1 >= Len(io')
    <3>1. i \in 1..(Len(io) + 1) /\ i + 1 >= Len(io')
      BY <2>3, <1>8
    <3>2. QED
      BY <3>1, <2>3, <1>7, <1>9, <1>12, Zenon DEF Header
  <2>4. ASSUME NEW i, i = Len(io) + 2
        PROVE  io'[i][4] = "code" /\ EofBefore(i)' /\ ~Header(i)' /\ io'[i][3] = ExitCode
               /\ i = Len(io')
    <3>1. i \in (Len(io) + 2)..(Len(io') + 1) /\ i = Len(io')
      BY <2>4, <1>8
    <3>2. QED
      BY <3>1, <2>4, <1>7, <1>10, <1>12, Zenon DEF Header
  <2>5. QED
    BY <2>1, <2>2, <2>3, <2>4, <1>5, <1>11, Zenon DEF CodeLast
<1>14. GuestInv'
  <2>1. Len(io') + 1 \in (Len(io) + 2)..(Len(io') + 1)
    BY <1>8
  <2>2. EofBefore(Len(io) + 1)'
    BY <2>1, <1>7, <1>12, Zenon
  <2>3. guest'.eof = Streams' /\ guest'.eof # {}
    BY <1>1, <1>5, <1>12, Zenon DEF Streams, Same
  <2>4. QED
    BY <2>2, <2>3, Zenon DEF GuestInv
<1>15. EndInv'
  BY <1>1, <1>7, Zenon DEF EndInv, Same
<1>16. ASSUME ~dropped, NEW t \in {Out, Err} PROVE StreamInv(t)'
  <2>1. StreamInv(t)
    BY <1>16, Zenon DEF OInv
  <2>2. QED
    BY <2>1, <1>1, <1>3, <1>4, <1>5, AddedOther, Zenon
<1>17. dropped' = dropped
  BY <1>1, Zenon DEF Same
<1>18. QED
  BY <1>6, <1>7, <1>13, <1>14, <1>15, <1>16, <1>17, Zenon DEF OInv

\* What is left when the proxy ends is a prefix; if the exit code is in it then
\* so is all the output.
LEMMA ProxyEndsStep ==
  ASSUME OInv, ProxyEnds
  PROVE  OInv'
<1>1. PICK k \in 0..Len(io) : io' = SubSeq(io, 1, k)
  BY Zenon DEF ProxyEnds
<1>2. ~up' /\ UNCHANGED <<stdin, status, code, frame, exiting, shown, dropped, guest>>
  BY Zenon DEF ProxyEnds, Env, outVars
<1>3. OutType /\ FrameInv /\ Shape /\ CodeLast /\ GuestInv /\ EndInv /\ Len(io) \in Nat
  BY UnitTypes, Zenon DEF OInv
<1>4. /\ io' \in Seq(Units) /\ Len(io') = k /\ \A i \in 1..k : io'[i] = io[i]
  BY <1>1, <1>3 DEF OutType
<1>5. /\ k \in Nat /\ k <= Len(io)
      /\ \A i \in 1..Len(io') : i \in 1..Len(io) /\ i \in 1..k /\ io'[i] = io[i]
                                /\ (Header(i)' <=> Header(i))
  BY <1>1, <1>3, <1>4, SMTT(20) DEF Header
<1>6. OutType' /\ FrameInv' /\ Rest' = Rest
  BY <1>2, <1>3, <1>4, Zenon DEF OutType, FrameRecord, GuestRecord, FrameInv, Rest
<1>7. Shape'
  <2>1. \A i \in 1..Len(io') : i <= Rest =>
          /\ ~Header(i)' /\ io'[i][2] = frame.stream
          /\ io'[i][4] = IF exiting THEN "code" ELSE "out"
    BY <1>3, <1>5, Zenon DEF Shape
  <2>2. \A i \in 1..Len(io') : i = Rest + 1 => Header(i)'
    BY <1>3, <1>5, Zenon DEF Shape
  <2>3. \A i, j \in 1..Len(io') : Header(i)' /\ i < j /\ j <= i + io'[i][3] =>
          ~Header(j)' /\ io'[j][2] = io'[i][2] /\ io'[j][4] = io'[i][4]
    BY <1>3, <1>5 DEF Shape
  <2>4. \A i, j \in 1..Len(io') : Header(i)' /\ j = i + io'[i][3] + 1 => Header(j)'
    BY <1>3, <1>5, Zenon DEF Shape
  <2>5. QED
    BY <2>1, <2>2, <2>3, <2>4, <1>2, <1>6, Zenon DEF Shape
<1>8. \A i \in 1..(k + 1) : EofBefore(i)' <=> EofBefore(i)
  <2> SUFFICES ASSUME NEW i \in 1..(k + 1) PROVE EofBefore(i)' <=> EofBefore(i)
    BY Zenon
  <2>1. EofRead' <=> EofRead
    BY <1>2, Zenon DEF EofRead
  <2>2. \A j \in 1..Len(io) : j < i => j \in 1..Len(io')
    BY <1>4, <1>5
  <2>3. QED
    BY <2>1, <2>2, <1>5, Zenon DEF EofBefore
<1>9. CodeLast'
  <2>1. ASSUME NEW i \in 1..Len(io')
        PROVE  /\ EofBefore(i)' /\ io'[i][4] = "out" => Header(i)' /\ io'[i][3] = 0
               /\ io'[i][4] = "code" =>
                     /\ EofBefore(i)' /\ guest.code
                     /\ Header(i)' => io'[i][3] = 1 /\ i + 1 >= Len(io')
                     /\ ~Header(i)' => io'[i][3] = ExitCode /\ i = Len(io')
    <3>1. i \in 1..(k + 1) /\ i \in 1..Len(io) /\ io'[i] = io[i] /\ (Header(i)' <=> Header(i))
      BY <1>5
    <3>2. EofBefore(i)' <=> EofBefore(i)
      BY <3>1, <1>8, Zenon
    <3>3. (i + 1 >= Len(io) => i + 1 >= Len(io')) /\ (i = Len(io) => i = Len(io'))
      BY <1>3, <1>4, <1>5
    <3>4. QED
      BY <3>1, <3>2, <3>3, <1>3 DEF CodeLast
  <2>2. frame.want > 0 /\ exiting =>
          /\ frame.want = 1 /\ guest.code /\ Len(io') <= Rest
          /\ Rest = 0 => frame.data[1] = ExitCode
    <3>1. Rest \in Int
      BY <1>3, UnitTypes DEF Rest
    <3>2. Len(io) <= Rest => Len(io') <= Rest
      BY <3>1, <1>3, <1>4, <1>5
    <3>3. QED
      BY <3>2, <1>3, Zenon DEF CodeLast
  <2>3. QED
    BY <2>1, <2>2, <1>2, <1>6, Zenon DEF CodeLast
<1>10. GuestInv'
  <2>1. EofBefore(Len(io) + 1)' => EofBefore(Len(io) + 1)
    <3>1. \A i \in 1..Len(io) : i < Len(io) + 1
      BY <1>3
    <3>2. k + 1 \in 1..(k + 1)
      BY <1>5
    <3>3. EofBefore(Len(io) + 1)' => EofBefore(k + 1)
      BY <3>2, <1>4, <1>8, Zenon
    <3>4. EofBefore(k + 1) => EofBefore(Len(io) + 1)
      BY <3>1, Zenon DEF EofBefore
    <3>5. QED
      BY <3>3, <3>4, Zenon
  <2>2. QED
    BY <2>1, <1>2, <1>3, Zenon DEF GuestInv, Streams
<1>11. EndInv'
  BY <1>2, <1>3, ZenonT(30) DEF EndInv
<1>12. ASSUME ~dropped, NEW s \in {Out, Err} PROVE StreamInv(s)'
  <2>0. StreamInv(s)
    BY <1>12, Zenon DEF OInv
  <2>1. Pos(s)' = Pos(s)
    BY <1>2, Zenon DEF Pos
  <2>2. \A i \in 1..Len(io') : Output(i, s)' <=> Output(i, s)
    BY <1>5, Zenon DEF Output
  <2>3. \A i \in 1..Len(io') : Output(i, s)' => Pos(s) < io'[i][3] /\ io'[i][3] <= guest.out[s]
    BY <2>0, <2>2, <1>5, Zenon DEF StreamInv
  <2>4. \A i, j \in 1..Len(io') : Output(i, s)' /\ Output(j, s)' /\ i < j => io'[i][3] < io'[j][3]
    BY <2>0, <2>2, <1>5, Zenon DEF StreamInv
  <2>5. ASSUME NEW i \in 1..Len(io'), NEW w \in Nat, Output(i, s)', Pos(s) < w, w < io'[i][3]
        PROVE  \E j \in 1..Len(io') : Output(j, s)' /\ io'[j][3] = w
    <3>1. PICK j \in 1..Len(io) : Output(j, s) /\ io[j][3] = w
      BY <2>0, <2>2, <2>5, <1>5 DEF StreamInv
    <3>2. ~(i < j)
      <4>1. i < j => io[i][3] < io[j][3]
        BY <3>1, <2>0, <2>2, <2>5, <1>5, Zenon DEF StreamInv
      <4>2. io[i][3] \in Nat /\ io[j][3] = w /\ w < io[i][3]
        BY <3>1, <2>5, <1>3, <1>5, UnitTypes, Zenon
      <4>3. QED
        BY <4>1, <4>2, SMTT(20)
    <3>3. j \in 1..Len(io')
      BY <3>2, <1>4, <1>5
    <3>4. QED
      BY <3>1, <3>3, <2>2, <1>5, ZenonT(30)
  <2>6. ASSUME CodeHere', NEW w \in Nat, Pos(s) < w, w <= guest.out[s]
        PROVE  \E j \in 1..Len(io') : Output(j, s)' /\ io'[j][3] = w
    <3>1. CodeHere
      BY <2>6, <1>2, <1>5, Zenon DEF CodeHere
    <3>2. PICK j \in 1..Len(io) : Output(j, s) /\ io[j][3] = w
      BY <3>1, <2>0, <2>6, Zenon DEF StreamInv
    <3>3. ~EofBefore(j)
      BY <3>2, <1>3, Zenon DEF CodeLast, Output
    <3>4. ~exiting
      BY <3>3, Zenon DEF EofBefore, EofRead
    <3>5. PICK i \in 1..Len(io') : io'[i][4] = "code"
      BY <3>4, <2>6, <1>2, Zenon DEF CodeHere
    <3>6. i \in 1..Len(io) /\ EofBefore(i)
      BY <3>5, <1>3, <1>5 DEF CodeLast
    <3>7. j < i
      <4>1. ASSUME i <= j PROVE EofBefore(j)
        <5>1. \A q \in 1..Len(io) : q < i => q < j
          BY <4>1, <3>6
        <5>2. QED
          BY <5>1, <3>6, Zenon DEF EofBefore
      <4>2. QED
        BY <4>1, <3>3, <3>6
    <3>8. j \in 1..Len(io')
      BY <3>7, <1>4, <1>5, SMTT(20)
    <3>9. QED
      BY <3>2, <3>8, <2>2, <1>5, Zenon
  <2>7. /\ \A i \in 1..Len(shown[s]) : shown[s][i] = i
        /\ frame.stream = s /\ ~exiting =>
              \A i \in 1..Len(frame.data) : frame.data[i] = Len(shown[s]) + i
        /\ Pos(s) <= guest.out[s]
    BY <2>0, Zenon DEF StreamInv
  <2>8. QED
    BY <2>1, <2>3, <2>4, <2>5, <2>6, <2>7, <1>2 DEF StreamInv
<1>13. QED
  BY <1>2, <1>6, <1>7, <1>9, <1>10, <1>11, <1>12, Zenon DEF OInv

\* Every step keeps OInv.
LEMMA NextOInv ==
  ASSUME ~LateOutput, OInv, [Next]_vars
  PROVE  OInv'
<1>1. CASE UNCHANGED vars
  BY <1>1, OutputUntouched, Zenon DEF vars
<1>2. CASE Poll \/ HandleSignal \/ HandleCtl \/ HandleStdin \/ Raise
  <2>1. UNCHANGED <<stdin, code, io, frame, exiting, shown, dropped, up, guest>>
    BY <1>2, ZenonT(20) DEF Poll, HandleSignal, HandleCtl, HandleStdin, Raise, outVars, envVars
  <2>2. status' \in {status, "failure"}
    BY <1>2, Zenon DEF Poll, HandleSignal, HandleCtl, HandleStdin, Raise, Exit
  <2>3. QED
    BY <2>1, <2>2, OutputUntouched, Zenon
<1>3. CASE Type \/ Answer
  <2>1. Env /\ UNCHANGED <<io, up, guest>>
    BY <1>3, Zenon DEF Type, Answer, envVars
  <2>2. QED
    BY <2>1, OutputUntouched, Zenon DEF Env, outVars
<1>4. QED
  BY <1>1, <1>2, <1>3, ReadOutputStep, HandleOutputStep, GuestWriteStep, GuestEofStep,
     GuestExitStep, ProxyEndsStep
     DEF Next, Loop, Environment

\* As long as no stream goes on after the end of the other, stdout and stderr get
\* what the workload wrote to them, in order and once, and all of it when the
\* shim ends with an exit code: for any portions of any frames of read_IO_message
\* and handle_proxy_output, and wherever the proxy's last frames are cut off.
THEOREM OutputTheorem == ~LateOutput => (Spec => []OutputShown)
<1> SUFFICES ASSUME ~LateOutput PROVE Spec => []OutputShown
  BY Zenon
<1>1. OInv => OutputShown
  <2> SUFFICES ASSUME OInv, ~dropped, NEW s \in {Out, Err}
               PROVE  /\ shown[s] = [i \in 1..Len(shown[s]) |-> i]
                      /\ Len(shown[s]) <= guest.out[s]
                      /\ status = "exit" => Len(shown[s]) = guest.out[s]
    BY Zenon DEF OutputShown
  <2>1. StreamInv(s) /\ OutType /\ EndInv
    BY Zenon DEF OInv
  <2>2. /\ shown[s] \in Seq(Nat) /\ Len(shown[s]) \in Nat /\ Len(frame.data) \in Nat
        /\ guest.out[s] \in Nat
    BY <2>1, UnitTypes, ZenonT(20) DEF OutType
  <2>3. shown[s] = [i \in 1..Len(shown[s]) |-> i]
    <3>1. \A i \in 1..Len(shown[s]) : shown[s][i] = i
      BY <2>1, Zenon DEF StreamInv
    <3> DEFINE t == shown[s]
               f == [i \in 1..Len(t) |-> i]
    <3>2. t \in Seq(Nat) /\ Len(t) \in Nat /\ \A i \in 1..Len(t) : t[i] = i
      BY <3>1, <2>2, Zenon
    <3> HIDE DEF t
    <3>3. f \in Seq(Nat) /\ Len(f) = Len(t) /\ \A i \in 1..Len(t) : f[i] = i
      BY <3>2
    <3> HIDE DEF f
    <3>4. t = f
      BY <3>2, <3>3, SeqEqual, Zenon
    <3>5. QED
      BY <3>4, Zenon DEF t, f
  <2>4. Len(shown[s]) <= guest.out[s]
    <3>1. Pos(s) = Len(shown[s]) + Len(frame.data) \/ Pos(s) = Len(shown[s]) + 0
      BY Zenon DEF Pos
    <3>2. Pos(s) <= guest.out[s]
      BY <2>1, Zenon DEF StreamInv
    <3> DEFINE a == Len(shown[s])
               b == Len(frame.data)
               c == guest.out[s]
    <3>3. a \in Nat /\ b \in Nat /\ c \in Nat
      BY <2>2, Zenon
    <3> HIDE DEF a, b, c
    <3>4. (a + b <= c) \/ (a + 0 <= c)
      BY <3>1, <3>2, Zenon DEF a, b, c
    <3>5. a <= c
      BY <3>3, <3>4
    <3>6. QED
      BY <3>5, Zenon DEF a, c
  <2>5. QED
    BY <2>1, <2>3, <2>4 DEF EndInv
<1>2. OInv /\ [Next]_vars => OInv'
  BY NextOInv
<1>3. QED
  BY <1>1, <1>2, InitOInv, PTL DEF Spec

\* Under the same condition the shim ends with an exit code only if the workload
\* has ended, and with its exit code.
THEOREM ExitStatusTheorem == ~LateOutput => (Spec => []ExitStatusCaptured)
<1> SUFFICES ASSUME ~LateOutput PROVE Spec => []ExitStatusCaptured
  BY Zenon
<1>1. OInv => ExitStatusCaptured
  BY Zenon DEF OInv, EndInv, ExitStatusCaptured
<1>2. OInv /\ [Next]_vars => OInv'
  BY NextOInv, Zenon
<1>3. QED
  BY <1>1, <1>2, InitOInv, PTL DEF Spec

=============================================================================
