-------------------------------- MODULE Shim --------------------------------
(***************************************************************************)
(* cc-shim: the process that stands for a workload on the host.  One poll  *)
(* loop forwards signals to the proxy's control socket, the output frames  *)
(* of the proxy's I/O socket to stdout and stderr, and stdin to the I/O    *)
(* socket; it ends with the exit code hyperstart sends.  Signals arrive at *)
(* any time, the two sockets deliver their bytes in any portions, and the  *)
(* proxy may go away.                                                      *)
(*                                                                         *)
(* A frame on the I/O socket is a header unit <<"h", stream, n, is>> and n *)
(* data units <<"d", stream, value, is>>: n = 0 is the end of a stream and *)
(* n = 1 may be an exit code.  What the frame is, "out" or "code", is not  *)
(* on the wire, and the shim does not look at it.                          *)
(***************************************************************************)
EXTENDS Naturals, Sequences, Functions

CONSTANTS
  Stdins,      \* what stdin may be: a subset of {"tty", "pipe", "closed"}
  PipeCap,     \* signals the self-pipe holds
  SockCap,     \* units the I/O socket holds
  MaxEvents,   \* bound: signals, portions of input and units of output
  LateOutput,  \* a stream may go on after the end of the other one
  Faults       \* a subset of {"stdout", "proxy"}

ASSUME ShimAssumption ==
  /\ Stdins \subseteq {"tty", "pipe", "closed"}
  /\ {PipeCap, SockCap, MaxEvents} \subseteq Nat
  /\ LateOutput \in BOOLEAN
  /\ Faults \subseteq {"stdout", "proxy"}

VARIABLES
  stdin,    \* what stdin is
  status,   \* "run", or how the shim ended: "failure" or "exit"
  code,     \* the exit code
  todo,     \* the handlers that remain of this turn of the loop
  sigpipe,  \* signal_pipe_fd
  caught,   \* the signals signal_handler has written to the pipe, in order
  sent,     \* the messages written to the control socket, and which signal
            \* (history: its place in caught) each is for
  answers,  \* the proxy's answers, unread
  io,       \* the units the proxy has passed on, unread at proxy_io_fd
  frame,    \* the frame read_IO_message is reading
  exiting,  \* shim->exiting
  shown,    \* what has been written to stdout and stderr
  dropped,  \* a write to stdout or stderr has failed
  input,    \* portions of input typed so far, and whether it has ended
  fwd,      \* the stdin frames made for proxy_io_fd (lost if the proxy is gone)
  polled,   \* stdin is in poll_fds
  up,       \* the proxy is there
  guest     \* the workload: what it wrote, which streams it closed, its end

vars == <<stdin, status, code, todo, sigpipe, caught, sent, answers, io, frame,
          exiting, shown, dropped, input, fwd, polled, up, guest>>

sigVars == <<sigpipe, caught, sent, answers>>
outVars == <<code, frame, exiting, shown, dropped>>
inVars == <<input, fwd, polled>>
envVars == <<up, guest>>

Out == 0  \* the stream io_seq_no, shown on stdout
Err == 1  \* the stream io_seq_no + 1, shown on stderr

\* A terminal has one stream, other workloads two.
Streams == IF stdin = "tty" THEN {Out} ELSE {Out, Err}

ExitCode == 7
NoFrame == [stream |-> Out, want |-> 0, data |-> <<>>, read |-> FALSE]
Signals == {"winch", "term"}

-----------------------------------------------------------------------------
\* main, up to the loop.  With stdin closed the self-pipe gets descriptor 0 and
\* is polled in its place, too.
Init ==
  /\ stdin \in Stdins
  /\ status = "run" /\ code = 0
  /\ todo = <<>>
  /\ sigpipe = <<>> /\ caught = <<>> /\ sent = <<>> /\ answers = 0
  /\ io = <<>>
  /\ frame = NoFrame /\ exiting = FALSE
  /\ shown = [s \in {Out, Err} |-> <<>>] /\ dropped = FALSE
  /\ input = [n |-> 0, eof |-> FALSE] /\ fwd = <<>> /\ polled = TRUE
  /\ up = TRUE
  /\ guest = [out |-> [s \in {Out, Err} |-> 0], eof |-> {}, code |-> FALSE]

\* The descriptors in the order of the loop.
Handlers == <<"signals", "output", "ctl", "stdin">>

\* What poll finds: data, or the end of the connection.
Readable(h) ==
  CASE h = "signals" -> sigpipe # <<>>
    [] h = "output" -> io # <<>> \/ ~up
    [] h = "ctl" -> answers > 0 \/ ~up
    [] h = "stdin" -> /\ polled
                      /\ IF stdin = "closed" THEN sigpipe # <<>>
                         ELSE Len(fwd) < input.n \/ input.eof

Poll ==
  /\ status = "run" /\ todo = <<>>
  /\ \E h \in Range(Handlers) : Readable(h)
  /\ todo' = SelectSeq(Handlers, Readable)
  /\ UNCHANGED <<stdin, status, io, sigVars, outVars, inVars, envVars>>

Handling(h) == status = "run" /\ todo # <<>> /\ Head(todo) = h

Done == todo' = Tail(todo)

\* err_exit, exit.
Exit(s) == status' = s /\ todo' = <<>>

\* What has come in from outside so far.
Events == Len(caught) + input.n + guest.out[Out] + guest.out[Err]

-----------------------------------------------------------------------------
\* signal_handler runs between any two steps of the loop; a full pipe drops
\* the signal.
Raise ==
  /\ status = "run"
  /\ Events < MaxEvents
  /\ \E s \in Signals :
        IF Len(sigpipe) < PipeCap
        THEN sigpipe' = Append(sigpipe, s) /\ caught' = Append(caught, s)
        ELSE UNCHANGED <<sigpipe, caught>>
  /\ UNCHANGED <<stdin, status, todo, sent, answers, io, outVars, inVars, envVars>>

\* The message for a signal: the new size of the window, or killcontainer.
Message(s) == IF s = "winch" THEN "winsize" ELSE "killcontainer"

Forwarded(s) == s = "winch" => stdin = "tty"

\* The message for the signal s at the head of the pipe.
MessageFor(s) == [msg |-> Message(s), of |-> Len(caught) - Len(sigpipe) + 1]

\* Mutant of HandleSignal: what has queued up is taken for one signal.
HandleSignalOnce ==
  /\ Handling("signals")
  /\ \/ /\ sigpipe # <<>>
        /\ sigpipe' = <<>>
        /\ sent' = IF up /\ Forwarded(Head(sigpipe))
                   THEN Append(sent, MessageFor(Head(sigpipe))) ELSE sent
        /\ UNCHANGED todo
     \/ sigpipe = <<>> /\ Done /\ UNCHANGED <<sigpipe, sent>>
  /\ UNCHANGED <<stdin, status, caught, answers, io, outVars, inVars, envVars>>

\* handle_signals: one signal after the other until the pipe is empty.  The
\* size of a window cannot be had without a terminal, and the signal is skipped;
\* a message that cannot be written is dropped.
HandleSignal ==
  /\ Handling("signals")
  /\ \/ /\ sigpipe # <<>>
        /\ sigpipe' = Tail(sigpipe)
        /\ sent' = IF up /\ Forwarded(Head(sigpipe))
                   THEN Append(sent, MessageFor(Head(sigpipe))) ELSE sent
        /\ UNCHANGED todo
     \/ sigpipe = <<>> /\ Done /\ UNCHANGED <<sigpipe, sent>>
  /\ UNCHANGED <<stdin, status, caught, answers, io, outVars, inVars, envVars>>

-----------------------------------------------------------------------------
\* Mutant of ReadOutput: off by one in the units that remain.
ReadOutputShort ==
  /\ Handling("output") /\ ~frame.read
  /\ \/ /\ io # <<>> /\ io' = Tail(io)
        /\ LET u == Head(io) IN
           frame' = IF frame.want = Len(frame.data)
                    THEN [stream |-> u[2], want |-> u[3], data |-> <<>>,
                          read |-> u[3] = 0]
                    ELSE [frame EXCEPT !.data = Append(@, u[3]), !.read = TRUE]
        /\ UNCHANGED <<status, todo>>
     \/ /\ io = <<>> /\ ~up
        /\ Exit("failure") /\ UNCHANGED <<io, frame>>
  /\ UNCHANGED <<stdin, code, exiting, shown, dropped, sigVars, inVars, envVars>>

\* read_IO_message: the header first, then as many units as it announces, in
\* the portions in which they arrive.
ReadOutput ==
  /\ Handling("output") /\ ~frame.read
  /\ \/ /\ io # <<>> /\ io' = Tail(io)
        /\ LET u == Head(io) IN
           frame' = IF frame.want = Len(frame.data)
                    THEN [stream |-> u[2], want |-> u[3], data |-> <<>>,
                          read |-> u[3] = 0]
                    ELSE [frame EXCEPT !.data = Append(@, u[3]),
                             !.read = Len(frame.data) + 1 = frame.want]
        /\ UNCHANGED <<status, todo>>
     \/ /\ io = <<>> /\ ~up
        /\ Exit("failure") /\ UNCHANGED <<io, frame>>
  /\ UNCHANGED <<stdin, code, exiting, shown, dropped, sigVars, inVars, envVars>>

\* Mutant of HandleOutput: a single unit is taken for an exit code at any time.
HandleOutputAnyByte ==
  /\ Handling("output") /\ frame.read
  /\ frame' = NoFrame
  /\ \/ /\ ~exiting /\ frame.want = 0
        /\ exiting' = TRUE /\ Done
        /\ UNCHANGED <<status, code, shown, dropped>>
     \/ /\ frame.want = 1
        /\ Exit("exit") /\ code' = frame.data[1]
        /\ UNCHANGED <<exiting, shown, dropped>>
     \/ /\ ~(~exiting /\ frame.want = 0) /\ frame.want # 1
        /\ \/ shown' = [shown EXCEPT ![frame.stream] = @ \o frame.data]
              /\ UNCHANGED dropped
           \/ "stdout" \in Faults /\ dropped' = TRUE /\ UNCHANGED shown
        /\ Done
        /\ UNCHANGED <<status, code, exiting>>
  /\ UNCHANGED <<stdin, io, sigVars, inVars, envVars>>

\* Mutant of HandleOutput: the end of a stream is not recorded.
HandleOutputForgets ==
  /\ Handling("output") /\ frame.read
  /\ frame' = NoFrame
  /\ \/ /\ ~exiting /\ frame.want = 0
        /\ exiting' = FALSE /\ Done
        /\ UNCHANGED <<status, code, shown, dropped>>
     \/ /\ exiting /\ frame.want = 1
        /\ Exit("exit") /\ code' = frame.data[1]
        /\ UNCHANGED <<exiting, shown, dropped>>
     \/ /\ ~(~exiting /\ frame.want = 0) /\ ~(exiting /\ frame.want = 1)
        /\ \/ shown' = [shown EXCEPT ![frame.stream] = @ \o frame.data]
              /\ UNCHANGED dropped
           \/ "stdout" \in Faults /\ dropped' = TRUE /\ UNCHANGED shown
        /\ Done
        /\ UNCHANGED <<status, code, exiting>>
  /\ UNCHANGED <<stdin, io, sigVars, inVars, envVars>>

\* handle_proxy_output with the whole frame: the end of a stream sets exiting, a
\* single unit after that is the exit code, anything else is written out.  A
\* write error drops the rest of the frame.
HandleOutput ==
  /\ Handling("output") /\ frame.read
  /\ frame' = NoFrame
  /\ \/ /\ ~exiting /\ frame.want = 0
        /\ exiting' = TRUE /\ Done
        /\ UNCHANGED <<status, code, shown, dropped>>
     \/ /\ exiting /\ frame.want = 1
        /\ Exit("exit") /\ code' = frame.data[1]
        /\ UNCHANGED <<exiting, shown, dropped>>
     \/ /\ ~(~exiting /\ frame.want = 0) /\ ~(exiting /\ frame.want = 1)
        /\ \/ shown' = [shown EXCEPT ![frame.stream] = @ \o frame.data]
              /\ UNCHANGED dropped
           \/ "stdout" \in Faults /\ dropped' = TRUE /\ UNCHANGED shown
        /\ Done
        /\ UNCHANGED <<status, code, exiting>>
  /\ UNCHANGED <<stdin, io, sigVars, inVars, envVars>>

\* handle_proxy_ctl: the answers are only logged.
HandleCtl ==
  /\ Handling("ctl")
  /\ \/ answers > 0 /\ answers' = 0 /\ Done /\ UNCHANGED status
     \/ answers = 0 /\ ~up /\ Exit("failure") /\ UNCHANGED answers
  /\ UNCHANGED <<stdin, sigpipe, caught, sent, io, outVars, inVars, envVars>>

\* Mutant of HandleStdin: whatever is read takes stdin out of the poll set.
HandleStdinOnce ==
  /\ Handling("stdin") /\ Done
  /\ \/ /\ stdin # "closed" /\ Len(fwd) < input.n
        /\ fwd' = Append(fwd, <<"in", Len(fwd) + 1>>) /\ polled' = FALSE
        /\ UNCHANGED sigpipe
     \/ /\ stdin # "closed" /\ Len(fwd) = input.n /\ input.eof
        /\ fwd' = Append(fwd, <<"eof", Len(fwd) + 1>>) /\ polled' = FALSE
        /\ UNCHANGED sigpipe
     \/ /\ stdin = "closed" /\ sigpipe # <<>>
        /\ fwd' = Append(fwd, <<"signal", Len(fwd) + 1>>) /\ sigpipe' = <<>>
        /\ UNCHANGED polled
     \/ /\ stdin = "closed" /\ sigpipe = <<>>
        /\ UNCHANGED <<fwd, polled, sigpipe>>
  /\ UNCHANGED <<stdin, status, caught, sent, answers, io, outVars, input, envVars>>

\* handle_stdin: a portion of input, or its end, which takes stdin out of the
\* poll set.  With stdin closed it reads the self-pipe: nothing, since the
\* signals have just been read, or a signal that has come in between.
HandleStdin ==
  /\ Handling("stdin") /\ Done
  /\ \/ /\ stdin # "closed" /\ Len(fwd) < input.n
        /\ fwd' = Append(fwd, <<"in", Len(fwd) + 1>>)
        /\ UNCHANGED <<polled, sigpipe>>
     \/ /\ stdin # "closed" /\ Len(fwd) = input.n /\ input.eof
        /\ fwd' = Append(fwd, <<"eof", Len(fwd) + 1>>) /\ polled' = FALSE
        /\ UNCHANGED sigpipe
     \/ /\ stdin = "closed" /\ sigpipe # <<>>
        /\ fwd' = Append(fwd, <<"signal", Len(fwd) + 1>>) /\ sigpipe' = <<>>
        /\ UNCHANGED polled
     \/ /\ stdin = "closed" /\ sigpipe = <<>>
        /\ UNCHANGED <<fwd, polled, sigpipe>>
  /\ UNCHANGED <<stdin, status, caught, sent, answers, io, outVars, input, envVars>>

-----------------------------------------------------------------------------
(* The environment.                                                         *)

Env == UNCHANGED <<stdin, status, todo, sigpipe, caught, sent, outVars, fwd, polled>>

\* The user types, or closes the input.
Type ==
  /\ stdin # "closed" /\ ~input.eof
  /\ \/ Events < MaxEvents /\ input' = [input EXCEPT !.n = @ + 1]
     \/ input' = [input EXCEPT !.eof = TRUE]
  /\ UNCHANGED <<answers, io, envVars>> /\ Env

\* The frame of stream s with the values d.
Frame(is, s, d) ==
  <<<<"h", s, Len(d), is>>>> \o [i \in 1..Len(d) |-> <<"d", s, d[i], is>>]

\* The proxy passes on a frame of hyperstart when there is room for it.
PassOn(is, s, d) ==
  up /\ Len(io) + 1 + Len(d) <= SockCap /\ io' = io \o Frame(is, s, d)

\* The workload writes one or two units.
GuestWrite ==
  /\ ~guest.code
  /\ \E s \in Streams \ guest.eof, n \in 1..2 :
        /\ guest.eof # {} => LateOutput
        /\ Events + n <= MaxEvents
        /\ PassOn("out", s, [i \in 1..n |-> guest.out[s] + i])
        /\ guest' = [guest EXCEPT !.out[s] = @ + n]
  /\ UNCHANGED <<answers, input, up>> /\ Env

\* A stream ends.
GuestEof ==
  /\ \E s \in Streams \ guest.eof :
        /\ PassOn("out", s, <<>>)
        /\ guest' = [guest EXCEPT !.eof = @ \cup {s}]
  /\ UNCHANGED <<answers, input, up>> /\ Env

\* The workload has ended: its exit code follows the ends of its streams.
GuestExit ==
  /\ guest.eof = Streams /\ ~guest.code
  /\ PassOn("code", Out, <<ExitCode>>)
  /\ guest' = [guest EXCEPT !.code = TRUE]
  /\ UNCHANGED <<answers, input, up>> /\ Env

\* The proxy answers a control message.
Answer ==
  /\ up /\ answers < 1 /\ sent # <<>> /\ answers' = answers + 1
  /\ UNCHANGED <<io, input, envVars>> /\ Env

\* The proxy ends: the last frames may be cut off anywhere.
ProxyEnds ==
  /\ "proxy" \in Faults /\ up /\ up' = FALSE
  /\ \E k \in 0..Len(io) : io' = SubSeq(io, 1, k)
  /\ UNCHANGED <<answers, input, guest>> /\ Env

-----------------------------------------------------------------------------
Loop == Poll \/ HandleSignal \/ ReadOutput \/ HandleOutput \/ HandleCtl
        \/ HandleStdin

Environment == Type \/ GuestWrite \/ GuestEof \/ GuestExit \/ Answer \/ ProxyEnds

Next == Loop \/ Raise \/ Environment

Spec == Init /\ [][Next]_vars

\* The shim is scheduled.
FairSpec == Spec /\ WF_vars(Loop)

-----------------------------------------------------------------------------
\* The signals the shim has caught are sent to the proxy one by one and in
\* order, whenever they come in, as killcontainer or as a new window size: each
\* message is for a signal that has been read from the pipe and comes after the
\* messages for the signals before it, and while the proxy is there none is
\* left out.  (With stdin closed the loop may take a signal for input.)
SignalsInOrder ==
  LET handled == Len(caught) - Len(sigpipe) IN
  /\ sigpipe = SubSeq(caught, handled + 1, Len(caught))
  /\ \A i \in 1..Len(sent) :
        /\ sent[i].of \in 1..handled
        /\ Forwarded(caught[sent[i].of]) /\ sent[i].msg = Message(caught[sent[i].of])
        /\ \A j \in 1..(i - 1) : sent[j].of < sent[i].of
  /\ up /\ stdin # "closed" =>
        \A k \in 1..handled : Forwarded(caught[k]) => \E i \in 1..Len(sent) : sent[i].of = k

\* stdout and stderr get what the workload wrote to them, in order, once and
\* whatever the portions in which it arrives; when the shim ends with an exit
\* code they have got all of it.
OutputShown ==
  ~dropped =>
    \A s \in {Out, Err} :
       /\ shown[s] = [i \in 1..Len(shown[s]) |-> i]
       /\ Len(shown[s]) <= guest.out[s]
       /\ status = "exit" => Len(shown[s]) = guest.out[s]

\* "The shim should capture the exit status of the container and exit with that
\* exit code" (shim/README.md:24).  The code is told from output by the length
\* of its frame and by the end of a stream before it: this holds as long as no
\* stream goes on after the end of the other.
ExitStatusCaptured == status = "exit" => guest.code /\ code = ExitCode

\* The shim ends once the workload has.
ExitReported == guest.code ~> status # "run"

\* The loop gets to stdin last, and to one portion of it in a turn: whatever
\* signals, output and answers come in between, all of the input is passed on and
\* its end after it, which the workload may be waiting for; or the shim ends.
InputForwarded ==
  input.eof ~> \/ Len(fwd) = input.n + 1 /\ fwd[Len(fwd)][1] = "eof"
              \/ status # "run"

=============================================================================
