----------------------------- MODULE ProxyClient -----------------------------
(***************************************************************************)
(* One connection to the proxy: the client of the runtime (src/proxy.c),   *)
(* or the one of the Go package api, and the goroutine that serves it      *)
(* (proxy/protocol.go).  Requests and responses are frames on a stream     *)
(* socket; the socket of allocateIO travels out of band, with a byte 'F'   *)
(* in front of the response.  Each side sees the bytes of the other in     *)
(* portions of any size, and the connection may end at any byte.           *)
(*                                                                         *)
(* A frame is a header unit [t |-> "h", op, r, n] and n body units         *)
(* [t |-> "b", op, r, n]: r numbers the requests of the connection, op is  *)
(* the command.                                                            *)
(***************************************************************************)
EXTENDS Naturals, Sequences

CONSTANTS
  Kinds,    \* conversations: a subset of DOMAIN Scripts
  MaxBody,  \* bound: units of a response
  Faults    \* what may go wrong, see the uses

ASSUME ProxyClientAssumption ==
  /\ MaxBody \in Nat \ {0}
  /\ Faults \subseteq {"connect", "cloexec", "wide", "proxy", "refuse"}

VARIABLES
  kind,      \* the conversation
  config,    \* what the configuration has
  todo,      \* the steps that remain of it
  pc,        \* where the client is in a command
  socket,    \* proxy->socket is set
  req,       \* the number of requests sent
  got,       \* msg_received
  want,      \* units of the frame that is read
  oob,       \* the request whose file descriptor has been received, or 0
  returned,  \* history: what the commands have returned
  toProxy, toClient,  \* the two directions of the socket
  serve,     \* where protocol.Serve is
  attached,  \* client.vm is set
  parsed,    \* what it has read of a request
  outcome    \* history: how the proxy has handled the requests

clientVars == <<kind, config, todo, pc, socket, req, got, want, oob, returned>>
proxyVars == <<serve, attached, parsed, outcome>>
vars == <<clientVars, toProxy, toClient, proxyVars>>

-----------------------------------------------------------------------------
(* The conversations.                                                       *)

\* cc_oci_vm_launch
LaunchScript == <<"connect", "hello", "startpod", "allocateIO", "disconnect">>
\* cc_pod_container_create
PodScript == <<"connect", "attach", "allocateIO", "disconnect">>
\* cc_oci_vm_connect
ExecScript == <<"connect", "attach", "allocateIO", "execcmd">>
\* cc_proxy_hyper_new_pod_container
StartScript == <<"connect", "attach", "newcontainer", "disconnect">>
\* cc_proxy_hyper_kill_container
KillScript == <<"connect", "attach", "killcontainer", "disconnect">>
\* cc_proxy_hyper_destroy_pod
DestroyScript == <<"connect", "attach", "destroypod", "disconnect">>
\* cc_proxy_cmd_bye
ByeScript == <<"connect", "bye">>
\* A user of the Go client.
GoScript == <<"connect", "attach", "allocateIO", "killcontainer", "bye", "disconnect">>

Scripts ==
  [launch |-> LaunchScript, pod |-> PodScript, exec |-> ExecScript,
   start |-> StartScript, kill |-> KillScript, destroy |-> DestroyScript,
   bye |-> ByeScript, go |-> GoScript]

ASSUME KindsAssumption == Kinds \subseteq DOMAIN Scripts

\* The steps that follow a failed one: only the functions that start or kill a
\* container go on, to disconnect, and the latter not after a failed attach.
AfterFailure(op) ==
  IF \/ kind = "start" /\ op # "disconnect"
     \/ op \in {"killcontainer", "destroypod"} /\ kind \in {"kill", "destroy"}
  THEN <<"disconnect">> ELSE <<>>

\* A command: the id of its request, and what it needs of the configuration.
\* cc_proxy_run_hyper_cmd passes the others on to hyperstart.
Request(id) == [id |-> id, needs |-> {}]
HyperRequest(needs) == [id |-> "hyper", needs |-> needs]

CmdHello == Request("hello")
CmdAttach == Request("attach")
CmdBye == Request("bye")
CmdAllocateIo == Request("allocateIO")
\* cc_proxy_hyper_pod_create: a host name.
HyperPodCreate == HyperRequest({"hostname"})
\* cc_proxy_run_hyper_new_container and its caller: the numbers of the streams,
\* and an environment of the form KEY=VALUE.
HyperNewContainer == HyperRequest({"streams", "env"})
\* cc_proxy_hyper_exec_command: the same.
HyperExecCommand == HyperRequest({"streams", "env"})

Commands ==
  [hello |-> CmdHello, attach |-> CmdAttach, bye |-> CmdBye, allocateIO |-> CmdAllocateIo,
   startpod |-> HyperPodCreate, newcontainer |-> HyperNewContainer,
   execcmd |-> HyperExecCommand, killcontainer |-> HyperRequest({}),
   destroypod |-> HyperRequest({})]

Id(op) == Commands[op].id
IsCommand(op) == op \in DOMAIN Commands
CanSend(op) == IsCommand(op) /\ Commands[op].needs \subseteq config

Init ==
  /\ kind \in Kinds
  /\ config \in {c \in SUBSET {"hostname", "streams", "env"} :
                   kind = "exec" => "streams" \in c}
  /\ todo = Scripts[kind]
  /\ pc = "step" /\ socket = FALSE /\ req = 0
  /\ got = <<>> /\ want = 0 /\ oob = 0
  /\ returned = <<>>
  /\ toProxy = <<>> /\ toClient = <<>>
  /\ serve = "none" /\ attached = FALSE /\ parsed = <<>> /\ outcome = <<>>

\* The end of a step.
Done(ok) == todo' = IF ok THEN Tail(todo) ELSE AfterFailure(Head(todo))

Step(op) == pc = "step" /\ todo # <<>> /\ Head(todo) = op

\* cc_proxy_connect.  A socket that cannot be connected is cleared, one whose
\* close-on-exec flag cannot be set is left in place; a socket that is set is an
\* error.
Connect ==
  /\ Step("connect")
  /\ \/ ~socket /\ socket' = TRUE /\ serve' = "header" /\ Done(TRUE)
     \/ /\ "connect" \in Faults \/ socket
        /\ Done(FALSE) /\ UNCHANGED <<socket, serve>>
     \/ "cloexec" \in Faults /\ Done(FALSE) /\ socket' = TRUE /\ UNCHANGED serve
  /\ UNCHANGED <<kind, config, pc, req, got, want, oob, returned, toProxy, toClient,
                 attached, parsed, outcome>>

\* cc_proxy_disconnect: without a connection an error.  What has not been read
\* is gone.
Disconnect ==
  /\ Step("disconnect")
  /\ Done(socket)
  /\ socket' = FALSE
  /\ toClient' = <<>>
  /\ UNCHANGED <<kind, config, pc, req, got, want, oob, returned, toProxy, proxyVars>>

-----------------------------------------------------------------------------
(* cc_proxy_run_cmd                                                         *)

Closed == serve \in {"closed", "reset"}

Unit(t, op, r, n) == [t |-> t, op |-> op, r |-> r, n |-> n]

Frame(op, r, n) == <<Unit("h", op, r, n)>> \o [i \in 1..n |-> Unit("b", op, r, n)]

\* The commands that pass a file descriptor back.
ExpectsFd == Head(todo) = "allocateIO"

\* A command whose arguments are missing fails before anything is sent.
Refuse ==
  /\ pc = "step" /\ todo # <<>> /\ IsCommand(Head(todo)) /\ ~CanSend(Head(todo))
  /\ Done(FALSE)
  /\ UNCHANGED <<kind, config, pc, socket, req, got, want, oob, returned, toProxy,
                 toClient, proxyVars>>

\* cc_proxy_msg_write, the callback that the socket is writable.  The length is
\* counted in characters, so that the last bytes of a message with a character
\* of several bytes are not sent: it has two units, of which one goes out.  When
\* the write fails nobody leaves the main loop.
SendRequest ==
  /\ pc = "step" /\ todo # <<>> /\ CanSend(Head(todo))
  /\ got' = <<>> /\ want' = 0
  /\ \/ /\ ~Closed /\ req' = req + 1
        /\ \/ toProxy' = toProxy \o Frame(Head(todo), req + 1, 2)
           \/ /\ "wide" \in Faults /\ kind # "go"
              /\ toProxy' = toProxy \o Frame(Head(todo), req + 1, 1)
        /\ pc' = IF ExpectsFd THEN "fd" ELSE "header"
        /\ UNCHANGED <<todo, returned>>
     \/ /\ Closed /\ kind # "go"
        /\ pc' = "hung" /\ UNCHANGED <<todo, req, returned, toProxy>>
     \/ /\ Closed /\ kind = "go"
        /\ Done(FALSE) /\ UNCHANGED <<pc, req, returned, toProxy>>
  /\ UNCHANGED <<kind, config, socket, oob, toClient, proxyVars>>

\* The response of request r, if that is what the units are.
IsResponse(units, r) ==
  units # <<>> /\ \A i \in DOMAIN units :
     units[i] = Unit("b", units[1].op, r, Len(units))

\* cc_proxy_hyper_check_response, after the main loop: a response that is not
\* complete cannot be parsed.  In the end the command returns.
Return(units) ==
  LET parses == units # <<>> /\ IsResponse(units, Head(units).r)
      ok == parses /\ outcome[Head(units).r] = "success"
  IN /\ pc' = "step"
     /\ Done(ok)
     /\ returned' = Append(returned, [op |-> Head(todo), r |-> req, ok |-> ok,
                              from |-> IF parses THEN Head(units).r ELSE 0,
                              fd |-> IF ExpectsFd THEN oob ELSE 0])

\* The portions recvmsg may return: it stops behind a file descriptor.
Portions ==
  {k \in 1..Len(toClient) : \A i \in 1..k - 1 : toClient[i].t # "F"}

Take(k) == toClient' = SubSeq(toClient, k + 1, Len(toClient))

\* Mutant of ReadOob: the file descriptor is not taken out of the message.
ReadOobLost ==
  /\ pc = "fd" /\ kind # "go" /\ toClient # <<>>
  /\ \E k \in Portions :
        /\ Take(k)
        /\ \/ /\ Head(toClient).t = "F"
              /\ UNCHANGED oob /\ pc' = "header"
              /\ UNCHANGED <<todo, returned>>
           \/ /\ Head(toClient).t # "F"
              /\ UNCHANGED oob /\ Return(<<>>)
  /\ UNCHANGED <<kind, config, socket, req, got, want, toProxy, proxyVars>>

\* cc_proxy_msg_read when a file descriptor is expected first: the response of a
\* request that has failed comes without one, and the loop ends with no message.
ReadOob ==
  /\ pc = "fd" /\ kind # "go" /\ toClient # <<>>
  /\ \E k \in Portions :
        /\ Take(k)
        /\ \/ /\ Head(toClient).t = "F"
              /\ oob' = Head(toClient).r /\ pc' = "header"
              /\ UNCHANGED <<todo, returned>>
           \/ /\ Head(toClient).t # "F"
              /\ UNCHANGED oob /\ Return(<<>>)
  /\ UNCHANGED <<kind, config, socket, req, got, want, toProxy, proxyVars>>

\* The first part of the response, with its header, and perhaps all of it.
ReadFirst ==
  /\ pc = "header" /\ kind # "go" /\ toClient # <<>>
  /\ \E k \in Portions :
        LET body == SubSeq(toClient, 2, k) IN
        /\ Take(k)
        /\ want' = Head(toClient).n
        /\ \/ /\ Len(body) >= want' /\ Return(body) /\ got' = <<>>
           \/ /\ Len(body) < want' /\ got' = body /\ pc' = "rest"
              /\ UNCHANGED <<todo, returned>>
  /\ UNCHANGED <<kind, config, socket, req, oob, toProxy, proxyVars>>

\* Mutant of ReadRest: "no data yet" always ends the loop.
ReadRestStops ==
  /\ pc = "rest" /\ kind # "go"
  /\ \/ /\ \E k \in Portions : Take(k) /\ got' = got \o SubSeq(toClient, 1, k)
        /\ UNCHANGED <<pc, todo, returned>>
     \/ /\ toClient = <<>> /\ (~Closed \/ serve = "reset")
        /\ Return(got) /\ UNCHANGED <<got, toClient>>
     \/ /\ toClient = <<>> /\ serve = "closed"
        /\ pc' = "hung" /\ UNCHANGED <<got, todo, returned, toClient>>
  /\ UNCHANGED <<kind, config, socket, req, want, oob, toProxy, proxyVars>>

\* Mutant of ReadRest: off by one in the bytes that are missing.
ReadRestWaits ==
  /\ pc = "rest" /\ kind # "go"
  /\ \/ /\ \E k \in Portions : Take(k) /\ got' = got \o SubSeq(toClient, 1, k)
        /\ UNCHANGED <<pc, todo, returned>>
     \/ /\ toClient = <<>> /\ ((~Closed /\ Len(got) > want) \/ serve = "reset")
        /\ Return(got) /\ UNCHANGED <<got, toClient>>
     \/ /\ toClient = <<>> /\ serve = "closed"
        /\ pc' = "hung" /\ UNCHANGED <<got, todo, returned, toClient>>
  /\ UNCHANGED <<kind, config, socket, req, want, oob, toProxy, proxyVars>>

\* The missing bytes: recvmsg is called until it fails.  "No data yet" ends the
\* loop when nothing is missing, and so does an error; the end of the connection
\* is not an error, and the loop goes on for ever.
ReadRest ==
  /\ pc = "rest" /\ kind # "go"
  /\ \/ /\ \E k \in Portions : Take(k) /\ got' = got \o SubSeq(toClient, 1, k)
        /\ UNCHANGED <<pc, todo, returned>>
     \/ /\ toClient = <<>> /\ ((~Closed /\ Len(got) >= want) \/ serve = "reset")
        /\ Return(got) /\ UNCHANGED <<got, toClient>>
     \/ /\ toClient = <<>> /\ serve = "closed"
        /\ pc' = "hung" /\ UNCHANGED <<got, todo, returned, toClient>>
  /\ UNCHANGED <<kind, config, socket, req, want, oob, toProxy, proxyVars>>

\* The connection ends before the first byte: the watch is removed, and nobody
\* leaves the main loop.
ReadNothing ==
  /\ pc \in {"fd", "header"} /\ kind # "go"
  /\ toClient = <<>> /\ Closed
  /\ pc' = "hung"
  /\ UNCHANGED <<kind, config, todo, socket, req, got, want, oob, returned, toProxy,
                 toClient, proxyVars>>

-----------------------------------------------------------------------------
(* The Go client: ReadFd and ReadMessage return every error to the caller,  *)
(* who closes the connection.                                               *)

GoReadFd ==
  /\ pc = "fd" /\ kind = "go" /\ toClient # <<>>
  /\ toClient' = Tail(toClient)
  /\ \/ /\ Head(toClient).t = "F"
        /\ oob' = Head(toClient).r /\ pc' = "header"
        /\ UNCHANGED <<todo, returned>>
     \/ /\ Head(toClient).t # "F"
        /\ UNCHANGED oob /\ Return(<<>>)
  /\ UNCHANGED <<kind, config, socket, req, got, want, toProxy, proxyVars>>

\* ReadMessage reads the header, then exactly as many units as it announces.
GoReadMessage ==
  /\ pc \in {"header", "rest"} /\ kind = "go" /\ toClient # <<>>
  /\ toClient' = Tail(toClient)
  /\ LET u == Head(toClient) IN
     \/ /\ pc = "header" /\ want' = u.n /\ pc' = "rest"
        /\ UNCHANGED <<got, todo, returned>>
     \/ /\ pc = "rest" /\ Len(got) + 1 < want
        /\ got' = Append(got, u) /\ UNCHANGED <<want, pc, todo, returned>>
     \/ /\ pc = "rest" /\ Len(got) + 1 = want
        /\ Return(Append(got, u)) /\ got' = <<>> /\ UNCHANGED want
  /\ UNCHANGED <<kind, config, socket, req, oob, toProxy, proxyVars>>

GoReadFails ==
  /\ pc \in {"fd", "header", "rest"} /\ kind = "go"
  /\ toClient = <<>> /\ Closed
  /\ UNCHANGED oob /\ Return(<<>>)
  /\ UNCHANGED <<kind, config, socket, req, got, want, toProxy, toClient, proxyVars>>

-----------------------------------------------------------------------------
(* protocol.Serve                                                           *)

Server == UNCHANGED clientVars

\* ReadMessage: a request is taken once all of it is there; one that is not
\* JSON, or the end of the connection, closes it.
ServeRead ==
  /\ serve = "header"
  /\ \/ /\ toProxy # <<>> /\ toProxy' = Tail(toProxy)
        /\ LET p == Append(parsed, Head(toProxy)) IN
           \/ Len(p) <= Head(p).n /\ parsed' = p /\ UNCHANGED serve
           \/ /\ Len(p) = Head(p).n + 1 /\ Head(p).n = 2
              /\ parsed' = p /\ serve' = "handle"
           \/ /\ Len(p) = Head(p).n + 1 /\ Head(p).n < 2
              /\ parsed' = <<>> /\ serve' = "closed"
     \/ /\ toProxy = <<>> /\ ~socket
        /\ serve' = "closed" /\ UNCHANGED <<toProxy, parsed>>
  /\ UNCHANGED <<toClient, attached, outcome>> /\ Server

\* handleRequest and the handlers: hyper and allocateIO need a VM, which hello
\* and attach set and bye clears; all may fail for a reason of their own.  Only a
\* successful allocateIO has a file, and WriteFd sends it first.
ServeHandle ==
  /\ serve = "handle"
  /\ LET op == Head(parsed).op IN
     \/ /\ Id(op) \in {"hyper", "allocateIO"} => attached
        /\ outcome' = Append(outcome, "success")
        /\ attached' = ((attached \/ op \in {"hello", "attach"}) /\ op # "bye")
        /\ toClient' = IF socket /\ op = "allocateIO"
                       THEN Append(toClient, [Head(parsed) EXCEPT !.t = "F"]) ELSE toClient
     \/ /\ "refuse" \in Faults \/ (Id(op) \in {"hyper", "allocateIO"} /\ ~attached)
        /\ outcome' = Append(outcome, "failure")
        /\ UNCHANGED <<attached, toClient>>
  /\ serve' = "respond"
  /\ UNCHANGED <<toProxy, parsed>> /\ Server

\* WriteMessage: the header, and the units of the body.
ServeRespond ==
  /\ serve = "respond"
  /\ \/ /\ socket
        /\ \E n \in 1..MaxBody :
              LET response == Frame(Head(parsed).op, Head(parsed).r, n) IN
              toClient' = Append(toClient, Head(response)) /\ parsed' = Tail(response)
        /\ serve' = "body"
     \/ ~socket /\ serve' = "closed" /\ UNCHANGED <<toClient, parsed>>
  /\ UNCHANGED <<toProxy, attached, outcome>> /\ Server

ServeBody ==
  /\ serve = "body"
  /\ \/ /\ socket
        /\ toClient' = Append(toClient, Head(parsed)) /\ parsed' = Tail(parsed)
        /\ serve' = IF Len(parsed) = 1 THEN "header" ELSE "body"
     \/ ~socket /\ serve' = "closed" /\ UNCHANGED <<toClient, parsed>>
  /\ UNCHANGED <<toProxy, attached, outcome>> /\ Server

\* The proxy dies.  With a request unread the client gets an error instead of
\* the end of the connection.
ProxyDies ==
  /\ "proxy" \in Faults /\ serve \notin {"none", "closed", "reset"}
  /\ serve' = IF toProxy = <<>> THEN "closed" ELSE "reset"
  /\ UNCHANGED <<attached, parsed, outcome, toProxy, toClient>> /\ Server

-----------------------------------------------------------------------------
Client == Connect \/ Disconnect \/ Refuse \/ SendRequest \/ ReadOob \/ ReadFirst \/ ReadRest
          \/ ReadNothing \/ GoReadFd \/ GoReadMessage \/ GoReadFails

Serve == ServeRead \/ ServeHandle \/ ServeRespond \/ ServeBody

Next == Client \/ Serve \/ ProxyDies

Spec == Init /\ [][Next]_vars

\* Both processes run.
FairSpec == Spec /\ WF_vars(Client) /\ WF_vars(Serve)

-----------------------------------------------------------------------------
\* A command that succeeds has read the response to its own request, complete and
\* whatever the portions in which it came, and the proxy's handler has succeeded;
\* allocateIO returns the socket that was allocated for this request.
ResponseMatches ==
  \A i \in DOMAIN returned :
     LET c == returned[i] IN
     c.ok => /\ c.from = c.r /\ outcome[c.r] = "success"
             /\ c.op = "allocateIO" => c.fd = c.r

\* A success the proxy has reported is not lost: a command only fails if the
\* handler has refused it or the connection has ended.
FailureHasReason ==
  \A i \in DOMAIN returned :
     LET c == returned[i] IN
     ~c.ok => Closed \/ (c.r <= Len(outcome) /\ outcome[c.r] = "failure")

\* A command returns, as long as the connection does not end under it.
CommandReturns == pc \in {"fd", "header", "rest"} ~> pc = "step" \/ Closed

=============================================================================
