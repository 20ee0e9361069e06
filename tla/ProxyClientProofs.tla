------------------------- MODULE ProxyClientProofs --------------------------
(***************************************************************************)
(* Proofs about ProxyClient, for any of its conversations, any length of   *)
(* the responses and any faults.                                           *)
(***************************************************************************)
EXTENDS ProxyClient, SequenceTheorems, TLAPS

Ops == {"hello", "attach", "bye", "allocateIO", "startpod", "newcontainer", "execcmd",
        "killcontainer", "destroypod"}

Steps == Ops \cup {"connect", "disconnect"}

FrameUnits == [t : {"h", "b", "F"}, op : Ops, r : Nat, n : Nat]

Returns == [op : Steps, r : Nat, ok : BOOLEAN, from : Nat, fd : Nat]

\* The types of the variables of ProxyClient.
PTypeOK ==
  /\ todo \in Seq(Steps) /\ pc \in {"step", "fd", "header", "rest", "hung"}
  /\ socket \in BOOLEAN
  /\ req \in Nat /\ want \in Nat /\ oob \in Nat
  /\ got \in Seq(FrameUnits) /\ toProxy \in Seq(FrameUnits)
  /\ toClient \in Seq(FrameUnits) /\ parsed \in Seq(FrameUnits)
  /\ returned \in Seq(Returns)
  /\ serve \in {"none", "header", "handle", "respond", "body", "closed", "reset"}
  /\ serve \in {"handle", "respond", "body"} => parsed # <<>>
  /\ outcome \in Seq({"success", "failure"})

Busy == pc \in {"fd", "header", "rest"}

\* A command is still to be sent.
MoreToSend == \E i \in 1..Len(todo) : todo[i] \in Ops

Fresh == todo # <<>> /\ Head(todo) = "connect"

\* A conversation begins by connecting and ends by disconnecting, if it does.
Shape ==
  \A i \in 1..Len(todo) : \/ todo[i] \in Ops
                          \/ todo[i] = "disconnect" /\ i = Len(todo)
                          \/ todo[i] = "connect" /\ i = 1

\* Commands are sent on a connection; nothing has happened before there is one.
Plan ==
  /\ Shape
  /\ pc # "step" => todo # <<>> /\ Head(todo) \in Ops
  /\ Busy => req # 0
  /\ MoreToSend /\ ~Fresh => socket /\ serve # "none"
  /\ Fresh => /\ ~socket /\ serve = "none" /\ req = 0 /\ returned = <<>> /\ pc = "step"
              /\ toProxy = <<>> /\ toClient = <<>> /\ parsed = <<>> /\ outcome = <<>>

\* Between two commands nothing of the one before is left, at either end or on the
\* way: the protocol is in step.
Idle ==
  pc = "step" /\ MoreToSend /\ ~Closed /\ ~Fresh =>
     /\ toProxy = <<>> /\ toClient = <<>> /\ parsed = <<>>
     /\ serve = "header" /\ Len(outcome) = req

Own(u) == u.op = Head(todo) /\ u.r = req

Waiting == pc = IF ExpectsFd THEN "fd" ELSE "header"

\* The request is on its way: protocol.Serve has read the first units of it.
Asked ==
  /\ serve = "header" /\ Len(outcome) + 1 = req /\ toClient = <<>> /\ got = <<>> /\ Waiting
  /\ \E n \in {1, 2} :
       /\ Len(parsed) + Len(toProxy) = n + 1 /\ Len(parsed) <= n
       /\ \A i \in 1..Len(parsed) : Own(parsed[i]) /\ parsed[i].n = n
       /\ \A i \in 1..Len(toProxy) : Own(toProxy[i]) /\ toProxy[i].n = n

\* It has been read.
Handling ==
  /\ serve = "handle" /\ Len(outcome) + 1 = req /\ toClient = <<>> /\ got = <<>> /\ Waiting
  /\ toProxy = <<>> /\ parsed # <<>> /\ Own(parsed[1])

\* It has been handled, and the file descriptor sent if there is one.
Handled ==
  /\ serve = "respond" /\ Len(outcome) = req /\ got = <<>>
  /\ toProxy = <<>> /\ parsed # <<>> /\ Own(parsed[1])
  /\ \/ pc = "header" /\ toClient = <<>>
     \/ pc = "fd" /\ outcome[req] # "success" /\ toClient = <<>>
     \/ pc = "fd" /\ outcome[req] = "success" /\ Len(toClient) = 1 /\ toClient[1].t = "F"

\* The units in front of the body on the way to the client.
Lead ==
  IF pc = "rest" THEN 0
  ELSE IF pc = "header" \/ outcome[req] # "success" THEN 1 ELSE 2

BodyOf(n) == Unit("b", Head(todo), req, n)

\* The header of the response has been sent, with the length n, and some of the n
\* units of its body: all of them are received, on their way or still to be sent.
AnsweredWith(n) ==
  /\ Len(got) + Len(toClient) + Len(parsed) = Lead + n
  /\ Lead # 0 => toClient[Lead] = Unit("h", Head(todo), req, n)
  /\ pc = "rest" => want = n
  /\ \A i \in 1..Len(got) : got[i] = BodyOf(n)
  /\ \A i \in 1..Len(toClient) : i > Lead => toClient[i] = BodyOf(n)
  /\ \A i \in 1..Len(parsed) : parsed[i] = BodyOf(n)

Answered ==
  /\ serve \in {"body", "header"} /\ Len(outcome) = req /\ toProxy = <<>>
  /\ serve = "header" <=> parsed = <<>>
  /\ pc # "rest" => got = <<>>
  /\ Len(toClient) >= Lead
  /\ Lead = 2 => toClient[1].t = "F"
  /\ \E n \in Nat \ {0} : AnsweredWith(n)

\* What a command that waits can read belongs to its own request.
Exchange ==
  Busy =>
    /\ \A i \in 1..Len(toClient) : toClient[i].r = req
    /\ \A i \in 1..Len(got) : got[i].r = req
    /\ toClient # <<>> \/ got # <<>> => Len(outcome) = req
    /\ ExpectsFd /\ pc # "fd" => oob = req
    /\ ~Closed => Asked \/ Handling \/ Handled \/ Answered

\* What a command has returned is justified by what the proxy has done.
Justified(c) ==
  /\ c.ok => /\ c.from = c.r /\ c.r \in 1..Len(outcome) /\ outcome[c.r] = "success"
             /\ c.op = "allocateIO" => c.fd = c.r
  /\ ~c.ok => Closed \/ (c.r \in 1..Len(outcome) /\ outcome[c.r] = "failure")

History == \A i \in 1..Len(returned) : Justified(returned[i])

\* The inductive invariant of ProxyClient.
PInv == PTypeOK /\ Plan /\ Idle /\ Exchange /\ History

\* The commands.
LEMMA OpsFacts == DOMAIN Commands = Ops
BY Zenon DEF Commands, Ops

\* The conversations are made of known steps, and have the shape above.
LEMMA ScriptsFacts ==
  ASSUME NEW k \in Kinds, todo = Scripts[k]
  PROVE  todo \in Seq(Steps) /\ Shape /\ Fresh
<1>1. k \in {"launch", "pod", "exec", "start", "kill", "destroy", "bye", "go"}
  BY KindsAssumption, Zenon DEF Scripts
<1>2. CASE k = "launch"
  <2>1. todo = LaunchScript
    BY <1>2, Zenon DEF Scripts
  <2> QED  BY <2>1 DEF LaunchScript, Steps, Ops, Shape, Fresh
<1>3. CASE k = "pod"
  <2>1. todo = PodScript
    BY <1>3, Zenon DEF Scripts
  <2> QED  BY <2>1 DEF PodScript, Steps, Ops, Shape, Fresh
<1>4. CASE k = "exec"
  <2>1. todo = ExecScript
    BY <1>4, Zenon DEF Scripts
  <2> QED  BY <2>1 DEF ExecScript, Steps, Ops, Shape, Fresh
<1>5. CASE k = "start"
  <2>1. todo = StartScript
    BY <1>5, Zenon DEF Scripts
  <2> QED  BY <2>1 DEF StartScript, Steps, Ops, Shape, Fresh
<1>6. CASE k = "kill"
  <2>1. todo = KillScript
    BY <1>6, Zenon DEF Scripts
  <2> QED  BY <2>1 DEF KillScript, Steps, Ops, Shape, Fresh
<1>7. CASE k = "destroy"
  <2>1. todo = DestroyScript
    BY <1>7, Zenon DEF Scripts
  <2> QED  BY <2>1 DEF DestroyScript, Steps, Ops, Shape, Fresh
<1>8. CASE k = "bye"
  <2>1. todo = ByeScript
    BY <1>8, Zenon DEF Scripts
  <2> QED  BY <2>1 DEF ByeScript, Steps, Ops, Shape, Fresh
<1>9. CASE k = "go"
  <2>1. todo = GoScript
    BY <1>9, Zenon DEF Scripts
  <2> QED  BY <2>1 DEF GoScript, Steps, Ops, Shape, Fresh
<1> QED  BY <1>1, <1>2, <1>3, <1>4, <1>5, <1>6, <1>7, <1>8, <1>9, Zenon

\* Initially nothing has happened.
LEMMA PInitially == Init => PInv
<1> SUFFICES ASSUME Init PROVE PInv
  BY Zenon
<1>1. todo \in Seq(Steps) /\ Shape /\ Fresh
  BY ScriptsFacts, Zenon DEF Init
<1>2. PTypeOK
  <2>1. socket \in BOOLEAN
    BY Zenon DEF Init
  <2>2. pc = "step" /\ req = 0 /\ got = <<>> /\ want = 0 /\ oob = 0 /\ returned = <<>>
        /\ toProxy = <<>> /\ toClient = <<>> /\ serve = "none" /\ parsed = <<>> /\ outcome = <<>>
    BY Zenon DEF Init
  <2> QED  BY <1>1, <2>1, <2>2 DEF PTypeOK
<1>3. Plan
  <2>1. pc = "step" /\ ~socket /\ req = 0 /\ returned = <<>> /\ serve = "none"
        /\ toProxy = <<>> /\ toClient = <<>> /\ parsed = <<>> /\ outcome = <<>>
    BY Zenon DEF Init
  <2> QED  BY <1>1, <2>1, Zenon DEF Busy, Plan
<1>5. Idle /\ Exchange
  BY <1>1, Zenon DEF Init, Idle, Exchange, Busy
<1>4. History
  BY DEF Init, History
<1> QED  BY <1>2, <1>3, <1>4, <1>5, Zenon DEF PInv

\* The end of a step: the first has been to connect, and after a failure no command
\* is sent.
LEMMA DoneFacts ==
  ASSUME todo \in Seq(Steps), Shape, todo # <<>>, NEW ok, Done(ok)
  PROVE  /\ todo' \in Seq(Steps) /\ Shape' /\ ~Fresh'
         /\ MoreToSend' => MoreToSend /\ ok
<1>1. Head(todo) = todo[1] /\ Len(todo) \in Nat \ {0}
  OBVIOUS
<1>2. CASE ok
  <2>0. todo' = Tail(todo)
    BY <1>2, Zenon DEF Done
  <2>1. todo' \in Seq(Steps) /\ Len(todo') = Len(todo) - 1
        /\ \A i \in 1..Len(todo') : i + 1 \in 1..Len(todo) /\ i + 1 # 1 /\ todo'[i] = todo[i + 1]
    BY <2>0
  <2>2. Shape'
    <3> SUFFICES ASSUME NEW i \in 1..Len(todo')
                 PROVE  \/ todo'[i] \in Ops
                        \/ todo'[i] = "disconnect" /\ i = Len(todo')
                        \/ todo'[i] = "connect" /\ i = 1
      BY Zenon DEF Shape
    <3>1. todo'[i] \in Ops \/ (todo'[i] = "disconnect" /\ i + 1 = Len(todo))
      BY <2>1, Zenon DEF Shape
    <3> QED  BY <1>1, <2>1, <3>1
  <2>3. ~Fresh'
    <3> SUFFICES ASSUME todo' # <<>> PROVE Head(todo') # "connect"
      BY Zenon DEF Fresh
    <3>1. 1 \in 1..Len(todo') /\ Head(todo') = todo'[1]
      BY <2>1
    <3>2. todo'[1] \in Ops \/ todo'[1] = "disconnect"
      BY <2>1, <3>1, Zenon DEF Shape
    <3> QED  BY <3>1, <3>2, Zenon DEF Ops
  <2>4. MoreToSend' => MoreToSend
    BY <2>1, Zenon DEF MoreToSend
  <2> QED  BY <1>2, <2>1, <2>2, <2>3, <2>4, Zenon
<1>3. CASE ~ok
  <2>1. todo' = <<"disconnect">> \/ todo' = <<>>
    BY <1>3, Zenon DEF Done, AfterFailure
  <2>2. CASE todo' = <<"disconnect">>
    <3>1. Len(todo') = 1 /\ todo'[1] = "disconnect" /\ Head(todo') = "disconnect"
      BY <2>2
    <3>2. todo' \in Seq(Steps)
      BY <2>2 DEF Steps
    <3>3. "disconnect" \notin Ops
      BY Zenon DEF Ops
    <3>4. \A i \in 1..Len(todo') : i = 1
      BY <3>1
    <3> QED  BY <1>3, <3>1, <3>2, <3>3, <3>4, Zenon DEF Shape, Fresh, MoreToSend
  <2>3. CASE todo' = <<>>
    <3>1. \A i \in 1..Len(todo') : FALSE
      BY <2>3
    <3>2. todo' \in Seq(Steps)
      BY <2>3
    <3> QED  BY <1>3, <2>3, <3>1, <3>2, Zenon DEF Shape, Fresh, MoreToSend
  <2> QED  BY <2>1, <2>2, <2>3, Zenon
<1> QED  BY <1>2, <1>3, Zenon

\* A step that leaves the history alone, of a client or of the proxy.
LEMMA HistoryKept ==
  ASSUME PTypeOK, History, returned' = returned, Closed => Closed',
         \/ outcome' = outcome
         \/ \E x \in {"success", "failure"} : outcome' = Append(outcome, x)
  PROVE  History' /\ returned' \in Seq(Returns) /\ outcome' \in Seq({"success", "failure"})
<1> DEFINE S == {"success", "failure"}
<1>0. outcome \in Seq(S) /\ \/ outcome' = outcome
                            \/ \E x \in S : outcome' = Append(outcome, x)
  BY Zenon DEF PTypeOK
<1> HIDE DEF S
<1>1. outcome' \in Seq(S)
      /\ \A i \in 1..Len(outcome) : i \in 1..Len(outcome') /\ outcome'[i] = outcome[i]
  BY <1>0, SMTT(20)
<1>2. ASSUME NEW i \in 1..Len(returned') PROVE Justified(returned[i])'
  <2>1. Justified(returned[i])
    BY <1>2, Zenon DEF History
  <2> QED  BY <1>1, <2>1, Zenon DEF Justified
<1> QED  BY <1>1, <1>2, Zenon DEF S, History, PTypeOK

\* A frame: its header, and its body.
LEMMA FrameFacts ==
  ASSUME NEW op \in Ops, NEW r \in Nat, NEW n \in Nat
  PROVE  /\ Frame(op, r, n) \in Seq(FrameUnits) /\ Len(Frame(op, r, n)) = n + 1
         /\ \A i \in 1..n + 1 :
               Frame(op, r, n)[i] = IF i = 1 THEN Unit("h", op, r, n) ELSE Unit("b", op, r, n)
         /\ Head(Frame(op, r, n)) = Unit("h", op, r, n)
         /\ Tail(Frame(op, r, n)) \in Seq(FrameUnits) /\ Len(Tail(Frame(op, r, n))) = n
         /\ \A i \in 1..n : Tail(Frame(op, r, n))[i] = Unit("b", op, r, n)
<1> DEFINE h == Unit("h", op, r, n)  b == Unit("b", op, r, n)  B == [i \in 1..n |-> b]
           f == <<h>> \o B
<1>1. h \in FrameUnits /\ b \in FrameUnits
  BY Zenon DEF Unit, FrameUnits
<1> HIDE DEF h, b
<1>2. B \in Seq(FrameUnits) /\ Len(B) = n /\ \A i \in 1..n : B[i] = b
  BY <1>1
<1>3. <<h>> \in Seq(FrameUnits) /\ Len(<<h>>) = 1 /\ <<h>>[1] = h
  BY <1>1
<1> HIDE DEF B
<1>4. f \in Seq(FrameUnits) /\ Len(f) = n + 1
      /\ \A i \in 1..n + 1 : f[i] = IF i = 1 THEN h ELSE b
  BY <1>2, <1>3
<1> HIDE DEF f
<1>5. Head(f) = h /\ Tail(f) \in Seq(FrameUnits) /\ Len(Tail(f)) = n
      /\ \A i \in 1..n : Tail(f)[i] = b
  BY <1>4
<1>6. Frame(op, r, n) = f
  BY Zenon DEF Frame, f, B, h, b
<1> QED  BY <1>4, <1>5, <1>6, Zenon DEF h, b

\* cc_proxy_connect.
LEMMA PConnect == ASSUME PInv, Connect PROVE PInv'
<1>0. PTypeOK /\ Plan /\ History /\ pc = "step" /\ todo # <<>> /\ Head(todo) = "connect"
  BY Zenon DEF PInv, Connect, Step
<1>1. /\ ~socket /\ serve = "none" /\ req = 0 /\ returned = <<>>
      /\ toProxy = <<>> /\ toClient = <<>> /\ parsed = <<>> /\ outcome = <<>> /\ Shape
  BY <1>0, Zenon DEF Plan, Fresh
<1>2. UNCHANGED <<pc, req, got, want, oob, returned, toProxy, toClient, parsed, outcome>>
  BY Zenon DEF Connect
<1>3. \/ socket' = TRUE /\ serve' = "header" /\ Done(TRUE)
      \/ Done(FALSE) /\ serve' = serve /\ socket' \in BOOLEAN
  BY <1>0, Zenon DEF Connect, PTypeOK
<1>4. todo' \in Seq(Steps) /\ Shape' /\ ~Fresh'
  BY <1>0, <1>1, <1>3, DoneFacts, Zenon DEF PTypeOK
<1>5. MoreToSend' => socket' = TRUE /\ serve' = "header"
  BY <1>0, <1>1, <1>3, DoneFacts, Zenon DEF PTypeOK
<1>6. socket' \in BOOLEAN /\ serve' \in {"none", "header"}
  BY <1>1, <1>3, Zenon
<1>7. PTypeOK'
  BY <1>0, <1>2, <1>4, <1>6, Zenon DEF PTypeOK
<1>8. Plan'
  <2>1. MoreToSend' => socket' /\ serve' # "none"
    BY <1>5, Zenon
  <2> QED  BY <1>0, <1>2, <1>4, <2>1, Zenon DEF Busy, Plan
<1>9. Idle'
  <2>1. Len(outcome') = req'
    BY <1>1, <1>2, Zenon
  <2> QED  BY <1>1, <1>2, <1>5, <2>1, Zenon DEF Idle
<1>10. Exchange'
  BY <1>0, <1>2, Zenon DEF Exchange, Busy
<1>11. History'
  BY <1>1, <1>2 DEF History
<1> QED  BY <1>7, <1>8, <1>9, <1>10, <1>11, Zenon DEF PInv

\* cc_proxy_disconnect: it is the last step.
LEMMA PDisconnect == ASSUME PInv, Disconnect PROVE PInv'
<1>0. PTypeOK /\ Plan /\ History /\ pc = "step" /\ todo # <<>> /\ Head(todo) = "disconnect"
  BY Zenon DEF PInv, Disconnect, Step
<1>1. UNCHANGED <<pc, req, got, want, oob, returned, toProxy, serve, parsed, outcome>>
      /\ socket' = FALSE /\ toClient' = <<>> /\ Done(socket)
  BY Zenon DEF Disconnect, proxyVars
<1>2. todo' \in Seq(Steps) /\ Shape' /\ ~Fresh'
  BY <1>0, <1>1, DoneFacts, Zenon DEF PTypeOK, Plan
<1>3. ~MoreToSend'
  <2>1. Len(todo) = 1
    <3>1. 1 \in 1..Len(todo) /\ todo[1] = "disconnect"
      BY <1>0 DEF PTypeOK
    <3>2. todo[1] \notin Ops /\ todo[1] # "connect"
      BY <3>1, Zenon DEF Ops
    <3> QED  BY <1>0, <3>1, <3>2, Zenon DEF Plan, Shape
  <2>2. CASE socket
    <3>1. todo' = Tail(todo)
      BY <1>1, <2>2, Zenon DEF Done
    <3>2. Len(todo') = 0
      BY <1>0, <2>1, <3>1 DEF PTypeOK
    <3>3. \A i \in 1..Len(todo') : FALSE
      BY <3>2
    <3> QED  BY <3>3, Zenon DEF MoreToSend
  <2>3. CASE ~socket
    BY <1>0, <1>1, <2>3, DoneFacts, Zenon DEF PTypeOK, Plan
  <2> QED  BY <2>2, <2>3, Zenon
<1>4. PTypeOK'
  <2>1. socket' \in BOOLEAN
    BY <1>1, Zenon
  <2>2. toClient' \in Seq(FrameUnits)
    BY <1>1
  <2> QED  BY <1>0, <1>1, <1>2, <2>1, <2>2, Zenon DEF PTypeOK
<1>5. Plan' /\ Idle' /\ Exchange'
  BY <1>0, <1>1, <1>2, <1>3, Zenon DEF Plan, Idle, Exchange, Busy
<1>6. History'
  BY <1>0, <1>1, HistoryKept, Zenon DEF Closed
<1> QED  BY <1>4, <1>5, <1>6, Zenon DEF PInv

\* A command that is not sent, and a client that waits for ever.
LEMMA PRefuse == ASSUME PInv, Refuse \/ ReadNothing PROVE PInv'
<1>0. PTypeOK /\ Plan /\ History /\ todo # <<>>
  BY Zenon DEF PInv, Plan, Refuse, ReadNothing
<1>1. UNCHANGED <<socket, req, got, want, oob, returned, toProxy, toClient, serve, parsed, outcome>>
  BY Zenon DEF Refuse, ReadNothing, proxyVars
<1>2. History'
  BY <1>0, <1>1, HistoryKept, Zenon DEF Closed
<1>3. CASE Refuse
  <2>1. pc = "step" /\ pc' = pc /\ Done(FALSE)
    BY <1>3, Zenon DEF Refuse
  <2>2. todo' \in Seq(Steps) /\ Shape' /\ ~Fresh' /\ ~MoreToSend'
    BY <1>0, <2>1, DoneFacts, Zenon DEF PTypeOK, Plan
  <2>3. PTypeOK'
    BY <1>0, <1>1, <2>1, <2>2, Zenon DEF PTypeOK
  <2>4. Plan' /\ Idle' /\ Exchange'
    BY <2>1, <2>2, Zenon DEF Plan, Idle, Exchange, Busy
  <2> QED  BY <1>2, <2>3, <2>4, Zenon DEF PInv
<1>4. CASE ReadNothing
  <2>1. pc # "step" /\ pc' = "hung" /\ todo' = todo
    BY <1>4, Zenon DEF ReadNothing
  <2>2. PTypeOK'
    <3>1. pc' \in {"step", "fd", "header", "rest", "hung"}
      BY <2>1, Zenon
    <3> QED  BY <1>0, <1>1, <2>1, <3>1, Zenon DEF PTypeOK
  <2>3. ~Fresh /\ (MoreToSend' <=> MoreToSend) /\ ~Fresh' /\ Shape' /\ todo' # <<>>
        /\ Head(todo') \in Ops
    BY <1>0, <2>1, Zenon DEF Plan, Fresh, MoreToSend, Shape, Ops
  <2>4. Plan'
    BY <1>0, <1>1, <2>1, <2>3, Zenon DEF Busy, Plan
  <2>5. Idle' /\ Exchange'
    BY <2>1, Zenon DEF Idle, Exchange, Busy
  <2> QED  BY <1>2, <2>2, <2>4, <2>5, Zenon DEF PInv
<1> QED  BY <1>3, <1>4, Zenon

\* cc_proxy_msg_write: the request is the only thing on the connection.
LEMMA PSendRequest == ASSUME PInv, SendRequest PROVE PInv'
<1> DEFINE op == Head(todo)
<1>0. PTypeOK /\ Plan /\ Idle /\ History /\ pc = "step" /\ todo # <<>> /\ op \in Ops
  BY OpsFacts, Zenon DEF PInv, SendRequest, CanSend, IsCommand
<1>1. UNCHANGED <<socket, oob, toClient, serve, parsed, outcome>> /\ got' = <<>> /\ want' = 0
      /\ returned' = returned
  BY Zenon DEF SendRequest, proxyVars
<1>2. History'
  BY <1>0, <1>1, HistoryKept, Zenon DEF Closed
<1>3. MoreToSend /\ ~Fresh
  <2>1. 1 \in 1..Len(todo) /\ todo[1] = op
    BY <1>0 DEF PTypeOK
  <2> QED  BY <1>0, <2>1, Zenon DEF MoreToSend, Fresh, Ops
<1>4. CASE /\ ~Closed /\ req' = req + 1
           /\ \/ toProxy' = toProxy \o Frame(op, req + 1, 2)
              \/ toProxy' = toProxy \o Frame(op, req + 1, 1)
           /\ pc' = IF ExpectsFd THEN "fd" ELSE "header"
           /\ UNCHANGED <<todo, returned>>
  <2>1. /\ toProxy = <<>> /\ toClient = <<>> /\ parsed = <<>>
        /\ serve = "header" /\ Len(outcome) = req
    BY <1>0, <1>3, <1>4, Zenon DEF Idle
  <2>2. PICK n \in {1, 2} : toProxy' = toProxy \o Frame(op, req + 1, n)
    BY <1>4, Zenon
  <2> DEFINE f == Frame(op, req + 1, n)
  <2>3. f \in Seq(FrameUnits) /\ Len(f) = n + 1
        /\ \A i \in 1..Len(f) : f[i].op = op /\ f[i].r = req + 1 /\ f[i].n = n
    <3>1. req + 1 \in Nat /\ n \in Nat
      BY <1>0 DEF PTypeOK
    <3>2. f \in Seq(FrameUnits) /\ Len(f) = n + 1
          /\ \A i \in 1..n + 1 : f[i] = IF i = 1 THEN Unit("h", op, req + 1, n)
                                          ELSE Unit("b", op, req + 1, n)
      BY <1>0, <3>1, FrameFacts
    <3> HIDE DEF f, op
    <3>3. ASSUME NEW t PROVE Unit(t, op, req + 1, n).op = op
                             /\ Unit(t, op, req + 1, n).r = req + 1 /\ Unit(t, op, req + 1, n).n = n
      BY Zenon DEF Unit
    <3> QED  BY <3>2, <3>3, Zenon
  <2> HIDE DEF f
  <2>4. toProxy' = f
    BY <2>1, <2>2, <2>3, ConcatEmptySeq, Zenon DEF f
  <2>5. todo' = todo /\ (ExpectsFd' <=> ExpectsFd)
    BY <1>4, Zenon DEF ExpectsFd
  <2>6. Asked'
    <3>1. serve' = "header" /\ Len(outcome') + 1 = req' /\ toClient' = <<>> /\ got' = <<>>
          /\ Waiting'
      BY <1>0, <1>1, <1>4, <2>1, <2>5, Zenon DEF Waiting, PTypeOK
    <3>2. Len(parsed') + Len(toProxy') = n + 1 /\ Len(parsed') <= n
          /\ \A i \in 1..Len(parsed') : FALSE
      BY <1>1, <2>1, <2>3, <2>4
    <3>3. \A i \in 1..Len(toProxy') : Own(toProxy[i])' /\ toProxy'[i].n = n
      BY <1>4, <2>3, <2>4, <2>5, Zenon DEF Own
    <3> QED  BY <3>1, <3>2, <3>3, Zenon DEF Asked
  <2>7. pc' \in {"fd", "header"} /\ (ExpectsFd' => pc' = "fd")
    BY <1>4, <2>5, Zenon
  <2>8. Exchange'
    <3>1. \A i \in 1..Len(<<>>) : FALSE
      OBVIOUS
    <3> QED  BY <1>1, <2>1, <2>6, <2>7, <3>1, Zenon DEF Exchange
  <2>9. PTypeOK'
    <3>1. req' \in Nat /\ got' \in Seq(FrameUnits) /\ want' \in Nat
          /\ pc' \in {"step", "fd", "header", "rest", "hung"} /\ toProxy' \in Seq(FrameUnits)
      BY <1>0, <1>1, <1>4, <2>3, <2>4, <2>7 DEF PTypeOK
    <3> QED  BY <1>0, <1>1, <2>5, <3>1, Zenon DEF PTypeOK
  <2>10. Plan' /\ Idle'
    <3>1. ~Fresh' /\ Shape' /\ todo' # <<>> /\ Head(todo') \in Ops /\ socket' /\ serve' # "none"
      BY <1>0, <1>1, <1>3, <2>5, Zenon DEF Plan, Fresh, Shape
    <3>2. pc' # "step" /\ req' # 0
      BY <1>0, <1>4, <2>7 DEF PTypeOK
    <3> QED  BY <3>1, <3>2, Zenon DEF Plan, Idle
  <2> QED  BY <1>2, <2>8, <2>9, <2>10, Zenon DEF PInv
<1>5. CASE pc' = "hung" /\ UNCHANGED <<todo, req, returned, toProxy>>
  <2>1. PTypeOK'
    <3>1. pc' \in {"step", "fd", "header", "rest", "hung"} /\ got' \in Seq(FrameUnits)
          /\ want' \in Nat
      BY <1>1, <1>5
    <3> QED  BY <1>0, <1>1, <1>5, <3>1, Zenon DEF PTypeOK
  <2>2. ~Fresh' /\ Shape' /\ todo' # <<>> /\ Head(todo') \in Ops /\ socket' /\ serve' # "none"
    BY <1>0, <1>1, <1>3, <1>5, Zenon DEF Plan, Fresh, Shape
  <2>3. Plan'
    BY <1>5, <2>2, Zenon DEF Busy, Plan
  <2>4. Idle' /\ Exchange'
    BY <1>5, Zenon DEF Idle, Exchange, Busy
  <2> QED  BY <1>2, <2>1, <2>3, <2>4, Zenon DEF PInv
<1>6. CASE Done(FALSE) /\ UNCHANGED <<pc, req, returned, toProxy>>
  <2>1. todo' \in Seq(Steps) /\ Shape' /\ ~Fresh' /\ ~MoreToSend'
    BY <1>0, <1>6, DoneFacts, Zenon DEF PTypeOK, Plan
  <2>2. PTypeOK'
    <3>1. got' \in Seq(FrameUnits) /\ want' \in Nat
      BY <1>1
    <3> QED  BY <1>0, <1>1, <1>6, <2>1, <3>1, Zenon DEF PTypeOK
  <2>3. Plan' /\ Idle' /\ Exchange'
    BY <1>0, <1>6, <2>1, Zenon DEF Plan, Idle, Exchange, Busy
  <2> QED  BY <1>2, <2>2, <2>3, Zenon DEF PInv
<1> QED  BY <1>4, <1>5, <1>6, Zenon DEF SendRequest

-----------------------------------------------------------------------------
(* The steps of protocol.Serve.                                             *)

\* What a step of the proxy leaves alone, and what it starts from: between two
\* commands there is nothing to do.
LEMMA ServerStep ==
  ASSUME PInv, Server, serve \notin {"none", "closed", "reset"}, serve' # "none",
         \/ outcome' = outcome
         \/ \E x \in {"success", "failure"} : outcome' = Append(outcome, x)
  PROVE  /\ Plan' /\ History' /\ ~Fresh' /\ ~Closed
         /\ outcome' \in Seq({"success", "failure"})
         /\ UNCHANGED <<todo, pc, socket, req, got, want, oob, returned>>
         /\ (MoreToSend' <=> MoreToSend) /\ (Busy' <=> Busy) /\ (ExpectsFd' <=> ExpectsFd)
         /\ Waiting' <=> Waiting
         /\ Busy => /\ socket
                    /\ Asked \/ Handling \/ Handled \/ Answered
                    /\ Head(todo) \in Ops
                    /\ \A i \in 1..Len(toClient) : toClient[i].r = req
                    /\ \A i \in 1..Len(got) : got[i].r = req
                    /\ toClient # <<>> \/ got # <<>> => Len(outcome) = req
                    /\ ExpectsFd /\ pc # "fd" => oob = req
         /\ pc = "step" /\ MoreToSend => socket /\ toProxy = <<>> /\ serve = "header"
<1>0. PTypeOK /\ Plan /\ Idle /\ Exchange /\ History
  BY Zenon DEF PInv
<1>1. UNCHANGED <<todo, pc, socket, req, got, want, oob, returned>>
  BY Zenon DEF Server, clientVars
<1>2. ~Closed /\ ~Fresh
  BY <1>0, Zenon DEF Closed, Plan
<1>3. (MoreToSend' <=> MoreToSend) /\ (Busy' <=> Busy) /\ (ExpectsFd' <=> ExpectsFd)
      /\ (Fresh' <=> Fresh) /\ (Shape' <=> Shape) /\ (Waiting' <=> Waiting)
  BY <1>1, Zenon DEF MoreToSend, Busy, ExpectsFd, Fresh, Shape, Waiting
<1>4. Plan'
  BY <1>0, <1>1, <1>2, <1>3, Zenon DEF Plan
<1>5. History' /\ outcome' \in Seq({"success", "failure"})
  BY <1>0, <1>1, <1>2, HistoryKept, Zenon
<1>6. Busy => MoreToSend /\ Head(todo) \in Ops
  <2> SUFFICES ASSUME Busy PROVE MoreToSend /\ Head(todo) \in Ops
    BY Zenon
  <2>1. todo # <<>> /\ Head(todo) \in Ops
    BY <1>0, Zenon DEF Plan, Busy
  <2>2. 1 \in 1..Len(todo) /\ todo[1] = Head(todo)
    BY <1>0, <2>1 DEF PTypeOK
  <2> QED  BY <2>1, <2>2, Zenon DEF MoreToSend
<1>7. Busy => socket
  BY <1>0, <1>2, <1>6, Zenon DEF Plan
<1>8. pc = "step" /\ MoreToSend => socket /\ toProxy = <<>> /\ serve = "header"
  BY <1>0, <1>2, Zenon DEF Plan, Idle
<1>9. Busy => /\ Asked \/ Handling \/ Handled \/ Answered
              /\ \A i \in 1..Len(toClient) : toClient[i].r = req
              /\ \A i \in 1..Len(got) : got[i].r = req
              /\ toClient # <<>> \/ got # <<>> => Len(outcome) = req
              /\ ExpectsFd /\ pc # "fd" => oob = req
  BY <1>0, <1>2, Zenon DEF Exchange
<1> QED  BY <1>1, <1>2, <1>3, <1>4, <1>5, <1>6, <1>7, <1>8, <1>9, Zenon

\* The end of the proxy.
LEMMA PDies == ASSUME PInv, ProxyDies PROVE PInv'
<1>0. UNCHANGED <<parsed, outcome, toProxy, toClient>> /\ Server
      /\ serve \notin {"none", "closed", "reset"} /\ serve' \in {"closed", "reset"}
  BY Zenon DEF ProxyDies
<1>1. serve' # "none"
  BY <1>0, Zenon
<1>2. /\ Plan' /\ History'
      /\ UNCHANGED <<todo, pc, socket, req, got, want, oob, returned>>
      /\ (Busy' <=> Busy) /\ (ExpectsFd' <=> ExpectsFd)
      /\ Busy => /\ \A i \in 1..Len(toClient) : toClient[i].r = req
                 /\ \A i \in 1..Len(got) : got[i].r = req
                 /\ toClient # <<>> \/ got # <<>> => Len(outcome) = req
                 /\ ExpectsFd /\ pc # "fd" => oob = req
  BY <1>0, <1>1, ServerStep, Zenon
<1>3. Closed'
  BY <1>0, Zenon DEF Closed
<1>4. PTypeOK'
  <2>1. serve' \in {"none", "header", "handle", "respond", "body", "closed", "reset"}
    BY <1>0, Zenon
  <2> QED  BY <1>0, <1>2, <2>1, Zenon DEF PInv, PTypeOK
<1>5. Idle' /\ Exchange'
  BY <1>0, <1>2, <1>3, Zenon DEF Idle, Exchange
<1> QED  BY <1>2, <1>4, <1>5, Zenon DEF PInv

\* The proxy reads a unit of the request, or all of it, or gives up.
LEMMA PServeRead == ASSUME PInv, ServeRead PROVE PInv'
<1> DEFINE p == Append(parsed, Head(toProxy))
<1>0. PTypeOK /\ serve = "header" /\ Server /\ UNCHANGED <<toClient, outcome>>
      /\ \/ /\ toProxy # <<>> /\ toProxy' = Tail(toProxy)
            /\ \/ Len(p) <= Head(p).n /\ parsed' = p /\ serve' = "header"
               \/ /\ Len(p) = Head(p).n + 1 /\ Head(p).n = 2
                  /\ parsed' = p /\ serve' = "handle"
               \/ /\ Len(p) = Head(p).n + 1 /\ Head(p).n < 2
                  /\ parsed' = <<>> /\ serve' = "closed"
         \/ /\ toProxy = <<>> /\ ~socket
            /\ serve' = "closed" /\ UNCHANGED <<toProxy, parsed>>
  BY Zenon DEF PInv, ServeRead
<1>1. serve \notin {"none", "closed", "reset"} /\ serve' \in {"header", "handle", "closed"}
      /\ serve' # "none"
  BY <1>0, Zenon
<1>2. /\ Plan' /\ History'
      /\ UNCHANGED <<todo, pc, socket, req, got, want, oob, returned>>
      /\ (MoreToSend' <=> MoreToSend) /\ (Busy' <=> Busy) /\ (ExpectsFd' <=> ExpectsFd)
      /\ Waiting' <=> Waiting
      /\ Busy => /\ socket
                 /\ Asked \/ Handling \/ Handled \/ Answered
                 /\ \A i \in 1..Len(toClient) : toClient[i].r = req
                 /\ \A i \in 1..Len(got) : got[i].r = req
                 /\ toClient # <<>> \/ got # <<>> => Len(outcome) = req
                 /\ ExpectsFd /\ pc # "fd" => oob = req
      /\ pc = "step" /\ MoreToSend => socket /\ toProxy = <<>> /\ serve = "header"
  BY <1>0, <1>1, ServerStep, Zenon
<1>3. toProxy # <<>> => /\ p \in Seq(FrameUnits) /\ Len(p) = Len(parsed) + 1
                        /\ Tail(toProxy) \in Seq(FrameUnits)
                        /\ Len(Tail(toProxy)) = Len(toProxy) - 1 /\ Len(toProxy) \in Nat \ {0}
                        /\ \A i \in 1..Len(parsed) : p[i] = parsed[i]
                        /\ p[Len(parsed) + 1] = toProxy[1] /\ Len(parsed) \in Nat
                        /\ \A i \in 1..Len(Tail(toProxy)) :
                              i + 1 \in 1..Len(toProxy) /\ Tail(toProxy)[i] = toProxy[i + 1]
  BY <1>0 DEF PTypeOK
<1> HIDE DEF p
<1>4. PTypeOK'
  <2>1. serve' \in {"none", "header", "handle", "respond", "body", "closed", "reset"}
    BY <1>1, Zenon
  <2>2. \/ toProxy # <<>> /\ toProxy' = Tail(toProxy) /\ (parsed' = p \/ parsed' = <<>>)
        \/ toProxy' = toProxy /\ parsed' = parsed
    BY <1>0, Zenon
  <2>3. toProxy' \in Seq(FrameUnits) /\ parsed' \in Seq(FrameUnits)
    <3>1. toProxy \in Seq(FrameUnits) /\ parsed \in Seq(FrameUnits) /\ <<>> \in Seq(FrameUnits)
      BY <1>0 DEF PTypeOK
    <3> QED  BY <1>3, <2>2, <3>1, Zenon
  <2>4. serve' \in {"handle", "respond", "body"} => parsed' # <<>>
    <3>1. toProxy # <<>> => p # <<>>
      BY <1>0, <1>3 DEF PTypeOK
    <3> QED  BY <1>0, <3>1, Zenon
  <2> QED  BY <1>0, <1>2, <2>1, <2>3, <2>4, Zenon DEF PTypeOK
<1>5. Idle'
  BY <1>0, <1>2, Zenon DEF Idle, Closed
<1>6. ASSUME Busy, serve' # "closed" PROVE Asked' \/ Handling'
  <2>1. /\ toProxy # <<>> /\ toProxy' = Tail(toProxy) /\ parsed' = p
        /\ \/ Len(p) <= Head(p).n /\ serve' = "header"
           \/ Len(p) = Head(p).n + 1 /\ serve' = "handle"
    BY <1>0, <1>6, Zenon
  <2>2. Asked
    BY <1>0, <1>2, <1>6, <2>1, Zenon DEF Handling, Handled, Answered
  <2>3. PICK n \in {1, 2} :
          /\ Len(parsed) + Len(toProxy) = n + 1 /\ Len(parsed) <= n
          /\ \A i \in 1..Len(parsed) : Own(parsed[i]) /\ parsed[i].n = n
          /\ \A i \in 1..Len(toProxy) : Own(toProxy[i]) /\ toProxy[i].n = n
    BY <2>2, Zenon DEF Asked
  <2>4. n \in Nat /\ Len(p) = Len(parsed) + 1 /\ p # <<>> /\ Head(p) = p[1] /\ 1 \in 1..Len(p)
    BY <1>3, <2>1
  <2>5. ASSUME NEW i \in 1..Len(p) PROVE p[i].op = Head(todo) /\ p[i].r = req /\ p[i].n = n
    <3>1. 1 \in 1..Len(toProxy)
      BY <1>3, <2>1
    <3>2. i \in 1..Len(parsed) \/ i = Len(parsed) + 1
      BY <1>3, <2>1, <2>4
    <3>3. CASE i \in 1..Len(parsed)
      <4>1. p[i] = parsed[i]
        BY <1>3, <2>1, <3>3, Zenon
      <4> QED  BY <2>3, <3>3, <4>1, Zenon DEF Own
    <3>4. CASE i = Len(parsed) + 1
      <4>1. p[i] = toProxy[1]
        BY <1>3, <2>1, <3>4, Zenon
      <4> QED  BY <2>3, <3>1, <4>1, Zenon DEF Own
    <3> QED  BY <3>2, <3>3, <3>4, Zenon
  <2>6. ASSUME NEW i \in 1..Len(toProxy')
        PROVE  toProxy'[i].op = Head(todo) /\ toProxy'[i].r = req /\ toProxy'[i].n = n
    <3>1. i + 1 \in 1..Len(toProxy) /\ toProxy'[i] = toProxy[i + 1]
      BY <1>3, <2>1, Zenon
    <3>2. Own(toProxy[i + 1]) /\ toProxy[i + 1].n = n
      BY <2>3, <3>1, Zenon
    <3> QED  BY <3>1, <3>2, Zenon DEF Own
  <2>7. Head(p).n = n
    BY <2>4, <2>5, Zenon
  <2>8. /\ \A i \in 1..Len(parsed') : Own(parsed[i])' /\ parsed'[i].n = n
        /\ \A i \in 1..Len(toProxy') : Own(toProxy[i])' /\ toProxy'[i].n = n
    BY <1>2, <2>1, <2>5, <2>6, Zenon DEF Own
  <2>9. /\ Len(outcome') + 1 = req' /\ toClient' = <<>> /\ got' = <<>> /\ Waiting'
    BY <1>0, <1>2, <2>2, Zenon DEF Asked
  <2>10. Len(toProxy') = Len(toProxy) - 1 /\ Len(toProxy) \in Nat /\ Len(parsed) \in Nat
         /\ Len(parsed') = Len(p)
    BY <1>3, <2>1, Zenon
  <2>11. CASE Len(p) <= Head(p).n /\ serve' = "header"
    <3>1. Len(parsed') + Len(toProxy') = n + 1 /\ Len(parsed') <= n
      <4> DEFINE a == Len(p)  b == Len(toProxy)  c == Len(parsed)
      <4>1. a = c + 1 /\ c + b = n + 1 /\ a <= n /\ c \in Nat /\ b \in Nat
        BY <2>3, <2>4, <2>7, <2>10, <2>11, Zenon
      <4> HIDE DEF a, b, c
      <4>2. a + (b - 1) = n + 1
        BY <4>1, <2>4
      <4> QED  BY <2>10, <4>1, <4>2, Zenon DEF a, b
    <3> QED  BY <2>8, <2>9, <2>11, <3>1, Zenon DEF Asked
  <2>12. CASE Len(p) = Head(p).n + 1 /\ serve' = "handle"
    <3>1. Len(toProxy') = 0
      <4> DEFINE b == Len(toProxy)  c == Len(parsed)
      <4>1. c + 1 = n + 1 /\ c + b = n + 1 /\ c \in Nat /\ b \in Nat
        BY <2>3, <2>4, <2>7, <2>10, <2>12, Zenon
      <4> HIDE DEF b, c
      <4>2. b - 1 = 0
        BY <4>1, <2>4
      <4> QED  BY <2>10, <4>2, Zenon DEF b
    <3>2. toProxy' = <<>>
      BY <1>4, <3>1 DEF PTypeOK
    <3>3. parsed' # <<>> /\ Own(parsed[1])'
      BY <2>1, <2>4, <2>8, Zenon
    <3> QED  BY <2>9, <2>12, <3>2, <3>3, Zenon DEF Handling
  <2> QED  BY <2>1, <2>11, <2>12, Zenon
<1>7. Exchange'
  BY <1>0, <1>2, <1>6, Zenon DEF Exchange, Closed
<1> QED  BY <1>2, <1>4, <1>5, <1>7, Zenon DEF PInv

\* The request is handled: a file descriptor is sent if it is allocateIO and
\* succeeds.
LEMMA PServeHandle == ASSUME PInv, ServeHandle PROVE PInv'
<1> DEFINE u == Head(parsed)  v == [u EXCEPT !.t = "F"]
<1>0. PTypeOK /\ serve = "handle" /\ serve' = "respond" /\ Server
      /\ UNCHANGED <<toProxy, parsed>>
      /\ \/ /\ outcome' = Append(outcome, "success")
            /\ toClient' = IF socket /\ u.op = "allocateIO" THEN Append(toClient, v) ELSE toClient
         \/ outcome' = Append(outcome, "failure") /\ toClient' = toClient
  BY Zenon DEF PInv, ServeHandle
<1>1. serve \notin {"none", "closed", "reset"} /\ serve' # "none"
      /\ \E x \in {"success", "failure"} : outcome' = Append(outcome, x)
  BY <1>0, Zenon
<1>2. /\ Plan' /\ History'
      /\ outcome' \in Seq({"success", "failure"})
      /\ UNCHANGED <<todo, pc, socket, req, got, want, oob, returned>>
      /\ (MoreToSend' <=> MoreToSend) /\ (Busy' <=> Busy) /\ (ExpectsFd' <=> ExpectsFd)
      /\ Waiting' <=> Waiting
      /\ Busy => /\ socket
                 /\ Asked \/ Handling \/ Handled \/ Answered
                 /\ \A i \in 1..Len(toClient) : toClient[i].r = req
                 /\ \A i \in 1..Len(got) : got[i].r = req
                 /\ toClient # <<>> \/ got # <<>> => Len(outcome) = req
                 /\ ExpectsFd /\ pc # "fd" => oob = req
      /\ pc = "step" /\ MoreToSend => socket /\ toProxy = <<>> /\ serve = "header"
  BY <1>0, <1>1, ServerStep, Zenon
<1>3. parsed # <<>> /\ u = parsed[1] /\ u \in FrameUnits
  BY <1>0 DEF PTypeOK
<1>4. v \in FrameUnits /\ v.t = "F" /\ v.r = u.r /\ v.op = u.op
  <2> HIDE DEF u
  <2> QED  BY <1>3, Zenon DEF FrameUnits
<1> HIDE DEF u, v
<1>5. PTypeOK'
  <2>1. toClient' \in Seq(FrameUnits)
    <3>1. toClient \in Seq(FrameUnits) /\ Append(toClient, v) \in Seq(FrameUnits)
      BY <1>0, <1>4 DEF PTypeOK
    <3> QED  BY <1>0, <3>1, Zenon
  <2>2. serve' \in {"none", "header", "handle", "respond", "body", "closed", "reset"}
    BY <1>0, Zenon
  <2> QED  BY <1>0, <1>2, <1>3, <2>1, <2>2, Zenon DEF PTypeOK
<1>6. Idle'
  BY <1>0, <1>2, Zenon DEF Idle
<1>7. ASSUME Busy PROVE Handled' /\ (\A i \in 1..Len(toClient') : toClient'[i].r = req)
                        /\ Len(outcome') = req
  <2>1. Handling /\ socket
    BY <1>0, <1>2, <1>7, Zenon DEF Asked, Handled, Answered
  <2>2. Len(outcome) + 1 = req /\ toClient = <<>> /\ got = <<>> /\ Waiting
        /\ toProxy = <<>> /\ u.op = Head(todo) /\ u.r = req
    BY <1>3, <2>1, Zenon DEF Handling, Own
  <2>3. PICK x \in {"success", "failure"} : outcome' = Append(outcome, x)
    BY <1>1, Zenon
  <2>4. Len(outcome') = req /\ outcome'[req] = x
    <3> DEFINE S == {"success", "failure"}
    <3>1. outcome \in Seq(S) /\ x \in S
      BY <1>0, Zenon DEF PTypeOK
    <3> HIDE DEF S
    <3> QED  BY <2>2, <2>3, <3>1
  <2>5. Own(parsed[1])' /\ parsed' # <<>> /\ toProxy' = <<>> /\ got' = <<>> /\ serve' = "respond"
        /\ Len(outcome') = req'
    BY <1>0, <1>2, <1>3, <2>2, <2>4, Zenon DEF Own
  <2>6. CASE ExpectsFd
    <3>1. pc' = "fd"
      BY <1>2, <2>2, <2>6, Zenon DEF Waiting
    <3>2. CASE x = "success"
      <4>1. outcome' # Append(outcome, "failure")
        <5>1. outcome' = Append(outcome, "failure") => outcome'[Len(outcome) + 1] = "failure"
          <6> DEFINE S == {"success", "failure"}
          <6>1. outcome \in Seq(S)
            BY <1>0, Zenon DEF PTypeOK
          <6> HIDE DEF S
          <6> QED  BY <6>1
        <5> QED  BY <2>2, <2>4, <3>2, <5>1, Zenon
      <4>2. toClient' = <<v>>
        <5>1. toClient' = Append(toClient, v)
          BY <1>0, <2>1, <2>2, <2>6, <4>1, Zenon DEF ExpectsFd
        <5> QED  BY <2>2, <5>1
      <4>3. Len(toClient') = 1 /\ toClient'[1] = v /\ \A i \in 1..Len(toClient') : i = 1
        BY <4>2
      <4>4. outcome'[req'] = "success" /\ toClient'[1].t = "F" /\ v.r = req
        BY <1>2, <1>4, <2>2, <2>4, <3>2, <4>3, Zenon
      <4> QED  BY <2>4, <2>5, <3>1, <4>3, <4>4, Zenon DEF Handled
    <3>3. CASE x = "failure"
      <4>1. outcome' # Append(outcome, "success")
        <5>1. outcome' = Append(outcome, "success") => outcome'[Len(outcome) + 1] = "success"
          <6> DEFINE S == {"success", "failure"}
          <6>1. outcome \in Seq(S)
            BY <1>0, Zenon DEF PTypeOK
          <6> HIDE DEF S
          <6> QED  BY <6>1
        <5> QED  BY <2>2, <2>4, <3>3, <5>1, Zenon
      <4>2. toClient' = <<>>
        BY <1>0, <2>2, <4>1, Zenon
      <4>3. outcome'[req'] # "success" /\ \A i \in 1..Len(toClient') : FALSE
        BY <1>2, <2>4, <3>3, <4>2
      <4> QED  BY <2>4, <2>5, <3>1, <4>2, <4>3, Zenon DEF Handled
    <3> QED  BY <3>2, <3>3, Zenon
  <2>7. CASE ~ExpectsFd
    <3>1. pc' = "header"
      BY <1>2, <2>2, <2>7, Zenon DEF Waiting
    <3>2. toClient' = <<>>
      BY <1>0, <2>2, <2>7, Zenon DEF ExpectsFd
    <3>3. \A i \in 1..Len(toClient') : FALSE
      BY <3>2
    <3> QED  BY <2>4, <2>5, <3>1, <3>2, <3>3, Zenon DEF Handled
  <2> QED  BY <2>6, <2>7, Zenon
<1>8. Exchange'
  BY <1>0, <1>2, <1>7, Zenon DEF Exchange
<1> QED  BY <1>2, <1>5, <1>6, <1>8, Zenon DEF PInv

\* The header of the response is sent.
LEMMA PServeRespond == ASSUME PInv, ServeRespond PROVE PInv'
<1> DEFINE u == Head(parsed)
<1>0. PTypeOK /\ serve = "respond" /\ Server /\ UNCHANGED <<toProxy, outcome>>
      /\ \/ /\ \E n \in 1..MaxBody : /\ toClient' = Append(toClient, Head(Frame(u.op, u.r, n)))
                                     /\ parsed' = Tail(Frame(u.op, u.r, n))
            /\ serve' = "body"
         \/ ~socket /\ serve' = "closed" /\ UNCHANGED <<toClient, parsed>>
  BY Zenon DEF PInv, ServeRespond
<1>1. serve \notin {"none", "closed", "reset"} /\ serve' \in {"body", "closed"} /\ serve' # "none"
  BY <1>0, Zenon
<1>2. /\ Plan' /\ History'
      /\ outcome' \in Seq({"success", "failure"})
      /\ UNCHANGED <<todo, pc, socket, req, got, want, oob, returned>>
      /\ (MoreToSend' <=> MoreToSend) /\ (Busy' <=> Busy) /\ (ExpectsFd' <=> ExpectsFd)
      /\ Busy => /\ socket
                 /\ Asked \/ Handling \/ Handled \/ Answered
                 /\ \A i \in 1..Len(toClient) : toClient[i].r = req
                 /\ \A i \in 1..Len(got) : got[i].r = req
                 /\ toClient # <<>> \/ got # <<>> => Len(outcome) = req
                 /\ ExpectsFd /\ pc # "fd" => oob = req
      /\ pc = "step" /\ MoreToSend => socket /\ toProxy = <<>> /\ serve = "header"
  BY <1>0, <1>1, ServerStep, Zenon
<1>3. parsed # <<>> /\ u = parsed[1] /\ u.op \in Ops /\ u.r \in Nat
  <2>1. parsed # <<>> /\ u = parsed[1] /\ u \in FrameUnits
    BY <1>0 DEF PTypeOK
  <2> HIDE DEF u
  <2> QED  BY <2>1, Zenon DEF FrameUnits
<1> HIDE DEF u
<1>4. ASSUME NEW n \in 1..MaxBody
      PROVE  LET f == Frame(u.op, u.r, n) IN
             /\ Head(f) = Unit("h", u.op, u.r, n) /\ Head(f) \in FrameUnits
             /\ Tail(f) \in Seq(FrameUnits) /\ Len(Tail(f)) = n /\ Tail(f) # <<>>
             /\ \A i \in 1..n : Tail(f)[i] = Unit("b", u.op, u.r, n)
  <2> DEFINE f == Frame(u.op, u.r, n)
  <2>0. n \in Nat /\ n # 0
    BY ProxyClientAssumption
  <2>1. Head(f) = Unit("h", u.op, u.r, n)
        /\ Tail(f) \in Seq(FrameUnits) /\ Len(Tail(f)) = n
        /\ \A i \in 1..n : Tail(f)[i] = Unit("b", u.op, u.r, n)
    BY <1>3, <2>0, FrameFacts
  <2>2. Unit("h", u.op, u.r, n) \in FrameUnits
    <3> DEFINE a == u.op  b == u.r
    <3>1. a \in Ops /\ b \in Nat
      BY <1>3, Zenon
    <3> HIDE DEF a, b
    <3>2. Unit("h", a, b, n) \in FrameUnits
      BY <2>0, <3>1, Zenon DEF Unit, FrameUnits
    <3> QED  BY <3>2, Zenon DEF a, b
  <2> HIDE DEF f
  <2>3. Tail(f) # <<>>
    <3> DEFINE g == Tail(f)
    <3>1. Len(g) = n
      BY <2>1, Zenon
    <3> HIDE DEF g
    <3>2. g # <<>>
      BY <2>0, <3>1
    <3> QED  BY <3>2, Zenon DEF g
  <2> QED  BY <2>1, <2>2, <2>3, Zenon DEF f
<1>5. PTypeOK'
  <2>1. toClient' \in Seq(FrameUnits) /\ parsed' \in Seq(FrameUnits) /\ parsed' # <<>>
    <3>0. toClient \in Seq(FrameUnits) /\ parsed \in Seq(FrameUnits)
      BY <1>0, Zenon DEF PTypeOK
    <3>1. CASE \E n \in 1..MaxBody : /\ toClient' = Append(toClient, Head(Frame(u.op, u.r, n)))
                                     /\ parsed' = Tail(Frame(u.op, u.r, n))
      <4>1. PICK n \in 1..MaxBody : /\ toClient' = Append(toClient, Head(Frame(u.op, u.r, n)))
                                    /\ parsed' = Tail(Frame(u.op, u.r, n))
        BY <3>1, Zenon
      <4>2. Head(Frame(u.op, u.r, n)) \in FrameUnits
            /\ parsed' \in Seq(FrameUnits) /\ parsed' # <<>>
        BY <1>4, <4>1, Zenon
      <4> QED  BY <3>0, <4>1, <4>2
    <3>2. CASE UNCHANGED <<toClient, parsed>>
      BY <1>3, <3>0, <3>2, Zenon
    <3> QED  BY <1>0, <3>1, <3>2, Zenon
  <2>2. serve' \in {"none", "header", "handle", "respond", "body", "closed", "reset"}
    BY <1>1, Zenon
  <2> QED  BY <1>0, <1>2, <2>1, <2>2, Zenon DEF PTypeOK
<1>6. Idle'
  BY <1>0, <1>2, Zenon DEF Idle
<1>7. ASSUME Busy PROVE Answered' /\ (\A i \in 1..Len(toClient') : toClient'[i].r = req)
                        /\ Len(outcome') = req
  <2>1. Handled /\ socket
    BY <1>0, <1>2, <1>7, Zenon DEF Asked, Handling, Answered
  <2>2. PICK n \in 1..MaxBody : /\ toClient' = Append(toClient, Head(Frame(u.op, u.r, n)))
                                /\ parsed' = Tail(Frame(u.op, u.r, n))
    BY <1>0, <2>1, Zenon
  <2>3. serve' = "body" /\ n \in Nat /\ n # 0
    BY <1>0, <2>1, ProxyClientAssumption
  <2>4. u.op = Head(todo) /\ u.r = req
    BY <1>3, <2>1, Zenon DEF Handled, Own
  <2> DEFINE h == Unit("h", Head(todo), req, n)
  <2>5. /\ toClient' = Append(toClient, h) /\ h \in FrameUnits /\ Len(parsed') = n
        /\ parsed' # <<>>
        /\ \A i \in 1..n : parsed'[i] = BodyOf(n)
    BY <1>4, <2>2, <2>4, Zenon DEF BodyOf
  <2>6. h.r = req
    BY Zenon DEF Unit
  <2> HIDE DEF h
  <2>7. toClient \in Seq(FrameUnits) /\ (Lead' = Lead) /\ (BodyOf(n)' = BodyOf(n))
    BY <1>0, <1>2, Zenon DEF PTypeOK, Lead, BodyOf
  <2>8. got = <<>> /\ Len(outcome) = req /\ toProxy = <<>>
    BY <2>1, Zenon DEF Handled
  <2>9. Lead \in {1, 2} /\ Len(toClient) = Lead - 1 /\ pc # "rest"
        /\ (Lead = 2 => toClient[1].t = "F")
    <3>1. CASE pc = "header" /\ toClient = <<>>
      <4>1. Lead = 1 /\ Len(toClient) = 0
        BY <3>1, Zenon DEF Lead
      <4> QED  BY <3>1, <4>1
    <3>2. CASE pc = "fd" /\ outcome[req] # "success" /\ toClient = <<>>
      <4>1. Lead = 1 /\ Len(toClient) = 0
        BY <3>2, Zenon DEF Lead
      <4> QED  BY <3>2, <4>1
    <3>3. CASE pc = "fd" /\ outcome[req] = "success" /\ Len(toClient) = 1 /\ toClient[1].t = "F"
      <4>1. Lead = 2
        BY <3>3, Zenon DEF Lead
      <4> QED  BY <3>3, <4>1
    <3> QED  BY <2>1, <3>1, <3>2, <3>3, Zenon DEF Handled
  <2>10. Len(toClient') = Lead /\ toClient'[Lead] = h
         /\ \A i \in 1..Len(toClient) : toClient'[i] = toClient[i]
    BY <2>5, <2>7, <2>9
  <2>11. Lead = 2 => toClient'[1].t = "F"
    <3>1. Lead = 2 => 1 \in 1..Len(toClient)
      BY <2>9
    <3> QED  BY <2>9, <2>10, <3>1, Zenon
  <2>12. AnsweredWith(n)'
    <3>1. Len(got') = 0 /\ Len(got') + Len(toClient') + Len(parsed') = Lead' + n
      BY <1>2, <2>3, <2>5, <2>7, <2>8, <2>9, <2>10
    <3>2. \A i \in 1..Len(got') : FALSE
      BY <3>1
    <3>3. \A i \in 1..Len(toClient') : ~(i > Lead')
      BY <2>7, <2>9, <2>10
    <3>4. toClient'[Lead'] = Unit("h", Head(todo), req, n)'
      BY <1>2, <2>7, <2>10, Zenon DEF h
    <3>5. \A i \in 1..Len(parsed') : parsed'[i] = BodyOf(n)'
      BY <2>5, <2>7, Zenon
    <3> QED  BY <1>2, <2>9, <3>1, <3>2, <3>3, <3>4, <3>5, ZenonT(20) DEF AnsweredWith
  <2>13. Len(toClient') >= Lead'
    BY <2>7, <2>9, <2>10
  <2>14. \A i \in 1..Len(toClient') : toClient'[i].r = req
    <3> SUFFICES ASSUME NEW i \in 1..Len(toClient') PROVE toClient'[i].r = req
      BY Zenon
    <3>1. i \in 1..Len(toClient) \/ i = Lead
      BY <2>9, <2>10
    <3> QED  BY <1>2, <1>7, <2>6, <2>10, <3>1, Zenon
  <2>15. n \in Nat \ {0}
    BY <2>3, Zenon
  <2>16. Answered'
    <3>1. serve' \in {"body", "header"} /\ serve' # "header"
      BY <2>3, Zenon
    <3> QED  BY <1>0, <1>2, <2>5, <2>7, <2>8, <2>11, <2>12, <2>13, <2>15, <3>1, Zenon DEF Answered
  <2> QED  BY <1>0, <2>8, <2>14, <2>16, Zenon
<1>8. Exchange'
  BY <1>0, <1>2, <1>7, Zenon DEF Exchange
<1> QED  BY <1>2, <1>5, <1>6, <1>8, Zenon DEF PInv

\* A unit of its body is sent.
LEMMA PServeBody == ASSUME PInv, ServeBody PROVE PInv'
<1> DEFINE u == Head(parsed)
<1>0. PTypeOK /\ serve = "body" /\ Server /\ UNCHANGED <<toProxy, outcome>>
      /\ \/ /\ toClient' = Append(toClient, u) /\ parsed' = Tail(parsed)
            /\ serve' = IF Len(parsed) = 1 THEN "header" ELSE "body"
         \/ ~socket /\ serve' = "closed" /\ UNCHANGED <<toClient, parsed>>
  BY Zenon DEF PInv, ServeBody
<1>1. serve \notin {"none", "closed", "reset"} /\ serve' \in {"body", "header", "closed"}
      /\ serve' # "none"
  BY <1>0, Zenon
<1>2. /\ Plan' /\ History'
      /\ outcome' \in Seq({"success", "failure"})
      /\ UNCHANGED <<todo, pc, socket, req, got, want, oob, returned>>
      /\ (MoreToSend' <=> MoreToSend) /\ (Busy' <=> Busy) /\ (ExpectsFd' <=> ExpectsFd)
      /\ Busy => /\ socket
                 /\ Asked \/ Handling \/ Handled \/ Answered
                 /\ \A i \in 1..Len(toClient) : toClient[i].r = req
                 /\ \A i \in 1..Len(got) : got[i].r = req
                 /\ toClient # <<>> \/ got # <<>> => Len(outcome) = req
                 /\ ExpectsFd /\ pc # "fd" => oob = req
      /\ pc = "step" /\ MoreToSend => socket /\ toProxy = <<>> /\ serve = "header"
  BY <1>0, <1>1, ServerStep, Zenon
<1>3. /\ parsed # <<>> /\ u = parsed[1] /\ u \in FrameUnits /\ toClient \in Seq(FrameUnits)
      /\ Tail(parsed) \in Seq(FrameUnits) /\ Len(Tail(parsed)) = Len(parsed) - 1
      /\ Len(parsed) \in Nat \ {0} /\ 1 \in 1..Len(parsed)
      /\ \A i \in 1..Len(Tail(parsed)) :
            i + 1 \in 1..Len(parsed) /\ Tail(parsed)[i] = parsed[i + 1]
      /\ (Len(parsed) = 1 <=> Tail(parsed) = <<>>)
  <2>1. parsed \in Seq(FrameUnits) /\ parsed # <<>> /\ toClient \in Seq(FrameUnits)
    BY <1>0, Zenon DEF PTypeOK
  <2>2. Tail(parsed) \in Seq(FrameUnits) /\ Len(Tail(parsed)) = Len(parsed) - 1
        /\ Len(parsed) \in Nat \ {0} /\ u = parsed[1] /\ u \in FrameUnits /\ 1 \in 1..Len(parsed)
        /\ \A i \in 1..Len(Tail(parsed)) :
              i + 1 \in 1..Len(parsed) /\ Tail(parsed)[i] = parsed[i + 1]
    BY <2>1
  <2>3. Len(parsed) = 1 <=> Tail(parsed) = <<>>
    <3> DEFINE g == Tail(parsed)
    <3>1. g \in Seq(FrameUnits) /\ Len(g) = Len(parsed) - 1 /\ Len(parsed) \in Nat \ {0}
      BY <2>2, Zenon
    <3> HIDE DEF g
    <3>0. g \in Seq(FrameUnits)
      BY <3>1, Zenon
    <3>2. Len(g) = 0 <=> g = <<>>
      BY <3>0, EmptySeq, Zenon
    <3>3. Len(parsed) = 1 <=> Len(g) = 0
      <4> DEFINE a == Len(g)  b == Len(parsed)
      <4>1. a = b - 1 /\ b \in Nat
        BY <3>1, Zenon
      <4> HIDE DEF a, b
      <4>2. b = 1 <=> a = 0
        BY <4>1
      <4> QED  BY <4>2, Zenon DEF a, b
    <3> QED  BY <3>2, <3>3, Zenon DEF g
  <2> QED  BY <2>1, <2>2, <2>3, Zenon
<1> HIDE DEF u
<1>4. PTypeOK'
  <2>1. toClient' \in Seq(FrameUnits) /\ parsed' \in Seq(FrameUnits)
    <3>1. Append(toClient, u) \in Seq(FrameUnits) /\ parsed \in Seq(FrameUnits)
      BY <1>0, <1>3 DEF PTypeOK
    <3> QED  BY <1>0, <1>3, <3>1, Zenon
  <2>2. serve' \in {"none", "header", "handle", "respond", "body", "closed", "reset"}
    BY <1>1, Zenon
  <2>3. serve' \in {"handle", "respond", "body"} => parsed' # <<>>
    BY <1>0, <1>3, Zenon
  <2> QED  BY <1>0, <1>2, <2>1, <2>2, <2>3, Zenon DEF PTypeOK
<1>5. Idle'
  BY <1>0, <1>2, Zenon DEF Idle
<1>6. ASSUME Busy PROVE Answered' /\ (\A i \in 1..Len(toClient') : toClient'[i].r = req)
                        /\ Len(outcome') = req
  <2>1. Answered /\ socket
    BY <1>0, <1>2, <1>6, Zenon DEF Asked, Handling, Handled
  <2>2. PICK n \in Nat \ {0} : AnsweredWith(n)
    BY <2>1, Zenon DEF Answered
  <2>3. toClient' = Append(toClient, u) /\ parsed' = Tail(parsed)
        /\ serve' = IF Len(parsed) = 1 THEN "header" ELSE "body"
    BY <1>0, <2>1, Zenon
  <2>4. u = BodyOf(n) /\ (\A i \in 1..Len(parsed) : parsed[i] = BodyOf(n))
    BY <1>3, <2>2, Zenon DEF AnsweredWith
  <2>5. u.r = req
    BY <2>4, Zenon DEF BodyOf, Unit
  <2>6. (Lead' = Lead) /\ (BodyOf(n)' = BodyOf(n)) /\ Lead \in {0, 1, 2}
    BY <1>0, <1>2, Zenon DEF Lead, BodyOf
  <2>7. /\ Len(toClient') = Len(toClient) + 1 /\ Len(toClient) \in Nat
        /\ \A i \in 1..Len(toClient) : toClient'[i] = toClient[i]
        /\ toClient'[Len(toClient) + 1] = u
        /\ \A i \in 1..Len(toClient') : i \in 1..Len(toClient) \/ i = Len(toClient) + 1
    BY <1>3, <2>3
  <2>8. Len(toClient) >= Lead /\ (Lead = 2 => toClient[1].t = "F") /\ (pc # "rest" => got = <<>>)
        /\ Len(outcome) = req /\ toProxy = <<>>
    BY <2>1, Zenon DEF Answered
  <2>9. AnsweredWith(n)'
    <3>1. Len(got') + Len(toClient') + Len(parsed') = Lead' + n
      <4> DEFINE a == Len(got)  b == Len(toClient)  c == Len(parsed)
      <4>1. a + b + c = Lead + n /\ a \in Nat /\ b \in Nat /\ c \in Nat
        BY <1>0, <1>3, <2>2, <2>7 DEF AnsweredWith, PTypeOK
      <4>2. Len(got') = a /\ Len(toClient') = b + 1 /\ Len(parsed') = c - 1
        BY <1>2, <1>3, <2>3, <2>7, Zenon
      <4> HIDE DEF a, b, c
      <4> QED  BY <2>6, <4>1, <4>2
    <3>2. Lead' # 0 => toClient'[Lead'] = Unit("h", Head(todo), req, n)'
      <4>1. Lead # 0 => Lead \in 1..Len(toClient)
        BY <2>6, <2>7, <2>8
      <4> QED  BY <1>2, <2>2, <2>6, <2>7, <4>1, Zenon DEF AnsweredWith
    <3>3. \A i \in 1..Len(got') : got'[i] = BodyOf(n)'
      BY <1>2, <2>2, <2>6, Zenon DEF AnsweredWith
    <3>4. \A i \in 1..Len(toClient') : i > Lead' => toClient'[i] = BodyOf(n)'
      BY <2>2, <2>4, <2>6, <2>7, Zenon DEF AnsweredWith
    <3>5. \A i \in 1..Len(parsed') : parsed'[i] = BodyOf(n)'
      BY <1>3, <2>3, <2>4, <2>6, Zenon
    <3>6. pc' = "rest" => want' = n
      BY <1>2, <2>2, Zenon DEF AnsweredWith
    <3> QED  BY <3>1, <3>2, <3>3, <3>4, <3>5, <3>6, Zenon DEF AnsweredWith
  <2>10. \A i \in 1..Len(toClient') : toClient'[i].r = req
    BY <1>2, <1>6, <2>5, <2>7, ZenonT(20)
  <2>11. Answered'
    <3>1. serve' \in {"body", "header"} /\ (serve' = "header" <=> parsed' = <<>>)
      BY <1>3, <2>3, Zenon
    <3>2. Len(toClient') >= Lead'
      BY <2>6, <2>7, <2>8
    <3>3. Lead' = 2 => toClient'[1].t = "F"
      <4>1. Lead = 2 => 1 \in 1..Len(toClient)
        BY <2>7, <2>8
      <4> QED  BY <2>6, <2>7, <2>8, <4>1, Zenon
    <3> QED  BY <1>0, <1>2, <2>2, <2>8, <2>9, <3>1, <3>2, <3>3, Zenon DEF Answered
  <2> QED  BY <1>0, <2>8, <2>10, <2>11, Zenon
<1>7. Exchange'
  BY <1>0, <1>2, <1>6, Zenon DEF Exchange
<1> QED  BY <1>2, <1>4, <1>5, <1>7, Zenon DEF PInv

-----------------------------------------------------------------------------
(* The steps of the client that read.                                       *)

\* A command returns: cc_proxy_hyper_check_response finds the response of its own
\* request, if any.  As long as the connection is there it is all of it, or the
\* request has failed.
LEMMA Returning ==
  ASSUME PInv, Busy, NEW units \in Seq(FrameUnits), Return(units),
         \A i \in 1..Len(units) : units[i].r = req,
         units # <<>> => Len(outcome) = req /\ pc # "fd",
         ~Closed => /\ Len(outcome) = req
                    /\ \/ outcome[req] # "success"
                       \/ /\ IsResponse(units, req) /\ toClient' = <<>>
                          /\ parsed = <<>> /\ toProxy = <<>> /\ serve = "header",
         toClient' \in Seq(FrameUnits), got' \in Seq(FrameUnits), want' \in Nat,
         UNCHANGED <<socket, req, toProxy, serve, parsed, outcome, oob>>
  PROVE  PInv'
<1> DEFINE parses == units # <<>> /\ IsResponse(units, Head(units).r)
           ok == parses /\ outcome[Head(units).r] = "success"
           from == IF parses THEN Head(units).r ELSE 0
           fd == IF ExpectsFd THEN oob ELSE 0
           c == [op |-> Head(todo), r |-> req, ok |-> ok, from |-> from, fd |-> fd]
<1>0. PTypeOK /\ Plan /\ Exchange /\ History
  BY Zenon DEF PInv
<1>1. pc' = "step" /\ Done(ok) /\ returned' = Append(returned, c)
  BY Zenon DEF Return
<1>2. todo # <<>> /\ Head(todo) \in Ops /\ req # 0 /\ req \in Nat /\ Shape /\ todo \in Seq(Steps)
  BY <1>0, Zenon DEF Plan, Busy, PTypeOK
<1>3. units # <<>> => Head(units).r = req
  <2> SUFFICES ASSUME units # <<>> PROVE Head(units).r = req
    BY Zenon
  <2>1. 1 \in 1..Len(units) /\ Head(units) = units[1]
    OBVIOUS
  <2> QED  BY <2>1, Zenon
<1>4. Len(outcome) = req => req \in 1..Len(outcome) /\ outcome[req] \in {"success", "failure"}
  <2> DEFINE S == {"success", "failure"}
  <2>1. outcome \in Seq(S)
    BY <1>0, Zenon DEF PTypeOK
  <2> HIDE DEF S
  <2>2. Len(outcome) = req => req \in 1..Len(outcome) /\ outcome[req] \in S
    BY <1>2, <2>1
  <2> QED  BY <2>2, Zenon DEF S
<1>5. ok => from = req /\ Len(outcome) = req /\ outcome[req] = "success" /\ pc # "fd"
  BY <1>3, Zenon
<1>6. ~ok /\ ~Closed => Len(outcome) = req /\ outcome[req] = "failure"
  <2> SUFFICES ASSUME ~ok, ~Closed PROVE Len(outcome) = req /\ outcome[req] = "failure"
    BY Zenon
  <2>1. CASE outcome[req] # "success"
    BY <1>4, <2>1, Zenon
  <2>2. CASE outcome[req] = "success"
    <3>1. IsResponse(units, req) /\ units # <<>>
      BY <2>2, Zenon DEF IsResponse
    <3> QED  BY <1>3, <2>2, <3>1, Zenon
  <2> QED  BY <2>1, <2>2, Zenon
<1>7. ok \in BOOLEAN /\ from \in Nat /\ fd \in Nat /\ (ExpectsFd => fd = oob)
  <2>1. ok \in BOOLEAN
    BY Zenon
  <2>2. from = req \/ from = 0
    BY <1>3, Zenon
  <2>3. from \in Nat
    BY <1>2, <2>2
  <2>4. fd \in Nat /\ (ExpectsFd => fd = oob)
    BY <1>0, Zenon DEF PTypeOK
  <2> QED  BY <2>1, <2>3, <2>4, Zenon
<1>8. ok /\ Head(todo) = "allocateIO" => fd = req
  BY <1>0, <1>5, <1>7, Zenon DEF Exchange, ExpectsFd
<1> HIDE DEF ok, from, fd
<1>9. c \in Returns
  <2>1. Head(todo) \in Steps
    BY <1>2, Zenon DEF Steps
  <2> QED  BY <1>2, <1>7, <2>1, Zenon DEF Returns
<1>10. ASSUME NEW d, d = c
       PROVE  /\ d.ok => /\ d.from = d.r /\ d.r \in 1..Len(outcome) /\ outcome[d.r] = "success"
                         /\ d.op = "allocateIO" => d.fd = d.r
              /\ ~d.ok => Closed \/ (d.r \in 1..Len(outcome) /\ outcome[d.r] = "failure")
  <2>1. d.op = Head(todo) /\ d.r = req /\ d.ok = ok /\ d.from = from /\ d.fd = fd
    BY <1>10, Zenon
  <2> HIDE DEF c
  <2>2. d.ok => /\ d.from = d.r /\ d.r \in 1..Len(outcome) /\ outcome[d.r] = "success"
                /\ d.op = "allocateIO" => d.fd = d.r
    BY <1>4, <1>5, <1>8, <2>1, Zenon
  <2>3. ~d.ok => Closed \/ (d.r \in 1..Len(outcome) /\ outcome[d.r] = "failure")
    BY <1>4, <1>6, <2>1, Zenon
  <2> QED  BY <2>2, <2>3, ZenonT(20)
<1> HIDE DEF c
<1>11. returned' \in Seq(Returns) /\ Len(returned') = Len(returned) + 1
       /\ (\A i \in 1..Len(returned) : returned'[i] = returned[i])
       /\ returned'[Len(returned) + 1] = c
       /\ (\A i \in 1..Len(returned') : i \in 1..Len(returned) \/ i = Len(returned) + 1)
  <2>1. returned \in Seq(Returns)
    BY <1>0, Zenon DEF PTypeOK
  <2> QED  BY <1>1, <1>9, <2>1
<1>12. Closed' <=> Closed
  BY Zenon DEF Closed
<1>13. History'
  <2> SUFFICES ASSUME NEW i \in 1..Len(returned') PROVE Justified(returned[i])'
    BY Zenon DEF History
  <2>1. CASE i \in 1..Len(returned)
    <3>1. Justified(returned[i]) /\ returned'[i] = returned[i]
      BY <1>0, <1>11, <2>1, Zenon DEF History
    <3> QED  BY <1>12, <3>1, Zenon DEF Justified
  <2>2. CASE i = Len(returned) + 1
    <3> DEFINE d == returned'[i]
    <3>1. d = c
      BY <1>11, <2>2, Zenon
    <3> HIDE DEF d
    <3>2. /\ d.ok => /\ d.from = d.r /\ d.r \in 1..Len(outcome) /\ outcome[d.r] = "success"
                     /\ d.op = "allocateIO" => d.fd = d.r
          /\ ~d.ok => Closed \/ (d.r \in 1..Len(outcome) /\ outcome[d.r] = "failure")
      BY <1>10, <3>1, Zenon
    <3>3. outcome' = outcome
      BY Zenon
    <3> QED  BY <1>12, <3>2, <3>3, Zenon DEF Justified, d
  <2> QED  BY <1>11, <2>1, <2>2, Zenon
<1>14. todo' \in Seq(Steps) /\ Shape' /\ ~Fresh' /\ (MoreToSend' => MoreToSend /\ ok)
  BY <1>1, <1>2, DoneFacts
<1>15. PTypeOK'
  <2>1. pc' \in {"step", "fd", "header", "rest", "hung"}
    BY <1>1, Zenon
  <2> QED  BY <1>0, <1>11, <1>14, <2>1, Zenon DEF PTypeOK
<1>16. Plan' /\ Exchange'
  <2>1. ~Busy'
    BY <1>1, Zenon DEF Busy
  <2>2. MoreToSend' => socket' /\ serve' # "none"
    <3>1. ~Fresh
      BY <1>2, Zenon DEF Fresh, Ops
    <3> QED  BY <1>0, <1>14, <3>1, Zenon DEF Plan
  <2> QED  BY <1>1, <1>14, <2>1, <2>2, Zenon DEF Plan, Exchange
<1>17. Idle'
  BY <1>5, <1>12, <1>14, Zenon DEF Idle
<1> QED  BY <1>13, <1>15, <1>16, <1>17, Zenon DEF PInv

\* The first k units of what is on the way have been taken.
Took(k) ==
  /\ toClient' \in Seq(FrameUnits) /\ Len(toClient') = Len(toClient) - k
  /\ \A i \in 1..Len(toClient') : k + i \in 1..Len(toClient) /\ toClient'[i] = toClient[k + i]

\* A command that goes on waiting leaves the conversation where it is.
LEMMA Reading ==
  ASSUME PInv, Busy, pc' \in {"header", "rest"}, Exchange',
         toClient' \in Seq(FrameUnits), got' \in Seq(FrameUnits), want' \in Nat, oob' \in Nat,
         UNCHANGED <<todo, returned, socket, req, toProxy, serve, parsed, outcome>>
  PROVE  PInv'
<1>0. PTypeOK /\ Plan /\ History
  BY Zenon DEF PInv
<1>1. PTypeOK'
  <2>1. pc' \in {"step", "fd", "header", "rest", "hung"}
    BY Zenon
  <2> QED  BY <1>0, <2>1, Zenon DEF PTypeOK
<1>2. History'
  BY <1>0, HistoryKept, Zenon DEF Closed
<1>3. (Fresh' <=> Fresh) /\ (Shape' <=> Shape) /\ (MoreToSend' <=> MoreToSend)
  BY Zenon DEF Fresh, Shape, MoreToSend
<1>4. ~Fresh /\ pc # "step" /\ pc' # "step"
  BY <1>0, Zenon DEF Plan, Busy
<1>5. Plan' /\ Idle'
  BY <1>0, <1>3, <1>4, Zenon DEF Plan, Idle
<1> QED  BY <1>1, <1>2, <1>5, Zenon DEF PInv

\* A command that waits for ever.
LEMMA Hanging ==
  ASSUME PInv, Busy, pc' = "hung",
         UNCHANGED <<todo, socket, req, got, want, oob, returned, toProxy, toClient, serve, parsed,
                     outcome>>
  PROVE  PInv'
<1>0. PTypeOK /\ Plan /\ History
  BY Zenon DEF PInv
<1>1. PTypeOK'
  <2>1. pc' \in {"step", "fd", "header", "rest", "hung"}
    BY Zenon
  <2> QED  BY <1>0, <2>1, Zenon DEF PTypeOK
<1>2. History'
  BY <1>0, HistoryKept, Zenon DEF Closed
<1>3. (Fresh' <=> Fresh) /\ (Shape' <=> Shape) /\ (MoreToSend' <=> MoreToSend)
  BY Zenon DEF Fresh, Shape, MoreToSend
<1>4. ~Fresh /\ pc # "step" /\ pc' # "step" /\ ~Busy'
  BY <1>0, Zenon DEF Plan, Busy
<1>5. Plan' /\ Idle' /\ Exchange'
  BY <1>0, <1>3, <1>4, Zenon DEF Plan, Idle, Exchange
<1> QED  BY <1>1, <1>2, <1>5, Zenon DEF PInv

\* The file descriptor of its request has been received.
LEMMA TakesFd ==
  ASSUME PInv, pc = "fd", toClient # <<>>, Head(toClient).t = "F", Took(1),
         oob' = Head(toClient).r, pc' = "header",
         UNCHANGED <<todo, returned, socket, req, got, want, toProxy, serve, parsed, outcome>>
  PROVE  PInv'
<1>0. PTypeOK /\ Exchange /\ Busy
  BY Zenon DEF PInv, Busy
<1>1. toClient \in Seq(FrameUnits) /\ Head(toClient) = toClient[1] /\ 1 \in 1..Len(toClient)
      /\ Len(toClient) \in Nat
  BY <1>0 DEF PTypeOK
<1>2. /\ \A i \in 1..Len(toClient) : toClient[i].r = req
      /\ \A i \in 1..Len(got) : got[i].r = req
      /\ Len(outcome) = req
      /\ ~Closed => Asked \/ Handling \/ Handled \/ Answered
  BY <1>0, Zenon DEF Exchange
<1>3. oob' = req /\ oob' \in Nat
  BY <1>0, <1>1, <1>2, Zenon DEF PTypeOK
<1>4. \A i \in 1..Len(toClient') : 1 + i \in 1..Len(toClient) /\ toClient'[i] = toClient[1 + i]
  BY Zenon DEF Took
<1>5. \A i \in 1..Len(toClient') : toClient'[i].r = req
  BY <1>2, <1>4, Zenon
<1>6. (Closed' <=> Closed) /\ (ExpectsFd' <=> ExpectsFd)
  BY Zenon DEF Closed, ExpectsFd
<1>7. ASSUME ~Closed PROVE Handled' \/ Answered'
  <2>1. CASE Handled
    <3>1. Len(toClient) = 1
      BY <2>1, Zenon DEF Handled
    <3>2. toClient' = <<>>
      <4>1. toClient' \in Seq(FrameUnits) /\ Len(toClient') = 0
        BY <3>1 DEF Took
      <4> QED  BY <4>1, EmptySeq, Zenon
    <3>3. Own(parsed[1])' <=> Own(parsed[1])
      BY Zenon DEF Own
    <3> QED  BY <2>1, <3>2, <3>3, Zenon DEF Handled
  <2>2. CASE Answered
    <3>1. PICK n \in Nat \ {0} : AnsweredWith(n)
      BY <2>2, Zenon DEF Answered
    <3>2. Lead = 2
      <4>1. Lead = 1 \/ Lead = 2
        BY Zenon DEF Lead
      <4>2. Lead = 1 => toClient[1].t = "h"
        BY <3>1 DEF AnsweredWith, Unit
      <4> QED  BY <1>1, <4>1, <4>2, Zenon
    <3>3. Lead' = 1
      BY Zenon DEF Lead
    <3>4. Len(toClient) >= 2 /\ toClient[2] = Unit("h", Head(todo), req, n)
          /\ Len(got) + Len(toClient) + Len(parsed) = 2 + n
          /\ (\A i \in 1..Len(got) : got[i] = BodyOf(n))
          /\ (\A i \in 1..Len(toClient) : i > 2 => toClient[i] = BodyOf(n))
          /\ (\A i \in 1..Len(parsed) : parsed[i] = BodyOf(n))
      BY <2>2, <3>1, <3>2 DEF Answered, AnsweredWith
    <3>5. BodyOf(n)' = BodyOf(n)
      BY Zenon DEF BodyOf
    <3>6. Len(toClient') = Len(toClient) - 1
      BY Zenon DEF Took
    <3>7. AnsweredWith(n)'
      <4>1. Len(got') + Len(toClient') + Len(parsed') = Lead' + n
        <5> DEFINE a == Len(got)  b == Len(toClient)  c == Len(parsed)
        <5>1. a + b + c = 2 + n /\ a \in Nat /\ b \in Nat /\ c \in Nat
          BY <1>0, <1>1, <3>4, SMTT(20) DEF PTypeOK
        <5> HIDE DEF a, b, c
        <5>2. a + (b - 1) + c = 1 + n
          BY <5>1
        <5> QED  BY <3>3, <3>6, <5>2, Zenon DEF a, b, c
      <4>2. toClient'[1] = Unit("h", Head(todo), req, n)'
        <5>1. 1 \in 1..Len(toClient') /\ 1 + 1 = 2
          BY <1>1, <3>4, <3>6
        <5> QED  BY <1>4, <3>4, <5>1, Zenon
      <4>3. \A i \in 1..Len(toClient') : i > Lead' => toClient'[i] = BodyOf(n)'
        <5> SUFFICES ASSUME NEW i \in 1..Len(toClient'), i > 1 PROVE toClient'[i] = BodyOf(n)
          BY <3>3, <3>5, Zenon
        <5>1. 1 + i > 2
          BY <1>1, <3>6
        <5> QED  BY <1>4, <3>4, <5>1, Zenon
      <4> QED  BY <3>3, <3>4, <3>5, <4>1, <4>2, <4>3, Zenon DEF AnsweredWith
    <3>8. Len(toClient') >= Lead' /\ Lead' # 2
      BY <1>1, <3>3, <3>4, <3>6
    <3>9. got = <<>> /\ serve \in {"body", "header"} /\ Len(outcome) = req /\ toProxy = <<>>
          /\ (serve = "header" <=> parsed = <<>>)
      BY <2>2, Zenon DEF Answered
    <3> QED  BY <3>7, <3>8, <3>9, Zenon DEF Answered
  <2> QED  BY <1>2, <1>7, <2>1, <2>2, Zenon DEF Asked, Handling
<1>8. Exchange'
  BY <1>2, <1>3, <1>5, <1>6, <1>7, ZenonT(20) DEF Exchange
<1> QED
  <2>1. pc' \in {"header", "rest"} /\ toClient' \in Seq(FrameUnits) /\ got' \in Seq(FrameUnits)
        /\ want' \in Nat
    BY <1>0, Zenon DEF Took, PTypeOK
  <2> QED  BY <1>0, <1>3, <1>8, <2>1, Reading, Zenon

\* There is none: the request has failed, or the connection has ended.
LEMMA NoFd ==
  ASSUME PInv, pc = "fd", toClient # <<>>, Head(toClient).t # "F", Return(<<>>),
         toClient' \in Seq(FrameUnits),
         UNCHANGED <<socket, req, got, want, toProxy, serve, parsed, outcome, oob>>
  PROVE  PInv'
<1>0. PTypeOK /\ Exchange /\ Busy
  BY Zenon DEF PInv, Busy
<1>1. Head(toClient) = toClient[1]
  BY <1>0 DEF PTypeOK
<1>2. Len(outcome) = req /\ (~Closed => Asked \/ Handling \/ Handled \/ Answered)
  BY <1>0, Zenon DEF Exchange
<1>3. ~Closed => outcome[req] # "success"
  <2> SUFFICES ASSUME ~Closed, outcome[req] = "success" PROVE FALSE
    BY Zenon
  <2>1. ~Asked /\ ~Handling
    BY Zenon DEF Asked, Handling
  <2>2. ~Handled
    BY <1>1, Zenon DEF Handled
  <2>3. ~Answered
    <3>1. Lead = 2
      BY Zenon DEF Lead
    <3> QED  BY <1>1, <3>1, Zenon DEF Answered
  <2> QED  BY <1>2, <2>1, <2>2, <2>3, Zenon
<1>4. <<>> \in Seq(FrameUnits) /\ (\A i \in 1..Len(<<>>) : FALSE)
  OBVIOUS
<1>5. got' \in Seq(FrameUnits) /\ want' \in Nat
  BY <1>0, Zenon DEF PTypeOK
<1> QED  BY <1>0, <1>2, <1>3, <1>4, <1>5, Returning, Zenon

\* Where a command is that has something to read behind the file descriptor.
LEMMA AfterFd ==
  ASSUME PInv, ~Closed, (pc = "header" /\ toClient # <<>>) \/ pc = "rest"
  PROVE  Answered /\ Lead = IF pc = "rest" THEN 0 ELSE 1
<1>0. Exchange /\ Busy
  BY Zenon DEF PInv, Busy
<1>1. Asked \/ Handling \/ Handled \/ Answered
  BY <1>0, Zenon DEF Exchange
<1>2. ~Asked /\ ~Handling /\ ~Handled
  BY Zenon DEF Asked, Handling, Handled, Waiting
<1> QED  BY <1>1, <1>2, Zenon DEF Lead

\* All units of a body are the response to the request.
LEMMA AllRead ==
  ASSUME NEW units \in Seq(FrameUnits), NEW n \in Nat \ {0}, Len(units) = n,
         \A i \in 1..Len(units) : units[i] = BodyOf(n)
  PROVE  IsResponse(units, req)
<1>1. 1 \in 1..Len(units) /\ DOMAIN units = 1..Len(units) /\ units # <<>>
  OBVIOUS
<1>2. units[1].op = Head(todo)
  BY <1>1 DEF BodyOf, Unit
<1>3. \A i \in DOMAIN units : units[i] = Unit("b", units[1].op, req, Len(units))
  BY <1>1, <1>2, Zenon DEF BodyOf
<1> QED  BY <1>1, <1>3, Zenon DEF IsResponse

\* The header has been received, and perhaps some of the body.
LEMMA FirstPart ==
  ASSUME PInv, pc = "header", toClient # <<>>, NEW k \in 1..Len(toClient), Took(k),
         got' \in Seq(FrameUnits), \A i \in 1..Len(got') : got'[i].r = req,
         ~Closed => /\ Len(got') = k - 1
                    /\ \A i \in 1..Len(got') : 1 + i \in 1..Len(toClient) /\ got'[i] = toClient[1 + i],
         want' = Head(toClient).n, pc' = "rest",
         UNCHANGED <<todo, returned, socket, req, oob, toProxy, serve, parsed, outcome>>
  PROVE  PInv'
<1>0. PTypeOK /\ Exchange /\ Busy
  BY Zenon DEF PInv, Busy
<1>1. toClient \in Seq(FrameUnits) /\ Head(toClient) = toClient[1] /\ 1 \in 1..Len(toClient)
      /\ Len(toClient) \in Nat /\ Head(toClient) \in FrameUnits
  BY <1>0 DEF PTypeOK
<1>2. /\ \A i \in 1..Len(toClient) : toClient[i].r = req
      /\ Len(outcome) = req /\ (ExpectsFd => oob = req)
  BY <1>0, Zenon DEF Exchange
<1>3. want' \in Nat
  BY <1>1, Zenon DEF FrameUnits
<1>4. \A i \in 1..Len(toClient') : k + i \in 1..Len(toClient) /\ toClient'[i] = toClient[k + i]
  BY Zenon DEF Took
<1>5. \A i \in 1..Len(toClient') : toClient'[i].r = req
  BY <1>2, <1>4, ZenonT(20)
<1>6. (Closed' <=> Closed) /\ (ExpectsFd' <=> ExpectsFd)
  BY Zenon DEF Closed, ExpectsFd
<1>7. ASSUME ~Closed PROVE Answered'
  <2>1. Answered /\ Lead = 1
    BY <1>7, AfterFd, Zenon
  <2>2. PICK n \in Nat \ {0} : AnsweredWith(n)
    BY <2>1, Zenon DEF Answered
  <2>3. Lead' = 0 /\ BodyOf(n)' = BodyOf(n)
    BY Zenon DEF Lead, BodyOf
  <2>4. toClient[1] = Unit("h", Head(todo), req, n) /\ got = <<>>
        /\ Len(got) + Len(toClient) + Len(parsed) = 1 + n
        /\ (\A i \in 1..Len(toClient) : i > 1 => toClient[i] = BodyOf(n))
        /\ (\A i \in 1..Len(parsed) : parsed[i] = BodyOf(n))
    BY <2>1, <2>2 DEF Answered, AnsweredWith
  <2>5. want' = n
    BY <1>1, <2>4 DEF Unit
  <2>6. Len(got') = k - 1
        /\ \A i \in 1..Len(got') : 1 + i \in 1..Len(toClient) /\ got'[i] = toClient[1 + i]
    BY <1>7, Zenon
  <2>7. Len(toClient') = Len(toClient) - k
    BY Zenon DEF Took
  <2>8. Len(got') + Len(toClient') + Len(parsed') = Lead' + n
    <3> DEFINE b == Len(toClient)  c == Len(parsed)
    <3>1. b + c = 1 + n /\ b \in Nat /\ c \in Nat /\ k \in Nat
      <4>1. Len(got) = 0
        BY <2>4, Zenon
      <4> QED  BY <1>0, <1>1, <2>4, <4>1 DEF PTypeOK
    <3> HIDE DEF b, c
    <3>2. (k - 1) + (b - k) + c = 0 + n
      BY <3>1
    <3> QED  BY <2>3, <2>6, <2>7, <3>2, Zenon DEF b, c
  <2>9. \A i \in 1..Len(got') : got'[i] = BodyOf(n)'
    <3> SUFFICES ASSUME NEW i \in 1..Len(got') PROVE got'[i] = BodyOf(n)
      BY <2>3, Zenon
    <3>1. 1 + i > 1
      OBVIOUS
    <3> QED  BY <2>4, <2>6, <3>1, Zenon
  <2>10. \A i \in 1..Len(toClient') : toClient'[i] = BodyOf(n)'
    <3> SUFFICES ASSUME NEW i \in 1..Len(toClient') PROVE toClient'[i] = BodyOf(n)
      BY <2>3, Zenon
    <3>1. k + i > 1
      BY <1>1
    <3> QED  BY <1>4, <2>4, <3>1, Zenon
  <2>11. \A i \in 1..Len(parsed') : parsed'[i] = BodyOf(n)'
    BY <2>3, <2>4, Zenon
  <2>12. AnsweredWith(n)'
    BY <2>3, <2>5, <2>8, <2>9, <2>10, <2>11, Zenon DEF AnsweredWith
  <2>13. Len(toClient') >= Lead' /\ Lead' # 2
    BY <1>1, <2>3 DEF Took
  <2>14. serve \in {"body", "header"} /\ Len(outcome) = req /\ toProxy = <<>>
         /\ (serve = "header" <=> parsed = <<>>)
    BY <2>1, Zenon DEF Answered
  <2> QED  BY <2>12, <2>13, <2>14, Zenon DEF Answered
<1>8. Exchange'
  BY <1>2, <1>5, <1>6, <1>7, Zenon DEF Exchange
<1> QED
  <2>1. pc' \in {"header", "rest"} /\ toClient' \in Seq(FrameUnits) /\ oob' \in Nat
    BY <1>0, Zenon DEF Took, PTypeOK
  <2> QED  BY <1>0, <1>3, <1>8, <2>1, Reading, Zenon

\* What has been received of a response, with k more units of it.
Longer(g, k) ==
  /\ g \in Seq(FrameUnits) /\ Len(g) = Len(got) + k
  /\ \A i \in 1..Len(g) : \/ i \in 1..Len(got) /\ g[i] = got[i]
                          \/ \E j \in 1..k : g[i] = toClient[j]

\* These are units of the response as well.
LEMMA LongerFacts ==
  ASSUME PInv, pc = "rest", NEW k \in 1..Len(toClient), NEW g, Longer(g, k)
  PROVE  /\ \A i \in 1..Len(g) : g[i].r = req
         /\ \A n \in Nat \ {0} : ~Closed /\ AnsweredWith(n) => \A i \in 1..Len(g) : g[i] = BodyOf(n)
<1>0. PTypeOK /\ Exchange /\ Busy
  BY Zenon DEF PInv, Busy
<1>1. \A j \in 1..k : j \in 1..Len(toClient) /\ j > 0
  BY <1>0 DEF PTypeOK
<1>2. ASSUME NEW i \in 1..Len(g) PROVE g[i].r = req
  BY <1>0, <1>1, Zenon DEF Longer, Exchange
<1>3. ASSUME NEW n \in Nat \ {0}, ~Closed, AnsweredWith(n), NEW i \in 1..Len(g)
      PROVE  g[i] = BodyOf(n)
  <2>1. Lead = 0
    BY Zenon DEF Lead
  <2>2. \A j \in 1..Len(toClient) : j > 0 => toClient[j] = BodyOf(n)
    BY <1>3, <2>1, Zenon DEF AnsweredWith
  <2> QED  BY <1>1, <1>3, <2>2, Zenon DEF Longer, AnsweredWith
<1> QED  BY <1>2, <1>3, Zenon

\* A part of the body.
LEMMA MoreBody ==
  ASSUME PInv, pc = "rest", NEW k \in 1..Len(toClient), Took(k), Longer(got', k),
         UNCHANGED <<pc, want, todo, returned, socket, req, oob, toProxy, serve, parsed, outcome>>
  PROVE  PInv'
<1>0. PTypeOK /\ Exchange /\ Busy
  BY Zenon DEF PInv, Busy
<1>1. toClient \in Seq(FrameUnits) /\ toClient # <<>> /\ Len(toClient) \in Nat /\ k \in Nat
  BY <1>0 DEF PTypeOK
<1>2. /\ \A i \in 1..Len(toClient) : toClient[i].r = req
      /\ Len(outcome) = req /\ (ExpectsFd => oob = req)
  BY <1>0, <1>1, Zenon DEF Exchange
<1>4. \A i \in 1..Len(toClient') : k + i \in 1..Len(toClient) /\ toClient'[i] = toClient[k + i]
  BY Zenon DEF Took
<1>5. \A i \in 1..Len(toClient') : toClient'[i].r = req
  BY <1>2, <1>4, Zenon
<1>6. (Closed' <=> Closed) /\ (ExpectsFd' <=> ExpectsFd)
  BY Zenon DEF Closed, ExpectsFd
<1>7. \A i \in 1..Len(got') : got'[i].r = req
  BY LongerFacts, Zenon
<1>8. ASSUME ~Closed PROVE Answered'
  <2>1. Answered /\ Lead = 0
    BY <1>8, AfterFd, Zenon
  <2>2. PICK n \in Nat \ {0} : AnsweredWith(n)
    BY <2>1, Zenon DEF Answered
  <2>3. Lead' = 0 /\ BodyOf(n)' = BodyOf(n)
    BY Zenon DEF Lead, BodyOf
  <2>4. want = n /\ Len(got) + Len(toClient) + Len(parsed) = n
        /\ (\A i \in 1..Len(toClient) : i > 0 => toClient[i] = BodyOf(n))
        /\ (\A i \in 1..Len(parsed) : parsed[i] = BodyOf(n))
    BY <2>1, <2>2 DEF AnsweredWith
  <2>5. \A i \in 1..Len(got') : got'[i] = BodyOf(n)'
    <3>1. \A i \in 1..Len(got') : got'[i] = BodyOf(n)
      BY <1>8, <2>2, LongerFacts
    <3> QED  BY <2>3, <3>1, Zenon
  <2>6. Len(got') + Len(toClient') + Len(parsed') = Lead' + n
    <3> DEFINE a == Len(got)  b == Len(toClient)  c == Len(parsed)
    <3>1. a + b + c = n /\ a \in Nat /\ b \in Nat /\ c \in Nat /\ k \in Nat
      BY <1>0, <1>1, <2>4 DEF PTypeOK
    <3>2. Len(got') = a + k /\ Len(toClient') = b - k
      BY Zenon DEF Longer, Took
    <3> HIDE DEF a, b, c
    <3>3. (a + k) + (b - k) + c = 0 + n
      BY <3>1
    <3> QED  BY <2>3, <3>2, <3>3, Zenon DEF c
  <2>7. \A i \in 1..Len(toClient') : toClient'[i] = BodyOf(n)'
    <3> SUFFICES ASSUME NEW i \in 1..Len(toClient') PROVE toClient'[i] = BodyOf(n)
      BY <2>3, Zenon
    <3>1. k + i > 0
      BY <1>1
    <3> QED  BY <1>4, <2>4, <3>1, Zenon
  <2>8. AnsweredWith(n)'
    BY <2>3, <2>4, <2>5, <2>6, <2>7, Zenon DEF AnsweredWith
  <2>9. Len(toClient') >= Lead' /\ Lead' # 2
    BY <1>1, <2>3 DEF Took
  <2>10. serve \in {"body", "header"} /\ Len(outcome) = req /\ toProxy = <<>>
         /\ (serve = "header" <=> parsed = <<>>)
    BY <2>1, Zenon DEF Answered
  <2> QED  BY <2>8, <2>9, <2>10, Zenon DEF Answered
<1>9. Exchange'
  BY <1>2, <1>5, <1>6, <1>7, <1>8, Zenon DEF Exchange
<1> QED
  <2>1. pc' \in {"header", "rest"} /\ toClient' \in Seq(FrameUnits) /\ got' \in Seq(FrameUnits)
        /\ want' \in Nat /\ oob' \in Nat
    BY <1>0, Zenon DEF Took, Longer, PTypeOK
  <2> QED  BY <1>0, <1>9, <2>1, Reading, Zenon

\* What recvmsg takes from the connection, and what the Go client takes.
LEMMA Taking ==
  ASSUME PInv
  PROVE  /\ \A k \in 1..Len(toClient) : Take(k) => Took(k)
         /\ toClient # <<>> /\ toClient' = Tail(toClient) => Took(1) /\ 1 \in 1..Len(toClient)
<1>0. toClient \in Seq(FrameUnits) /\ Len(toClient) \in Nat
  BY DEF PInv, PTypeOK
<1>1. ASSUME NEW k \in 1..Len(toClient), Take(k) PROVE Took(k)
  <2> DEFINE s == SubSeq(toClient, k + 1, Len(toClient))
  <2>1. toClient' = s
    BY <1>1, Zenon DEF Take
  <2>2. s \in Seq(FrameUnits) /\ Len(s) = Len(toClient) - k
    BY <1>0
  <2>3. \A i \in 1..Len(s) : k + i \in 1..Len(toClient) /\ s[i] = toClient[k + i]
    BY <1>0, <2>2, SMTT(20)
  <2> HIDE DEF s
  <2> QED  BY <2>1, <2>2, <2>3, Zenon DEF Took
<1>2. ASSUME toClient # <<>>, toClient' = Tail(toClient) PROVE Took(1) /\ 1 \in 1..Len(toClient)
  <2> DEFINE s == Tail(toClient)
  <2>1. s \in Seq(FrameUnits) /\ Len(s) = Len(toClient) - 1
    BY <1>0, <1>2
  <2>2. \A i \in 1..Len(s) : 1 + i \in 1..Len(toClient) /\ s[i] = toClient[1 + i]
    BY <1>0, <1>2, <2>1
  <2>3. 1 \in 1..Len(toClient)
    BY <1>0, <1>2
  <2> HIDE DEF s
  <2>4. toClient' = s
    BY <1>2, Zenon DEF s
  <2> QED  BY <2>1, <2>2, <2>3, <2>4, Zenon DEF Took
<1> QED  BY <1>1, <1>2, Zenon

\* A file descriptor is read alone.
LEMMA PReadFd == ASSUME PInv, ReadOob \/ GoReadFd PROVE PInv'
<1>0. toClient \in Seq(FrameUnits) /\ toClient # <<>> /\ pc = "fd"
      /\ UNCHANGED <<socket, req, got, want, toProxy, serve, parsed, outcome>>
  BY Zenon DEF PInv, PTypeOK, ReadOob, GoReadFd, proxyVars
<1>1. Head(toClient) = toClient[1] /\ Len(toClient) \in Nat
  BY <1>0, SMTT(20)
<1>2. PICK k \in 1..Len(toClient) :
        /\ Took(k)
        /\ Head(toClient).t = "F" => k = 1
        /\ \/ /\ Head(toClient).t = "F"
              /\ oob' = Head(toClient).r /\ pc' = "header"
              /\ UNCHANGED <<todo, returned>>
           \/ /\ Head(toClient).t # "F"
              /\ UNCHANGED oob /\ Return(<<>>)
  <2>1. CASE ReadOob
    <3>1. PICK k \in Portions :
            /\ Take(k)
            /\ \/ /\ Head(toClient).t = "F"
                  /\ oob' = Head(toClient).r /\ pc' = "header"
                  /\ UNCHANGED <<todo, returned>>
               \/ /\ Head(toClient).t # "F"
                  /\ UNCHANGED oob /\ Return(<<>>)
      BY <2>1, Zenon DEF ReadOob
    <3>2. k \in 1..Len(toClient) /\ \A i \in 1..k - 1 : toClient[i].t # "F"
      BY Zenon DEF Portions
    <3>3. Took(k)
      BY <3>1, <3>2, Taking, Zenon
    <3>4. Head(toClient).t = "F" => k = 1
      BY <1>1, <3>2
    <3> QED  BY <3>1, <3>2, <3>3, <3>4, Zenon
  <2>2. CASE GoReadFd
    <3>1. toClient' = Tail(toClient)
          /\ \/ /\ Head(toClient).t = "F"
                /\ oob' = Head(toClient).r /\ pc' = "header"
                /\ UNCHANGED <<todo, returned>>
             \/ /\ Head(toClient).t # "F"
                /\ UNCHANGED oob /\ Return(<<>>)
      BY <2>2, Zenon DEF GoReadFd
    <3>2. Took(1) /\ 1 \in 1..Len(toClient)
      BY <1>0, <3>1, Taking, Zenon
    <3> QED  BY <3>1, <3>2, Zenon
  <2> QED  BY <2>1, <2>2, Zenon
<1>3. CASE Head(toClient).t = "F"
  <2>1. Took(1) /\ oob' = Head(toClient).r /\ pc' = "header" /\ UNCHANGED <<todo, returned>>
    BY <1>2, <1>3, Zenon
  <2> QED  BY <1>0, <1>3, <2>1, TakesFd, Zenon
<1>4. CASE Head(toClient).t # "F"
  <2>1. UNCHANGED oob /\ Return(<<>>) /\ toClient' \in Seq(FrameUnits)
    BY <1>2, <1>4, Zenon DEF Took
  <2> QED  BY <1>0, <1>4, <2>1, NoFd, Zenon
<1> QED  BY <1>3, <1>4, Zenon

\* The part of the body that comes with the header.
LEMMA WithHeader ==
  ASSUME PInv, toClient # <<>>, NEW k \in 1..Len(toClient), NEW body, body = SubSeq(toClient, 2, k)
  PROVE  /\ body \in Seq(FrameUnits) /\ Len(body) = k - 1
         /\ \A i \in 1..Len(body) : 1 + i \in 1..Len(toClient) /\ body[i] = toClient[1 + i]
<1>0. toClient \in Seq(FrameUnits) /\ Len(toClient) \in Nat
  BY DEF PInv, PTypeOK
<1> DEFINE s == SubSeq(toClient, 2, k)
<1>1. s \in Seq(FrameUnits) /\ Len(s) = k - 1
  BY <1>0
<1>2. \A i \in 1..Len(s) : 1 + i \in 1..Len(toClient) /\ s[i] = toClient[1 + i]
  BY <1>0, <1>1
<1> HIDE DEF s
<1>3. body = s
  BY Zenon DEF s
<1> QED  BY <1>1, <1>2, <1>3, Zenon

\* The response comes as a whole.
LEMMA WholeAtOnce ==
  ASSUME PInv, pc = "header", toClient # <<>>, ~Closed, NEW k \in 1..Len(toClient), Took(k),
         NEW body, body = SubSeq(toClient, 2, k), Len(body) >= Head(toClient).n
  PROVE  /\ Len(outcome) = req /\ IsResponse(body, req)
         /\ toClient' = <<>> /\ parsed = <<>> /\ toProxy = <<>> /\ serve = "header"
<1>0. PTypeOK
  BY Zenon DEF PInv
<1>1. Answered /\ Lead = 1
  BY AfterFd, Zenon
<1>2. PICK n \in Nat \ {0} : AnsweredWith(n)
  BY <1>1, Zenon DEF Answered
<1>3. toClient[1] = Unit("h", Head(todo), req, n) /\ got = <<>>
      /\ Len(got) + Len(toClient) + Len(parsed) = 1 + n
      /\ \A i \in 1..Len(toClient) : i > 1 => toClient[i] = BodyOf(n)
  BY <1>1, <1>2, SMTT(20) DEF Answered, AnsweredWith
<1>4. Head(toClient).n = n
  BY <1>0, <1>3 DEF PTypeOK, Unit
<1>5. /\ body \in Seq(FrameUnits) /\ Len(body) = k - 1
      /\ \A i \in 1..Len(body) : 1 + i \in 1..Len(toClient) /\ body[i] = toClient[1 + i]
  BY WithHeader, Zenon
<1>6. k = n + 1 /\ Len(toClient) = k /\ Len(parsed) = 0 /\ Len(body) = n
  <2> DEFINE b == Len(toClient)  c == Len(parsed)  d == Len(body)
  <2>1. b + c = 1 + n /\ b \in Nat /\ c \in Nat /\ d = k - 1 /\ d >= n /\ k \in 1..b
    <3>1. Len(got) = 0
      BY <1>3, Zenon
    <3> QED  BY <1>0, <1>3, <1>4, <1>5, <3>1, SMTT(20) DEF PTypeOK
  <2> HIDE DEF b, c, d
  <2>2. k = n + 1 /\ b = k /\ c = 0 /\ d = n
    BY <2>1
  <2> QED  BY <2>2, Zenon DEF b, c, d
<1>7. toClient' = <<>> /\ parsed = <<>>
  <2>1. toClient' \in Seq(FrameUnits) /\ Len(toClient') = 0
    BY <1>0, <1>6 DEF Took, PTypeOK
  <2> QED  BY <1>0, <1>6, <2>1, EmptySeq, Zenon DEF PTypeOK
<1>8. \A i \in 1..Len(body) : body[i] = BodyOf(n)
  <2> SUFFICES ASSUME NEW i \in 1..Len(body) PROVE body[i] = BodyOf(n)
    BY Zenon
  <2>1. 1 + i > 1
    BY <1>5
  <2> QED  BY <1>3, <1>5, <2>1, Zenon
<1>9. IsResponse(body, req)
  BY <1>5, <1>6, <1>8, AllRead, Zenon
<1>10. Len(outcome) = req /\ toProxy = <<>> /\ serve = "header"
  BY <1>1, <1>7, Zenon DEF Answered
<1> QED  BY <1>7, <1>9, <1>10, Zenon

\* The first part of a response.
LEMMA PReadFirst == ASSUME PInv, ReadFirst PROVE PInv'
<1>0. PTypeOK /\ Exchange /\ Busy /\ pc = "header" /\ toClient # <<>>
      /\ UNCHANGED <<socket, req, oob, toProxy, serve, parsed, outcome>>
  BY Zenon DEF PInv, Busy, ReadFirst, proxyVars
<1>1. PICK k \in Portions :
        /\ Take(k)
        /\ want' = Head(toClient).n
        /\ \/ /\ Len(SubSeq(toClient, 2, k)) >= want' /\ Return(SubSeq(toClient, 2, k)) /\ got' = <<>>
           \/ /\ got' = SubSeq(toClient, 2, k) /\ pc' = "rest"
              /\ UNCHANGED <<todo, returned>>
  BY Zenon DEF ReadFirst
<1>2. k \in 1..Len(toClient) /\ Took(k)
  <2>1. k \in 1..Len(toClient)
    BY Zenon DEF Portions
  <2> QED  BY <1>1, <2>1, Taking, Zenon
<1>3. PICK body : body = SubSeq(toClient, 2, k)
  BY ZenonT(20)
<1>4. /\ body \in Seq(FrameUnits) /\ Len(body) = k - 1
      /\ \A i \in 1..Len(body) : 1 + i \in 1..Len(toClient) /\ body[i] = toClient[1 + i]
  BY <1>0, <1>2, <1>3, WithHeader, Zenon
<1>5. (\A i \in 1..Len(toClient) : toClient[i].r = req) /\ Len(outcome) = req
  BY <1>0, Zenon DEF Exchange
<1>6. \A i \in 1..Len(body) : body[i].r = req
  BY <1>4, <1>5, Zenon
<1>7. Head(toClient).n \in Nat /\ toClient' \in Seq(FrameUnits)
  <2>1. Head(toClient) \in FrameUnits
    BY <1>0, SMTT(20) DEF PTypeOK
  <2> QED  BY <1>2, <2>1, Zenon DEF FrameUnits, Took
<1>8. CASE Len(body) >= want' /\ Return(body) /\ got' = <<>>
  <2>1. ASSUME ~Closed
        PROVE  /\ Len(outcome) = req /\ IsResponse(body, req)
               /\ toClient' = <<>> /\ parsed = <<>> /\ toProxy = <<>> /\ serve = "header"
    <3>1. Len(body) >= Head(toClient).n
      BY <1>1, <1>8, Zenon
    <3> QED  BY <1>0, <1>2, <1>3, <2>1, <3>1, WholeAtOnce, ZenonT(20)
  <2>2. got' \in Seq(FrameUnits) /\ want' \in Nat /\ pc # "fd"
    BY <1>0, <1>1, <1>7, <1>8
  <2> QED  BY <1>0, <1>4, <1>5, <1>6, <1>7, <1>8, <2>1, <2>2, Returning, Zenon
<1>9. CASE got' = body /\ pc' = "rest" /\ UNCHANGED <<todo, returned>>
  BY <1>0, <1>1, <1>2, <1>4, <1>6, <1>9, FirstPart, Zenon
<1> QED  BY <1>1, <1>3, <1>8, <1>9, Zenon

\* The last part of a response.
LEMMA WholeInParts ==
  ASSUME PInv, pc = "rest", ~Closed, NEW k \in 0..Len(toClient), NEW units \in Seq(FrameUnits),
         Len(units) = Len(got) + k, Len(units) >= want,
         toClient' \in Seq(FrameUnits), Len(toClient') = Len(toClient) - k,
         \A n \in Nat \ {0} : AnsweredWith(n) => \A i \in 1..Len(units) : units[i] = BodyOf(n)
  PROVE  /\ Len(outcome) = req /\ IsResponse(units, req)
         /\ toClient' = <<>> /\ parsed = <<>> /\ toProxy = <<>> /\ serve = "header"
<1>0. PTypeOK
  BY Zenon DEF PInv
<1>1. Answered /\ Lead = 0
  BY AfterFd, Zenon
<1>2. PICK n \in Nat \ {0} : AnsweredWith(n)
  BY <1>1, Zenon DEF Answered
<1>3. want = n /\ Len(got) + Len(toClient) + Len(parsed) = n
  BY <1>1, <1>2 DEF AnsweredWith
<1>4. Len(toClient) = k /\ Len(parsed) = 0 /\ Len(units) = n
  <2> DEFINE a == Len(got)  b == Len(toClient)  c == Len(parsed)  d == Len(units)
  <2>1. a + b + c = n /\ a \in Nat /\ b \in Nat /\ c \in Nat /\ d = a + k /\ d >= n /\ k \in 0..b
    BY <1>0, <1>3, SMTT(20) DEF PTypeOK
  <2> HIDE DEF a, b, c, d
  <2>2. b = k /\ c = 0 /\ d = n
    BY <2>1
  <2> QED  BY <2>2, Zenon DEF b, c, d
<1>5. toClient' = <<>> /\ parsed = <<>>
  BY <1>0, <1>4, EmptySeq DEF PTypeOK
<1>6. IsResponse(units, req)
  BY <1>2, <1>4, AllRead, Zenon
<1>7. Len(outcome) = req /\ toProxy = <<>> /\ serve = "header"
  BY <1>1, <1>5, Zenon DEF Answered
<1> QED  BY <1>5, <1>6, <1>7, Zenon

\* The rest of a response.
LEMMA PReadRest == ASSUME PInv, ReadRest PROVE PInv'
<1>0. PTypeOK /\ Exchange /\ Busy /\ pc = "rest"
      /\ UNCHANGED <<socket, req, want, oob, toProxy, serve, parsed, outcome>>
  BY Zenon DEF PInv, Busy, ReadRest, proxyVars
<1>1. toClient \in Seq(FrameUnits) /\ got \in Seq(FrameUnits) /\ want \in Nat
      /\ Len(toClient) \in Nat /\ Len(got) \in Nat
  BY <1>0 DEF PTypeOK
<1>2. ASSUME NEW k \in Portions, Take(k), got' = got \o SubSeq(toClient, 1, k),
             UNCHANGED <<pc, todo, returned>>
      PROVE  PInv'
  <2>1. k \in 1..Len(toClient)
    BY Zenon DEF Portions
  <2>2. Took(k)
    BY <1>2, <2>1, Taking, Zenon
  <2> DEFINE s == SubSeq(toClient, 1, k)
  <2>3. s \in Seq(FrameUnits) /\ Len(s) = k /\ \A j \in 1..k : s[j] = toClient[j]
    BY <1>1, <2>1
  <2> HIDE DEF s
  <2>4. got' = got \o s
    BY <1>2, Zenon DEF s
  <2>5. /\ got \o s \in Seq(FrameUnits) /\ Len(got \o s) = Len(got) + Len(s)
        /\ \A i \in 1..Len(got) + Len(s) :
             (got \o s)[i] = IF i <= Len(got) THEN got[i] ELSE s[i - Len(got)]
    BY <1>1, <2>3, ConcatProperties, Zenon
  <2>6. ASSUME NEW i \in 1..Len(got')
        PROVE  \/ i \in 1..Len(got) /\ got'[i] = got[i]
               \/ \E j \in 1..k : got'[i] = toClient[j]
    <3>1. i \in 1..Len(got) + Len(s) /\ got'[i] = IF i <= Len(got) THEN got[i] ELSE s[i - Len(got)]
      BY <2>4, <2>5, <2>6, Zenon
    <3>2. CASE i <= Len(got)
      BY <1>1, <2>3, <3>1, <3>2
    <3>3. CASE ~(i <= Len(got))
      <4>1. i - Len(got) \in 1..k
        BY <1>1, <2>3, <3>1, <3>3
      <4>2. got'[i] = s[i - Len(got)]
        BY <3>1, <3>3, Zenon
      <4> QED  BY <2>3, <4>1, <4>2, Zenon
    <3> QED  BY <3>2, <3>3, Zenon
  <2>7. Longer(got', k)
    BY <2>3, <2>4, <2>5, <2>6, Zenon DEF Longer
  <2> QED  BY <1>0, <1>2, <2>1, <2>2, <2>7, MoreBody, Zenon
<1>3. CASE /\ toClient = <<>> /\ ((~Closed /\ Len(got) >= want) \/ serve = "reset")
           /\ Return(got) /\ UNCHANGED <<got, toClient>>
  <2>1. ASSUME ~Closed
        PROVE  /\ Len(outcome) = req /\ IsResponse(got, req)
               /\ toClient' = <<>> /\ parsed = <<>> /\ toProxy = <<>> /\ serve = "header"
    <3>1. Len(got) >= want
      BY <1>3, <2>1, Zenon DEF Closed
    <3>2. \A n \in Nat \ {0} : AnsweredWith(n) => \A i \in 1..Len(got) : got[i] = BodyOf(n)
      BY Zenon DEF AnsweredWith
    <3>3. Len(got) = Len(got) + 0 /\ Len(toClient') = Len(toClient) - 0 /\ toClient' \in Seq(FrameUnits)
          /\ 0 \in 0..Len(toClient)
      BY <1>1, <1>3
    <3> QED  BY <1>0, <1>1, <2>1, <3>1, <3>2, <3>3, WholeInParts, Zenon
  <2>2. \A i \in 1..Len(got) : got[i].r = req
    BY <1>0, Zenon DEF Exchange
  <2>3. got # <<>> => Len(outcome) = req /\ pc # "fd"
    BY <1>0, Zenon DEF Exchange
  <2>4. got' \in Seq(FrameUnits) /\ toClient' \in Seq(FrameUnits) /\ want' \in Nat
    BY <1>0, <1>1, <1>3, Zenon
  <2> QED  BY <1>0, <1>1, <1>3, <2>1, <2>2, <2>3, <2>4, Returning, Zenon
<1>4. CASE toClient = <<>> /\ pc' = "hung" /\ UNCHANGED <<got, todo, returned, toClient>>
  BY <1>0, <1>4, Hanging, Zenon
<1> QED  BY <1>2, <1>3, <1>4, Zenon DEF ReadRest

\* One unit more.
LEMMA OneMore ==
  ASSUME PInv, pc = "rest", toClient # <<>>
  PROVE  Longer(Append(got, Head(toClient)), 1)
<1>0. toClient \in Seq(FrameUnits) /\ got \in Seq(FrameUnits) /\ Len(got) \in Nat
  BY DEF PInv, PTypeOK
<1>1. Head(toClient) = toClient[1] /\ Head(toClient) \in FrameUnits
  BY <1>0
<1> DEFINE u == Head(toClient)  g == Append(got, u)
<1> HIDE DEF u
<1>2. g \in Seq(FrameUnits) /\ Len(g) = Len(got) + 1
      /\ \A i \in 1..Len(g) : (i \in 1..Len(got) /\ g[i] = got[i]) \/ g[i] = u
  BY <1>0, <1>1 DEF u
<1> HIDE DEF g
<1>3. \A i \in 1..Len(g) : \/ i \in 1..Len(got) /\ g[i] = got[i]
                           \/ \E j \in 1..1 : g[i] = toClient[j]
  <2>1. 1 \in 1..1 /\ u = toClient[1]
    BY <1>1 DEF u
  <2> QED  BY <1>2, <2>1, Zenon
<1>4. Longer(g, 1)
  BY <1>2, <1>3, Zenon DEF Longer
<1> QED  BY <1>4, Zenon DEF g, u

\* A message read by the Go client.
LEMMA PGoReadMessage == ASSUME PInv, GoReadMessage PROVE PInv'
<1>0. PTypeOK /\ Exchange /\ Busy /\ pc \in {"header", "rest"} /\ toClient # <<>>
      /\ toClient' = Tail(toClient)
      /\ UNCHANGED <<socket, req, oob, toProxy, serve, parsed, outcome>>
  BY Zenon DEF PInv, Busy, GoReadMessage, proxyVars
<1>1. toClient \in Seq(FrameUnits) /\ got \in Seq(FrameUnits) /\ want \in Nat
      /\ Len(toClient) \in Nat /\ Len(got) \in Nat
  BY <1>0 DEF PTypeOK
<1>2. Took(1) /\ 1 \in 1..Len(toClient)
  BY <1>0, Taking, Zenon
<1>3. toClient' \in Seq(FrameUnits) /\ Len(toClient') = Len(toClient) - 1
  BY <1>2, Zenon DEF Took
<1>4. CASE pc = "header" /\ want' = Head(toClient).n /\ pc' = "rest" /\ UNCHANGED <<got, todo, returned>>
  <2>1. \A i \in 1..Len(got') : got'[i].r = req
    BY <1>0, <1>4, Zenon DEF Exchange
  <2>2. ASSUME ~Closed
        PROVE  /\ Len(got') = 1 - 1
               /\ \A i \in 1..Len(got') : 1 + i \in 1..Len(toClient) /\ got'[i] = toClient[1 + i]
    <3>1. got = <<>>
      BY <1>0, <1>4, <2>2, AfterFd, Zenon DEF Answered
    <3> QED  BY <1>4, <3>1
  <2>3. got' \in Seq(FrameUnits)
    BY <1>1, <1>4, Zenon
  <2> QED  BY <1>0, <1>2, <1>4, <2>1, <2>2, <2>3, FirstPart, Zenon
<1>5. CASE pc = "rest" /\ got' = Append(got, Head(toClient)) /\ UNCHANGED <<want, pc, todo, returned>>
  <2>1. Longer(got', 1)
    BY <1>0, <1>5, OneMore, Zenon
  <2> QED  BY <1>0, <1>2, <1>5, <2>1, MoreBody, Zenon
<1>6. CASE /\ pc = "rest" /\ Len(got) + 1 = want
           /\ Return(Append(got, Head(toClient))) /\ got' = <<>> /\ UNCHANGED want
  <2>1. PICK g : g = Append(got, Head(toClient))
    BY Zenon
  <2>2. Longer(g, 1)
    BY <1>0, <1>6, <2>1, OneMore, Zenon
  <2>3. /\ \A i \in 1..Len(g) : g[i].r = req
        /\ \A n \in Nat \ {0} : ~Closed /\ AnsweredWith(n) => \A i \in 1..Len(g) : g[i] = BodyOf(n)
    BY <1>2, <1>6, <2>2, LongerFacts
  <2>4. g \in Seq(FrameUnits) /\ Len(g) = Len(got) + 1
    BY <2>2, Zenon DEF Longer
  <2>5. ASSUME ~Closed
        PROVE  /\ Len(outcome) = req /\ IsResponse(g, req)
               /\ toClient' = <<>> /\ parsed = <<>> /\ toProxy = <<>> /\ serve = "header"
    <3>1. Len(g) >= want /\ 1 \in 0..Len(toClient)
      BY <1>1, <1>2, <1>6, <2>4
    <3>2. \A n \in Nat \ {0} : AnsweredWith(n) => \A i \in 1..Len(g) : g[i] = BodyOf(n)
      BY <2>3, <2>5, Zenon
    <3> QED  BY <1>3, <1>6, <2>4, <2>5, <3>1, <3>2, WholeInParts, Zenon
  <2>6. Len(outcome) = req /\ pc # "fd"
    BY <1>0, <1>6, Zenon DEF Exchange
  <2>7. got' \in Seq(FrameUnits) /\ want' \in Nat
    BY <1>1, <1>6
  <2> QED  BY <1>0, <1>3, <1>6, <2>1, <2>3, <2>4, <2>5, <2>6, <2>7, Returning, Zenon
<1> QED  BY <1>4, <1>5, <1>6, Zenon DEF GoReadMessage

\* A read that fails, of the Go client.
LEMMA PGoReadFails == ASSUME PInv, GoReadFails PROVE PInv'
<1>0. PTypeOK /\ Busy /\ Closed /\ Return(<<>>)
      /\ UNCHANGED <<socket, req, got, want, toProxy, toClient, serve, parsed, outcome, oob>>
  BY Zenon DEF PInv, Busy, GoReadFails, proxyVars
<1>1. <<>> \in Seq(FrameUnits) /\ \A i \in 1..Len(<<>>) : <<>>[i].r = req
  OBVIOUS
<1>2. toClient' \in Seq(FrameUnits) /\ got' \in Seq(FrameUnits) /\ want' \in Nat
  BY <1>0, Zenon DEF PTypeOK
<1> QED  BY <1>0, <1>1, <1>2, Returning, ZenonT(20)

\* A step in which nothing happens.
LEMMA PUnchanged == ASSUME PInv, UNCHANGED vars PROVE PInv'
<1>0. UNCHANGED <<kind, todo, pc, socket, req, got, want, oob, returned, toProxy, toClient, serve,
                  attached, parsed, outcome>>
  BY Zenon DEF vars, clientVars, proxyVars
<1>1. PTypeOK'
  BY <1>0, Zenon DEF PInv, PTypeOK
<1>2. (Closed' <=> Closed) /\ (Fresh' <=> Fresh) /\ (MoreToSend' <=> MoreToSend)
      /\ (Shape' <=> Shape) /\ (Busy' <=> Busy) /\ (ExpectsFd' <=> ExpectsFd)
  BY <1>0, Zenon DEF Closed, Fresh, MoreToSend, Shape, Busy, ExpectsFd
<1>3. Plan' /\ Idle'
  BY <1>0, <1>2, Zenon DEF PInv, Plan, Idle
<1>4. Exchange'
  <2>1. Asked => Asked'
    BY <1>0, Zenon DEF Asked, Waiting, ExpectsFd, Own
  <2>2. (Handling => Handling') /\ (Handled => Handled')
    BY <1>0, Zenon DEF Handling, Handled, Waiting, ExpectsFd, Own
  <2>3. Answered => Answered'
    <3>1. Lead' = Lead
      BY <1>0, Zenon DEF Lead
    <3>2. ASSUME NEW n \in Nat \ {0}, AnsweredWith(n) PROVE AnsweredWith(n)'
      <4>1. BodyOf(n)' = BodyOf(n) /\ Unit("h", Head(todo), req, n)' = Unit("h", Head(todo), req, n)
        BY <1>0, Zenon DEF BodyOf
      <4> QED  BY <1>0, <3>1, <3>2, <4>1, Zenon DEF AnsweredWith
    <3> QED  BY <1>0, <3>1, <3>2, Zenon DEF Answered
  <2>4. Busy => /\ ExpectsFd /\ pc # "fd" => oob = req
                /\ toClient # <<>> \/ got # <<>> => Len(outcome) = req
    BY Zenon DEF PInv, Exchange
  <2> QED  BY <1>0, <1>2, <2>1, <2>2, <2>3, <2>4, Zenon DEF PInv, Exchange
<1>5. History'
  BY <1>0, Zenon DEF PInv, History, Justified, Closed
<1> QED  BY <1>1, <1>3, <1>4, <1>5, Zenon DEF PInv

\* PInv is an invariant of ProxyClient.
LEMMA PInductive == Spec => []PInv
<1>1. ASSUME PInv, [Next]_vars PROVE PInv'
  BY <1>1, PConnect, PDisconnect, PRefuse, PSendRequest, PReadFd, PReadFirst, PReadRest,
     PGoReadMessage, PGoReadFails, PServeRead, PServeHandle, PServeRespond, PServeBody, PDies,
     PUnchanged, Zenon
     DEF Next, Client, Serve
<1> QED  BY <1>1, PInitially, PTL DEF Spec

\* A command that succeeds has read the response to its own request, complete and
\* in whatever portions it came, and the proxy's handler has succeeded; allocateIO
\* returns the socket that was allocated for this request: for every sequence of
\* commands of the runtime and of the Go client, every length of the responses and
\* every failure of the configuration, the connection and the proxy.
THEOREM ResponseTheorem == Spec => []ResponseMatches
<1>1. PInv => ResponseMatches
  <2> SUFFICES ASSUME PInv, NEW i \in DOMAIN returned PROVE
        returned[i].ok => /\ returned[i].from = returned[i].r
                          /\ outcome[returned[i].r] = "success"
                          /\ returned[i].op = "allocateIO" => returned[i].fd = returned[i].r
    BY Zenon DEF ResponseMatches
  <2>1. i \in 1..Len(returned)
    BY DEF PInv, PTypeOK
  <2>2. Justified(returned[i])
    BY <2>1, Zenon DEF PInv, History
  <2> QED  BY <2>2, Zenon DEF Justified
<1> QED  BY <1>1, PInductive, PTL

\* A success the proxy has reported is not lost: a command only fails if the
\* handler has refused its request or the connection has ended.
THEOREM FailureTheorem == Spec => []FailureHasReason
<1>1. PInv => FailureHasReason
  <2> SUFFICES ASSUME PInv, NEW i \in DOMAIN returned, ~returned[i].ok PROVE
        Closed \/ (returned[i].r <= Len(outcome) /\ outcome[returned[i].r] = "failure")
    BY Zenon DEF FailureHasReason
  <2>1. i \in 1..Len(returned) /\ Len(outcome) \in Nat
    BY DEF PInv, PTypeOK
  <2>2. Justified(returned[i])
    BY <2>1, Zenon DEF PInv, History
  <2> QED  BY <2>1, <2>2 DEF Justified
<1> QED  BY <1>1, PInductive, PTL

\* Between two commands of a connection that has not ended nothing of the one before
\* is left in the client, in the proxy or on the way, and the proxy has handled as
\* many requests as were sent: no response can be taken for that of a later command.
THEOREM InStepTheorem == Spec => []Idle
<1>1. PInv => Idle
  BY Zenon DEF PInv
<1> QED  BY <1>1, PInductive, PTL

=============================================================================
