------------------------ MODULE ProxyRegistryProofs ------------------------
(***************************************************************************)
(* Proofs about ProxyRegistry, for any number of clients, ids and VMs.     *)
(***************************************************************************)
EXTENDS ProxyRegistry, TLAPS

\* A VM object is connected by the handler that created it and by no other.
OneConnector ==
    \A c, d \in Clients :
        pc[c] = "connect" /\ pc[d] = "connect" /\ cur[c] = cur[d] => c = d

Connecting == \A c \in Clients : pc[c] = "connect" => vmState[cur[c]] = "connecting"

\* A handler works on a VM that exists, and exactly the VMs that exist have an id.
InUse ==
    /\ \A c \in Clients : cur[c] # NoVM => vmState[cur[c]] # "free"
    /\ \A v \in VMs : vmState[v] # "free" <=> containerID[v] \in Ids

\* The inductive invariant.
IInv ==
    /\ TypeOK
    /\ OneConnector
    /\ Connecting
    /\ InUse
    /\ FailedIsUnregistered
    /\ LostOnlyByBye

\* The empty map has the properties.
LEMMA InitIInv == Init => IInv
  BY VMsAssumption, IdsAssumption, SMTT(20)
  DEF Init, IInv, TypeOK, OneConnector, Connecting, InUse, FailedIsUnregistered,
      LostOnlyByBye

\* Every handler keeps the inductive invariant.
LEMMA NextIInv == IInv /\ [Next]_vars => IInv'
<1> SUFFICES ASSUME IInv, [Next]_vars PROVE IInv'
  OBVIOUS
<1> USE VMsAssumption, IdsAssumption
<1> USE DEF IInv, TypeOK, OneConnector, Connecting, InUse, FailedIsUnregistered,
            LostOnlyByBye
<1>1. ASSUME NEW c \in Clients, Connection(c) PROVE IInv'
  BY <1>1 DEF Connection, ReadClientID, AddClientID, Disconnect, idVars, vmVars, clientVars
<1>2. ASSUME NEW c \in Clients, NEW id \in Ids, HelloRefused(c, id) PROVE IInv'
  BY <1>2 DEF HelloRefused, Respond, idVars, vmVars
<1>3. ASSUME NEW c \in Clients, NEW id \in Ids, Attach(c, id) PROVE IInv'
  BY <1>3 DEF Attach, Respond, idVars, vmVars
<1>4. ASSUME NEW c \in Clients, NEW id \in Ids, ByeLookup(c, id) PROVE IInv'
  <2>1. /\ UNCHANGED <<idVars, vmVars, clientVM, byes>>
        /\ \A d \in Clients : d # c => pc'[d] = pc[d] /\ cur'[d] = cur[d]
        /\ pc'[c] # "connect"
        /\ cur'[c] \in {NoVM, vms[id]}
    BY <1>4 DEF ByeLookup, Respond
  <2>2. TypeOK'
    <3>1. CASE vms[id] = NoVM
      BY <1>4, <3>1 DEF ByeLookup, Respond, idVars, vmVars
    <3>2. CASE vms[id] # NoVM
      <4>1. /\ pc' = [pc EXCEPT ![c] = "bye"] /\ cur' = [cur EXCEPT ![c] = vms[id]]
            /\ UNCHANGED <<idVars, vmVars, clientVM, response, byes>>
        BY <1>4, <3>2 DEF ByeLookup
      <4>2. vms[id] \in VMs
        BY <3>2
      <4> QED
        BY <4>1, <4>2 DEF idVars, vmVars
    <3> QED
      BY <3>1, <3>2
  <2>3. (OneConnector /\ Connecting)'
    BY <2>1 DEF vmVars
  <2>4. InUse'
    BY <2>1 DEF vmVars
  <2>5. (FailedIsUnregistered /\ LostOnlyByBye)'
    BY <2>1 DEF vmVars
  <2> QED
    BY <2>2, <2>3, <2>4, <2>5
<1>5. ASSUME NEW c \in Clients, NEW id \in Ids, NEW v \in VMs, HelloRegister(c, id, v)
      PROVE IInv'
  <2>1. TypeOK'
    BY <1>5 DEF HelloRegister, idVars
  <2>2. /\ \A d \in Clients : cur[d] # NoVM => cur[d] # v
        /\ \A i \in Ids : vms[i] # v
        /\ pc[c] = "idle"
    BY <1>5 DEF HelloRegister
  <2>3. (OneConnector /\ Connecting /\ InUse)'
    BY <1>5, <2>2 DEF HelloRegister
  <2>4. FailedIsUnregistered'
    BY <1>5, <2>2 DEF HelloRegister
  <2>5. LostOnlyByBye'
    <3> SUFFICES ASSUME NEW u \in VMs, vmState'[u] \in {"connecting", "connected"}
                 PROVE  \/ vms'[containerID'[u]] = u
                        \/ \E w \in VMs : containerID'[w] = containerID'[u] /\ byes'[w] > 0
      OBVIOUS
    <3>1. CASE u = v
      BY <1>5, <3>1 DEF HelloRegister
    <3>2. CASE u # v
      <4>1. /\ vmState[u] = vmState'[u]
            /\ containerID'[u] = containerID[u]
            /\ vms[id] = NoVM
        BY <1>5, <3>2 DEF HelloRegister
      <4>2. CASE vms[containerID[u]] = u
        BY <1>5, <4>1, <4>2 DEF HelloRegister
      <4>3. CASE \E w \in VMs : containerID[w] = containerID[u] /\ byes[w] > 0
        <5> PICK w \in VMs : containerID[w] = containerID[u] /\ byes[w] > 0
          BY <4>3
        <5>1. CASE w # v
          BY <1>5, <4>1, <5>1 DEF HelloRegister
        <5>2. CASE w = v
          BY <1>5, <5>2 DEF HelloRegister
        <5> QED
          BY <5>1, <5>2
      <4> QED
        BY <4>1, <4>2, <4>3
    <3> QED
      BY <3>1, <3>2
  <2> QED
    BY <2>1, <2>3, <2>4, <2>5
<1>6. ASSUME NEW c \in Clients, HelloConnected(c) PROVE IInv'
  BY <1>6 DEF HelloConnected, Respond, idVars
<1>7. ASSUME NEW c \in Clients, HelloFailed(c) PROVE IInv'
  BY <1>7 DEF HelloFailed, Respond, idVars
<1>8. ASSUME NEW c \in Clients, ByeDelete(c) PROVE IInv'
  BY <1>8 DEF ByeDelete, Respond, idVars
<1>9. CASE UNCHANGED vars
  BY <1>9 DEF vars, idVars, vmVars, clientVars
<1>10. QED
  BY <1>1, <1>2, <1>3, <1>4, <1>5, <1>6, <1>7, <1>8, <1>9 DEF Next, Request, Handler

\* The inductive invariant holds in every reachable state.
THEOREM IInvAlways == Spec => []IInv
  BY InitIInv, NextIInv, PTL DEF Spec

\* The map, the VM objects and the handlers keep their types.
THEOREM TypeCorrect == Spec => []TypeOK
<1>1. IInv => TypeOK
  BY DEF IInv
<1> QED
  BY IInvAlways, <1>1, PTL

\* An id never leads to a VM of another id or to one whose hello has failed,
\* whatever hellos and byes for that id race with each other.
THEOREM FailedNeverFound == Spec => []FailedIsUnregistered
<1>1. IInv => FailedIsUnregistered
  BY DEF IInv
<1> QED
  BY IInvAlways, <1>1, PTL

\* The entry a failed hello deletes is its own unless a bye came in between,
\* so without a bye no VM is ever lost from the map.
THEOREM NeverLost == Spec => []LostOnlyByBye
<1>1. IInv => LostOnlyByBye
  BY DEF IInv
<1> QED
  BY IInvAlways, <1>1, PTL

\* No handler replaces the VM of an id by another one.
THEOREM HelloNeverReplaces == Spec => NeverReplaced
<1>1. ASSUME TypeOK, [Next]_vars
      PROVE  [\A id \in Ids : vms[id] # NoVM => vms'[id] \in {vms[id], NoVM}]_vars
  <2> SUFFICES ASSUME NEW id \in Ids, vms[id] # NoVM, Next
               PROVE  vms'[id] \in {vms[id], NoVM}
    BY <1>1
  <2>1. ASSUME NEW c \in Clients, Connection(c) PROVE vms' = vms
    BY <2>1 DEF Connection, ReadClientID, AddClientID, Disconnect, vmVars
  <2>2. ASSUME NEW c \in Clients, NEW i \in Ids,
               HelloRefused(c, i) \/ Attach(c, i) \/ ByeLookup(c, i)
        PROVE  vms' = vms
    BY <2>2 DEF HelloRefused, Attach, ByeLookup, vmVars
  <2>3. ASSUME NEW c \in Clients, NEW i \in Ids, NEW v \in VMs, HelloRegister(c, i, v)
        PROVE  vms'[id] = vms[id]
    BY <1>1, <2>3 DEF HelloRegister, TypeOK
  <2>4. ASSUME NEW c \in Clients, Handler(c) PROVE vms'[id] \in {vms[id], NoVM}
    BY <1>1, <2>4 DEF Handler, HelloConnected, HelloFailed, ByeDelete, TypeOK
  <2> QED
    BY <2>1, <2>2, <2>3, <2>4 DEF Next, Request
<1> QED
  BY TypeCorrect, <1>1, PTL DEF Spec, NeverReplaced

\* A VM that a bye has taken away is not in the map again, and the VM of a bye is
\* there unless another bye or a failed hello for its id has been faster.
TakenAway ==
    \A v \in VMs : byes[v] > 0 => containerID[v] \in Ids /\ vms[containerID[v]] # v

Faster(v) ==
    \E w \in VMs : containerID[w] = containerID[v] /\ (byes[w] > 0 \/ vmState[w] = "failed")

ByeInTime ==
    \A c \in Clients :
        pc[c] = "bye" => vms[containerID[cur[c]]] = cur[c] \/ Faster(cur[c])

\* A bye that is counted has emptied the entry of its VM, and no hello makes that
\* entry again.
LEMMA NextTakenAway == IInv /\ TakenAway /\ [Next]_vars => TakenAway'
<1> SUFFICES ASSUME IInv, TakenAway, [Next]_vars, NEW v \in VMs, byes'[v] > 0
             PROVE  containerID'[v] \in Ids /\ vms'[containerID'[v]] # v
  BY DEF TakenAway
<1> USE VMsAssumption, IdsAssumption DEF IInv, TypeOK
<1>1. CASE UNCHANGED <<vmVars, byes>>
  BY <1>1 DEF TakenAway, vmVars
<1>2. ASSUME NEW c \in Clients, NEW id \in Ids, NEW u \in VMs, HelloRegister(c, id, u)
      PROVE  containerID'[v] \in Ids /\ vms'[containerID'[v]] # v
  <2>1. byes[v] > 0 /\ containerID[v] \in Ids /\ vms[containerID[v]] # v
    BY <1>2 DEF HelloRegister, TakenAway
  <2>2. u # v
    BY <1>2, <2>1 DEF HelloRegister, InUse
  <2> QED
    BY <1>2, <2>1, <2>2 DEF HelloRegister
<1>3. ASSUME NEW c \in Clients, HelloConnected(c)
      PROVE  containerID'[v] \in Ids /\ vms'[containerID'[v]] # v
  BY <1>3 DEF HelloConnected, TakenAway
<1>4. ASSUME NEW c \in Clients, HelloFailed(c)
      PROVE  containerID'[v] \in Ids /\ vms'[containerID'[v]] # v
  BY <1>4 DEF HelloFailed, TakenAway
<1>5. ASSUME NEW c \in Clients, ByeDelete(c)
      PROVE  containerID'[v] \in Ids /\ vms'[containerID'[v]] # v
  <2>1. cur[c] \in VMs /\ containerID[cur[c]] \in Ids
    BY <1>5 DEF ByeDelete, InUse
  <2>2. CASE v = cur[c]
    BY <1>5, <2>1, <2>2 DEF ByeDelete
  <2>3. CASE v # cur[c]
    BY <1>5, <2>1, <2>3 DEF ByeDelete, TakenAway
  <2> QED
    BY <2>2, <2>3
<1>6. ASSUME NEW c \in Clients, Connection(c) PROVE UNCHANGED <<vmVars, byes>>
  BY <1>6 DEF Connection, ReadClientID, AddClientID, Disconnect
<1>7. ASSUME NEW c \in Clients, NEW id \in Ids,
             HelloRefused(c, id) \/ Attach(c, id) \/ ByeLookup(c, id)
      PROVE  UNCHANGED <<vmVars, byes>>
  BY <1>7 DEF HelloRefused, Attach, ByeLookup
<1>8. CASE UNCHANGED vars
  BY <1>1, <1>8 DEF vars
<1> QED
  BY <1>1, <1>2, <1>3, <1>4, <1>5, <1>6, <1>7, <1>8 DEF Next, Request, Handler

\* What was faster for a VM remains so.
LEMMA FasterStays ==
  ASSUME IInv, [Next]_vars, NEW v \in VMs, vmState[v] # "free", Faster(v)
  PROVE  Faster(v)'
<1> USE VMsAssumption, IdsAssumption DEF IInv, TypeOK
<1> PICK w \in VMs : containerID[w] = containerID[v] /\ (byes[w] > 0 \/ vmState[w] = "failed")
  BY DEF Faster
<1> SUFFICES containerID'[w] = containerID'[v] /\ (byes'[w] > 0 \/ vmState'[w] = "failed")
  BY DEF Faster
<1>0. vmState[w] # "free"
  BY DEF InUse
<1>1. CASE UNCHANGED <<vmVars, byes>>
  BY <1>1 DEF vmVars
<1>2. ASSUME NEW c \in Clients, NEW id \in Ids, NEW u \in VMs, HelloRegister(c, id, u)
      PROVE  containerID'[w] = containerID'[v] /\ (byes'[w] > 0 \/ vmState'[w] = "failed")
  BY <1>0, <1>2 DEF HelloRegister
<1>3. ASSUME NEW c \in Clients, HelloConnected(c)
      PROVE  containerID'[w] = containerID'[v] /\ (byes'[w] > 0 \/ vmState'[w] = "failed")
  BY <1>3 DEF HelloConnected, Connecting
<1>4. ASSUME NEW c \in Clients, HelloFailed(c)
      PROVE  containerID'[w] = containerID'[v] /\ (byes'[w] > 0 \/ vmState'[w] = "failed")
  BY <1>4 DEF HelloFailed
<1>5. ASSUME NEW c \in Clients, ByeDelete(c)
      PROVE  containerID'[w] = containerID'[v] /\ (byes'[w] > 0 \/ vmState'[w] = "failed")
  BY <1>5 DEF ByeDelete
<1>6. ASSUME NEW c \in Clients, Connection(c) PROVE UNCHANGED <<vmVars, byes>>
  BY <1>6 DEF Connection, ReadClientID, AddClientID, Disconnect
<1>7. ASSUME NEW c \in Clients, NEW id \in Ids,
             HelloRefused(c, id) \/ Attach(c, id) \/ ByeLookup(c, id)
      PROVE  UNCHANGED <<vmVars, byes>>
  BY <1>7 DEF HelloRefused, Attach, ByeLookup
<1>8. CASE UNCHANGED vars
  BY <1>1, <1>8 DEF vars
<1> QED
  BY <1>1, <1>2, <1>3, <1>4, <1>5, <1>6, <1>7, <1>8 DEF Next, Request, Handler

\* An entry that is emptied makes its handler the faster one.
LEMMA NextByeInTime == IInv /\ ByeInTime /\ [Next]_vars => ByeInTime'
<1> SUFFICES ASSUME IInv, ByeInTime, [Next]_vars, NEW c \in Clients, pc'[c] = "bye"
             PROVE  \/ vms'[containerID'[cur'[c]]] = cur'[c]
                    \/ Faster(cur[c])' /\ cur'[c] = cur[c]
  BY Zenon DEF ByeInTime, Faster
<1> USE VMsAssumption, IdsAssumption DEF IInv, TypeOK
<1>1. ASSUME NEW id \in Ids, ByeLookup(c, id)
      PROVE  vms'[containerID'[cur'[c]]] = cur'[c]
  BY <1>1 DEF ByeLookup, Respond, vmVars, FailedIsUnregistered
<1>2. CASE pc[c] = "bye" /\ cur'[c] = cur[c]
  <2>0. cur[c] \in VMs /\ vmState[cur[c]] # "free" /\ containerID[cur[c]] \in Ids
    BY <1>2 DEF InUse
  <2>1. CASE Faster(cur[c])
    BY <1>2, <2>0, <2>1, FasterStays
  <2>2. CASE vms[containerID[cur[c]]] = cur[c]
    <3>1. CASE UNCHANGED vmVars
      BY <1>2, <2>2, <3>1 DEF vmVars
    <3>2. ASSUME NEW d \in Clients, NEW id \in Ids, NEW u \in VMs, HelloRegister(d, id, u)
          PROVE  vms'[containerID'[cur'[c]]] = cur'[c]
      BY <1>2, <2>0, <2>2, <3>2 DEF HelloRegister
    <3>3. ASSUME NEW d \in Clients, HelloConnected(d)
          PROVE  vms'[containerID'[cur'[c]]] = cur'[c]
      BY <1>2, <2>2, <3>3 DEF HelloConnected
    <3>4. ASSUME NEW d \in Clients, HelloFailed(d) \/ ByeDelete(d)
          PROVE  vms'[containerID'[cur'[c]]] = cur'[c] \/ Faster(cur[c])'
      <4>1. cur[d] \in VMs /\ containerID[cur[d]] \in Ids
        BY <3>4 DEF HelloFailed, ByeDelete, InUse
      <4>2. /\ containerID' = containerID
            /\ vms' = [vms EXCEPT ![containerID[cur[d]]] = NoVM]
            /\ byes'[cur[d]] > 0 \/ vmState'[cur[d]] = "failed"
        BY <3>4, <4>1 DEF HelloFailed, ByeDelete
      <4>3. CASE containerID[cur[d]] = containerID[cur[c]]
        BY <1>2, <4>1, <4>2, <4>3 DEF Faster
      <4>4. CASE containerID[cur[d]] # containerID[cur[c]]
        BY <1>2, <2>0, <2>2, <4>2, <4>4
      <4> QED
        BY <4>3, <4>4
    <3>5. ASSUME NEW d \in Clients, Connection(d) PROVE UNCHANGED vmVars
      BY <3>5 DEF Connection, ReadClientID, AddClientID, Disconnect
    <3>6. ASSUME NEW d \in Clients, NEW id \in Ids,
                 HelloRefused(d, id) \/ Attach(d, id) \/ ByeLookup(d, id)
          PROVE  UNCHANGED vmVars
      BY <3>6 DEF HelloRefused, Attach, ByeLookup
    <3>7. CASE UNCHANGED vars
      BY <3>1, <3>7 DEF vars
    <3> QED
      BY <1>2, <3>1, <3>2, <3>3, <3>4, <3>5, <3>6, <3>7, Zenon DEF Next, Request, Handler
  <2> QED
    BY <1>2, <2>1, <2>2 DEF ByeInTime
<1>3. ASSUME pc[c] # "bye" \/ cur'[c] # cur[c]
      PROVE  \E id \in Ids : ByeLookup(c, id)
  <2>1. ASSUME NEW d \in Clients, Connection(d) PROVE FALSE
    BY <1>3, <2>1 DEF Connection, ReadClientID, AddClientID, Disconnect
  <2>2. ASSUME NEW d \in Clients, NEW id \in Ids,
               HelloRefused(d, id) \/ Attach(d, id) \/ \E v \in VMs : HelloRegister(d, id, v)
        PROVE  FALSE
    BY <1>3, <2>2 DEF HelloRefused, Attach, HelloRegister, Respond
  <2>3. ASSUME NEW d \in Clients, Handler(d) PROVE FALSE
    BY <1>3, <2>3 DEF Handler, HelloConnected, HelloFailed, ByeDelete, Respond
  <2>4. ASSUME NEW d \in Clients, NEW id \in Ids, ByeLookup(d, id) PROVE d = c
    BY <1>3, <2>4 DEF ByeLookup, Respond
  <2>5. CASE UNCHANGED vars
    BY <1>3, <2>5 DEF vars, clientVars
  <2> QED
    BY <2>1, <2>2, <2>3, <2>4, <2>5, Zenon DEF Next, Request
<1> QED
  BY <1>1, <1>2, <1>3, Zenon

\* Hello and bye delete by id.  The VM they take away is their own, or theirs has
\* been taken away before: by a bye that has succeeded or, where a bye deletes, by
\* a hello that has failed, and that was not about the VM that is lost now.
THEOREM LateRemovals == Spec => OthersRemovedLate
<1> DEFINE Late(c) ==
      LET id == containerID[cur[c]] IN
      /\ pc[c] \in {"connect", "bye"} /\ pc'[c] = "idle"
      /\ vms[id] \notin {NoVM, cur[c]} /\ vms'[id] = NoVM
      => \E w \in VMs :
            /\ containerID[w] = id /\ w # vms[id]
            /\ byes[w] > 0 \/ (pc[c] = "bye" /\ vmState[w] = "failed")
<1>1. Init => TakenAway /\ ByeInTime
  BY DEF Init, TakenAway, ByeInTime
<1>2. IInv /\ TakenAway /\ ByeInTime => [\A c \in Clients : Late(c)]_vars
  <2> SUFFICES ASSUME IInv, TakenAway, ByeInTime, NEW c \in Clients,
                      pc[c] \in {"connect", "bye"},
                      vms[containerID[cur[c]]] \notin {NoVM, cur[c]}
               PROVE  \E w \in VMs :
                         /\ containerID[w] = containerID[cur[c]]
                         /\ w # vms[containerID[cur[c]]]
                         /\ byes[w] > 0 \/ (pc[c] = "bye" /\ vmState[w] = "failed")
    BY Zenon
  <2>1. cur[c] \in VMs /\ containerID[cur[c]] \in Ids
    BY DEF IInv, TypeOK, InUse
  <2>2. \A w \in VMs : byes[w] > 0 /\ containerID[w] = containerID[cur[c]] =>
                          w # vms[containerID[cur[c]]]
    BY DEF TakenAway
  <2>3. CASE pc[c] = "connect"
    <3>1. vmState[cur[c]] = "connecting"
      BY <2>3 DEF IInv, Connecting
    <3>2. \E w \in VMs : containerID[w] = containerID[cur[c]] /\ byes[w] > 0
      BY <2>1, <3>1 DEF IInv, LostOnlyByBye
    <3> QED
      BY <2>2, <3>2, Zenon
  <2>4. CASE pc[c] = "bye"
    <3>1. Faster(cur[c])
      BY <2>4 DEF ByeInTime
    <3>2. \A w \in VMs : vmState[w] = "failed" => w # vms[containerID[cur[c]]]
      BY <2>1 DEF IInv, FailedIsUnregistered
    <3> QED
      BY <2>2, <2>4, <3>1, <3>2, Zenon DEF Faster
  <2> QED
    BY <2>3, <2>4
<1> QED
  BY IInvAlways, NextTakenAway, NextByeInTime, <1>1, <1>2, PTL
  DEF Spec, OthersRemovedLate
=============================================================================
