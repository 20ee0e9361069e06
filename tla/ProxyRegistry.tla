--------------------------- MODULE ProxyRegistry ---------------------------
(***************************************************************************)
(* The map from container ids to VM objects that the proxy keeps, and the  *)
(* handlers that change it: hello, attach and bye (proxy/proxy.go).  Each  *)
(* client connection is served by a goroutine of its own, so handlers of   *)
(* different clients interleave between the critical sections of the proxy *)
(* mutex, each of which is one step here.  What vm.Connect does is in      *)
(* module HyperCtl; here it succeeds or fails.                             *)
(***************************************************************************)
EXTENDS Integers

CONSTANTS
    Clients,   \* connections to the proxy socket
    Ids,       \* container ids
    VMs,       \* VM objects, one per call of newVM
    EmptyId    \* the id of a hello without containerId

NoVM == "no VM"
NoId == "no id"

ASSUME VMsAssumption == NoVM \notin VMs
ASSUME IdsAssumption == NoId \notin Ids

VARIABLES
    nextClientID,  \* the global counter of connections
    clientID,      \* client.id
    vms,           \* proxy.vms
    containerID,   \* vm.containerID, NoId before newVM
    vmState,       \* how far the hello handler of a VM is
    pc,            \* where the goroutine of a client is
    cur,           \* the local variable vm of its handler
    clientVM,      \* client.vm
    response,      \* the last response sent to a client
    byes           \* history: successful byes that found a VM

idVars == <<nextClientID, clientID>>
vmVars == <<vms, containerID, vmState>>
clientVars == <<pc, cur, clientVM, response>>
vars == <<idVars, vmVars, clientVars, byes>>

Init ==
    /\ nextClientID = 1
    /\ clientID = [c \in Clients |-> 0]
    /\ vms = [id \in Ids |-> NoVM]
    /\ containerID = [v \in VMs |-> NoId]
    /\ vmState = [v \in VMs |-> "free"]
    /\ pc = [c \in Clients |-> "new"]
    /\ cur = [c \in Clients |-> NoVM]
    /\ clientVM = [c \in Clients |-> NoVM]
    /\ response = [c \in Clients |-> "none"]
    /\ byes = [v \in VMs |-> 0]

-----------------------------------------------------------------------------
(***************************************************************************)
(* serveNewClient: the id is read and the counter incremented in two steps *)
(***************************************************************************)

ReadClientID(c) ==
    /\ pc[c] = "new"
    /\ clientID' = [clientID EXCEPT ![c] = nextClientID]
    /\ pc' = [pc EXCEPT ![c] = "count"]
    /\ UNCHANGED <<nextClientID, vmVars, cur, clientVM, response, byes>>

AddClientID(c) ==
    /\ pc[c] = "count"
    /\ nextClientID' = nextClientID + 1
    /\ pc' = [pc EXCEPT ![c] = "idle"]
    /\ UNCHANGED <<clientID, vmVars, cur, clientVM, response, byes>>

\* Serve returns when the client has closed its connection.
Disconnect(c) ==
    /\ pc[c] = "idle"
    /\ pc' = [pc EXCEPT ![c] = "gone"]
    /\ UNCHANGED <<idVars, vmVars, cur, clientVM, response, byes>>

\* The handler of client c ends and its response is sent.
Respond(c, r) ==
    /\ pc' = [pc EXCEPT ![c] = "idle"]
    /\ cur' = [cur EXCEPT ![c] = NoVM]
    /\ response' = [response EXCEPT ![c] = r]

(***************************************************************************)
(* helloHandler                                                            *)
(***************************************************************************)

HelloRefused(c, id) ==
    /\ pc[c] = "idle"
    /\ vms[id] # NoVM
    /\ Respond(c, "error")
    /\ UNCHANGED <<idVars, vmVars, clientVM, byes>>

\* Mutant of HelloRegister: a registered container id is not refused.
HelloRegisterAgain(c, id, v) ==
    /\ pc[c] = "idle"
    /\ vmState[v] = "free"
    /\ vms' = [vms EXCEPT ![id] = v]
    /\ containerID' = [containerID EXCEPT ![v] = id]
    /\ vmState' = [vmState EXCEPT ![v] = "connecting"]
    /\ pc' = [pc EXCEPT ![c] = "connect"]
    /\ cur' = [cur EXCEPT ![c] = v]
    /\ UNCHANGED <<idVars, clientVM, response, byes>>

HelloRegister(c, id, v) ==
    /\ pc[c] = "idle"
    /\ vms[id] = NoVM
    /\ vmState[v] = "free"
    /\ vms' = [vms EXCEPT ![id] = v]
    /\ containerID' = [containerID EXCEPT ![v] = id]
    /\ vmState' = [vmState EXCEPT ![v] = "connecting"]
    /\ pc' = [pc EXCEPT ![c] = "connect"]
    /\ cur' = [cur EXCEPT ![c] = v]
    /\ UNCHANGED <<idVars, clientVM, response, byes>>

\* vm.Connect returns nil.  The error set for a malformed hello is kept.
HelloConnected(c) ==
    /\ pc[c] = "connect"
    /\ vmState' = [vmState EXCEPT ![cur[c]] = "connected"]
    /\ clientVM' = [clientVM EXCEPT ![c] = cur[c]]
    /\ Respond(c, IF containerID[cur[c]] = EmptyId THEN "error" ELSE "success")
    /\ UNCHANGED <<idVars, vms, containerID, byes>>

\* Mutant of HelloFailed: the entry is left in the map.
HelloFailedKept(c) ==
    /\ pc[c] = "connect"
    /\ UNCHANGED vms
    /\ vmState' = [vmState EXCEPT ![cur[c]] = "failed"]
    /\ Respond(c, "error")
    /\ UNCHANGED <<idVars, containerID, clientVM, byes>>

\* vm.Connect fails: the entry of the container id is deleted.
HelloFailed(c) ==
    /\ pc[c] = "connect"
    /\ vms' = [vms EXCEPT ![containerID[cur[c]]] = NoVM]
    /\ vmState' = [vmState EXCEPT ![cur[c]] = "failed"]
    /\ Respond(c, "error")
    /\ UNCHANGED <<idVars, containerID, clientVM, byes>>

(***************************************************************************)
(* attachHandler                                                           *)
(***************************************************************************)

Attach(c, id) ==
    /\ pc[c] = "idle"
    /\ \/ vms[id] = NoVM /\ Respond(c, "error") /\ UNCHANGED clientVM
       \/ /\ vms[id] # NoVM
          /\ clientVM' = [clientVM EXCEPT ![c] = vms[id]]
          /\ Respond(c, "success")
    /\ UNCHANGED <<idVars, vmVars, byes>>

(***************************************************************************)
(* byeHandler: the VM is looked up and deleted in two critical sections    *)
(***************************************************************************)

ByeLookup(c, id) ==
    /\ pc[c] = "idle"
    /\ \/ vms[id] = NoVM /\ Respond(c, "error")
       \/ /\ vms[id] # NoVM
          /\ pc' = [pc EXCEPT ![c] = "bye"]
          /\ cur' = [cur EXCEPT ![c] = vms[id]]
          /\ UNCHANGED response
    /\ UNCHANGED <<idVars, vmVars, clientVM, byes>>

ByeDelete(c) ==
    /\ pc[c] = "bye"
    /\ vms' = [vms EXCEPT ![containerID[cur[c]]] = NoVM]
    /\ clientVM' = [clientVM EXCEPT ![c] = NoVM]
    /\ byes' = [byes EXCEPT ![cur[c]] = @ + 1]
    /\ Respond(c, "success")
    /\ UNCHANGED <<idVars, containerID, vmState>>

-----------------------------------------------------------------------------
Connection(c) == ReadClientID(c) \/ AddClientID(c) \/ Disconnect(c)
Request(c, id) ==
    \/ HelloRefused(c, id) \/ Attach(c, id) \/ ByeLookup(c, id)
    \/ \E v \in VMs : HelloRegister(c, id, v)
Handler(c) == HelloConnected(c) \/ HelloFailed(c) \/ ByeDelete(c)

Next ==
    \E c \in Clients : Connection(c) \/ Handler(c) \/ \E id \in Ids : Request(c, id)

Spec == Init /\ [][Next]_vars

-----------------------------------------------------------------------------
\* The type invariant of the map, the VM objects and the clients.
TypeOK ==
    /\ nextClientID \in Nat \ {0}
    /\ clientID \in [Clients -> Nat]
    /\ vms \in [Ids -> VMs \cup {NoVM}]
    /\ containerID \in [VMs -> Ids \cup {NoId}]
    /\ vmState \in [VMs -> {"free", "connecting", "connected", "failed"}]
    /\ pc \in [Clients -> {"new", "count", "idle", "connect", "bye", "gone"}]
    /\ cur \in [Clients -> VMs \cup {NoVM}]
    /\ \A c \in Clients : pc[c] \in {"connect", "bye"} <=> cur[c] # NoVM
    /\ clientVM \in [Clients -> VMs \cup {NoVM}]
    /\ response \in [Clients -> {"none", "success", "error"}]
    /\ byes \in [VMs -> Nat]

\* A VM is only ever found under its own container id, and a VM whose hello
\* has failed is not found at all: HelloFailed deletes by id, whatever the id
\* maps to by then.
FailedIsUnregistered ==
    \A id \in Ids :
        vms[id] # NoVM =>
            containerID[vms[id]] = id /\ vmState[vms[id]] \in {"connecting", "connected"}

\* Failed hellos never hide a VM: one that is connecting or connected is in
\* the map under its container id, unless a bye for that id has succeeded.
LostOnlyByBye ==
    \A v \in VMs :
        vmState[v] \in {"connecting", "connected"} =>
            \/ vms[containerID[v]] = v
            \/ \E w \in VMs : containerID[w] = containerID[v] /\ byes[w] > 0

\* "A new Hello message with the same containerID should error out"
\* (proxy_test.go): a registered VM is never replaced by another one in one
\* step, it has to be removed first.
NeverReplaced ==
    [][\A id \in Ids : vms[id] # NoVM => vms'[id] \in {vms[id], NoVM}]_vars

\* hello and bye delete by id after they have released the mutex, and may take
\* away another VM than their own.  They do so only when theirs has been taken
\* away first: the VM of a failing hello by a bye for its id that has succeeded,
\* the VM a bye has looked up by such a bye or by a failed hello; and that bye or
\* hello was not about the VM that is now lost.
OthersRemovedLate ==
    [][\A c \in Clients :
          LET id == containerID[cur[c]] IN
          /\ pc[c] \in {"connect", "bye"} /\ pc'[c] = "idle"
          /\ vms[id] \notin {NoVM, cur[c]} /\ vms'[id] = NoVM
          => \E w \in VMs :
                /\ containerID[w] = id /\ w # vms[id]
                /\ byes[w] > 0 \/ (pc[c] = "bye" /\ vmState[w] = "failed")]_vars
=============================================================================
