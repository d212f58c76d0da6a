--------------------------- MODULE VPNAllocation ---------------------------
(***************************************************************************)
(* VPN addresses and WireGuard peers: how provisioning attempts allocate   *)
(* an address and register a peer over SSH, how the manager's one worker   *)
(* records them in the NodeProvisionNetConfig (the resource of ApiCache)   *)
(* and how cleanupVPNPeer takes both back.  A cloud attempt runs inside    *)
(* the worker; an on-prem one runs in a goroutine of its own.              *)
(***************************************************************************)
EXTENDS ApiCache, FiniteSets

CONSTANTS
    Node,        \* NodeProvision resources
    OnPrem,      \* those that are bootstrapped by a goroutine
    Key,         \* key pairs: one per provisioning attempt
    Owner,       \* the node of each attempt
    Static,      \* peers of the cluster's own nodes, set up beforehand
    StaticIP,    \* their addresses
    ControlPlane,    \* the one of them that the NetConfig is created with
    LastIP,      \* bound: addresses of the range, 1..LastIP
    None,
    MaxFaults,   \* bound: failed calls and crashes
    MaxEdits     \* bound: writes to the NetConfig by the RemoteCluster controller

IP   == 1..LastIP
Peer == Key \cup Static

ASSUME VPNConstantsAssumption ==
    /\ LastIP \in Nat /\ MaxFaults \in Nat /\ MaxEdits \in Nat
    /\ OnPrem \subseteq Node
    /\ Owner \in [Key -> Node]
    /\ Key \cap Static = {}
    /\ ControlPlane \in Static
    /\ StaticIP \in [Static -> IP]
    /\ \A s, t \in Static : StaticIP[s] = StaticIP[t] => s = t
    /\ None \notin IP \cup Peer \cup Node

VARIABLES
    pc, snap, addr,   \* per attempt: where it is, the NetConfig it was given, its address
    wg, conf,         \* VPN server: running configuration, wg0.conf
    worker,           \* what the reconcile worker is doing
    copy,             \* its copy of the NetConfig status
    statusIP,         \* per node: status.vpnIP
    deleted,          \* nodes deleted under a running goroutine
    faults, edits     \* budgets spent

vars == <<apiVars, pc, snap, addr, wg, conf, worker, copy, statusIP, deleted,
          faults, edits>>

NetConfig == [used: SUBSET IP, peers: SUBSET [node: Node, key: Key, ip: IP]]

NoConfig == [used |-> {}, peers |-> {}]

Idle == [op |-> "idle", node |-> None, key |-> None, ip |-> None]

Task(op, n, k, ip) == [op |-> op, node |-> n, key |-> k, ip |-> ip]

Init ==
    /\ store = [used |-> {StaticIP[ControlPlane]}, peers |-> {}] /\ cached = store /\ stream = <<>>
    /\ pc = [k \in Key |-> "new"]
    /\ snap = [k \in Key |-> {}] /\ addr = [k \in Key |-> None]
    /\ wg = [p \in Peer |-> IF p \in Static THEN StaticIP[p] ELSE None]
    /\ conf = {[key |-> s, ip |-> StaticIP[s]] : s \in Static}
    /\ worker = Idle /\ copy = NoConfig
    /\ statusIP = [n \in Node |-> None] /\ deleted = {}
    /\ faults = 0 /\ edits = 0

NoFault == UNCHANGED faults
Fault   == faults < MaxFaults /\ faults' = faults + 1

serverVars == <<wg, conf>>

-----------------------------------------------------------------------------
(* One provisioning attempt.                                               *)

\* Mutant: the first peer's line is taken for the interface line.
ServerPeersSkipFirst == {p \in Key : wg[p] # None}

\* The peers in "wg show wg0 dump" that hold an address.
ServerPeers == {p \in Peer : wg[p] # None}

ServerIPs == {wg[p] : p \in ServerPeers}

\* Mutant: the end of the range is taken for an address of it.
NextFreePastEnd(start, used) ==
    LET later == {ip \in 1..(LastIP + 1) : ip > start /\ ip \notin used}
    IN {ip \in later : \A other \in later : ip <= other}

\* getNextAvailableIP: the next free address upwards, never round; none at the end.
NextFree(start, used) ==
    LET later == {ip \in IP : ip > start /\ ip \notin used}
    IN {ip \in later : \A other \in later : ip <= other}

\* The search starts at the last of the used addresses; they come out of a map, so
\* any of them may be the last.
Starts(used) == IF used = {} THEN {0} ELSE used

Active(k) == pc[k] \in {"allocate", "check", "checkBlind", "set", "setBlind", "persist",
                        "install", "done"}

\* The attempt is started by the worker, which a cloud attempt keeps.
Begin(k) ==
    /\ worker = Idle /\ pc[k] = "new" /\ Owner[k] \notin deleted
    /\ \A j \in Key : Owner[j] = Owner[k] => pc[j] \in {"new", "failed", "gone"}
    /\ pc' = [pc EXCEPT ![k] = "allocate"]
    /\ snap' = [snap EXCEPT ![k] = cached.used]
    /\ worker' = IF Owner[k] \in OnPrem THEN worker
                 ELSE Task("provision", Owner[k], k, None)
    /\ UNCHANGED <<apiVars, addr, serverVars, copy, statusIP, deleted, faults, edits>>

\* The attempt is over without a result; the worker is free again.
Abandon(k) ==
    /\ pc' = [pc EXCEPT ![k] = "failed"]
    /\ addr' = [addr EXCEPT ![k] = None]
    /\ worker' = IF worker.op = "provision" /\ worker.key = k THEN Idle ELSE worker

Proceed(k, label) == pc' = [pc EXCEPT ![k] = label] /\ UNCHANGED <<worker, addr>>

\* allocateVPNIP: what the NetConfig and the live server say, or, when the server
\* cannot be read, the NetConfig alone.  Its last check of the same reading is void.
Allocate(k) ==
    /\ pc[k] = "allocate"
    /\ \E blind \in BOOLEAN :
        /\ IF blind THEN Fault ELSE NoFault
        /\ LET used == snap[k] \cup IF blind THEN {} ELSE ServerIPs IN
           \E start \in Starts(used) :
             \/ NextFree(start, used) = {} /\ Abandon(k)
             \/ \E ip \in NextFree(start, used) :
                  /\ pc' = [pc EXCEPT ![k] = IF blind THEN "checkBlind" ELSE "check"]
                  /\ addr' = [addr EXCEPT ![k] = ip]
                  /\ UNCHANGED worker
    /\ snap' = [snap EXCEPT ![k] = {}]
    /\ UNCHANGED <<apiVars, serverVars, copy, statusIP, deleted, edits>>

\* registerVPNPeer reads again before it writes, goes on if it cannot, and fails if
\* the address is another's (or the forwarding rules cannot be set).
CheckPeer(k) ==
    /\ pc[k] \in {"check", "checkBlind"}
    /\ \/ addr[k] \notin ServerIPs /\ Proceed(k, "set") /\ NoFault
       \/ addr[k] \in ServerIPs /\ Abandon(k) /\ NoFault
       \/ Proceed(k, IF pc[k] = "checkBlind" THEN "setBlind" ELSE "set") /\ Fault
       \/ Abandon(k) /\ Fault
    /\ UNCHANGED <<apiVars, snap, serverVars, copy, statusIP, deleted, edits>>

\* "wg set": WireGuard moves an allowed address to the peer that was set last.
SetPeer(k) ==
    /\ pc[k] \in {"set", "setBlind"}
    /\ \/ /\ wg' = [p \in Peer |-> IF p = k THEN addr[k]
                                   ELSE IF wg[p] = addr[k] THEN None ELSE wg[p]]
          /\ Proceed(k, "persist") /\ NoFault
       \/ Fault /\ Abandon(k) /\ UNCHANGED wg
    /\ UNCHANGED <<apiVars, snap, conf, copy, statusIP, deleted, edits>>

\* Mutant: step A is left out.
StripNothing(k) == conf

\* Step A: a block with this address and another key goes.
StripStale(k) == {b \in conf : ~(b.ip = addr[k] /\ b.key # k)}

\* wg0.conf is rewritten.
PersistPeer(k) ==
    /\ pc[k] = "persist"
    /\ \/ /\ conf' = StripStale(k) \cup {[key |-> k, ip |-> addr[k]]}
          /\ Proceed(k, "install") /\ NoFault
       \/ Fault /\ Abandon(k) /\ UNCHANGED conf
    /\ UNCHANGED <<apiVars, snap, wg, copy, statusIP, deleted, edits>>

\* What follows the registration: the instance is launched, whose failure still
\* gives a result, or the machine is installed, whose failure gives none.
Install(k) ==
    /\ pc[k] = "install"
    /\ \/ Proceed(k, "done") /\ NoFault
       \/ Owner[k] \in OnPrem /\ Abandon(k) /\ Fault
    /\ UNCHANGED <<apiVars, snap, serverVars, copy, statusIP, deleted, edits>>

-----------------------------------------------------------------------------
(* updateNetConfigStatus: the worker records a result.                     *)

\* An on-prem result waits in its channel until the worker polls it, which it does
\* not do for a resource that is being deleted.
ReadForRecord(k) ==
    /\ pc[k] = "done" /\ Owner[k] \notin deleted
    /\ worker = Idle \/ (worker.op = "provision" /\ worker.key = k)
    /\ copy' = cached
    /\ worker' = Task("record", Owner[k], k, addr[k])
    /\ UNCHANGED <<apiVars, pc, snap, addr, serverVars, statusIP, deleted, faults, edits>>

\* A merge patch: a list that changed in the copy replaces the stored one.
PatchFrom(new) ==
    [used  |-> IF new.used = copy.used THEN store.used ELSE new.used,
     peers |-> IF new.peers = copy.peers THEN store.peers ELSE new.peers]

Recorded(n, k, ip) ==
    [used  |-> copy.used \cup {ip},
     peers |-> IF \E p \in copy.peers : p.key = k \/ p.ip = ip THEN copy.peers
               ELSE copy.peers \cup {[node |-> n, key |-> k, ip |-> ip]}]

\* Afterwards the address goes into the status, or that write is lost.
PatchRecord ==
    /\ worker.op = "record"
    /\ LET new == Recorded(worker.node, worker.key, worker.ip)
       IN \/ /\ IF new = copy THEN UNCHANGED apiVars ELSE Write(PatchFrom(new))
             /\ NoFault
          \/ UNCHANGED apiVars /\ Fault
    /\ \E ip \in {worker.ip, None} : statusIP' = [statusIP EXCEPT ![worker.node] = ip]
    /\ pc' = [pc EXCEPT ![worker.key] = "up"]
    /\ addr' = [addr EXCEPT ![worker.key] = None]
    /\ worker' = Idle /\ copy' = NoConfig
    /\ UNCHANGED <<snap, serverVars, deleted, edits>>

-----------------------------------------------------------------------------
(* cleanupVPNPeer: after a failure, at a deletion, and again if a later     *)
(* step of the deletion fails.                                              *)

HolderOf(ip) == IF ip \in ServerIPs THEN CHOOSE p \in Peer : wg[p] = ip ELSE None

\* The caller forgets the address, or fails and comes again.
Close(n) ==
    /\ \/ statusIP' = [statusIP EXCEPT ![n] = None]
       \/ UNCHANGED statusIP
    /\ pc' = [k \in Key |-> IF Owner[k] = n /\ pc[k] \in {"up", "failed"}
                            THEN "gone" ELSE pc[k]]

\* A deletion does not stop the node's goroutine.  The key is the one recorded for
\* the node or its address, else whoever holds the address on the server, if the
\* server answers.  A server that cannot be reached at all ends the cleanup, and
\* its caller goes on.
BeginCleanup(n) ==
    /\ worker = Idle
    /\ \E k \in Key : Owner[k] = n /\ pc[k] # "new"
    /\ deleted' = IF \E k \in Key : Owner[k] = n /\ Active(k) THEN deleted \cup {n}
                  ELSE deleted
    /\ LET mine == {p \in cached.peers : p.node = n \/ p.ip = statusIP[n]}
           remove(key, ip) == worker' = Task("remove", n, key, ip) /\ UNCHANGED <<pc, statusIP>>
       IN \/ \E p \in mine : remove(p.key, p.ip) /\ NoFault
          \/ mine = {} /\ remove(HolderOf(statusIP[n]), statusIP[n]) /\ NoFault
          \/ mine = {} /\ remove(None, statusIP[n]) /\ Fault
          \/ Close(n) /\ UNCHANGED worker /\ Fault
    /\ UNCHANGED <<apiVars, snap, addr, serverVars, copy, edits>>

\* "wg set peer remove"; a failure is logged.
RemovePeer ==
    /\ worker.op = "remove"
    /\ \/ wg' = [p \in Peer |-> IF p = worker.key THEN None ELSE wg[p]] /\ NoFault
       \/ worker.key # None /\ UNCHANGED wg /\ Fault
    /\ worker' = [worker EXCEPT !.op = "unconf"]
    /\ UNCHANGED <<apiVars, pc, snap, addr, conf, copy, statusIP, deleted, edits>>

\* Its block leaves wg0.conf; a failure is logged.
RemoveBlock ==
    /\ worker.op = "unconf"
    /\ \/ conf' = {b \in conf : b.key # worker.key} /\ NoFault
       \/ worker.key # None /\ UNCHANGED conf /\ Fault
    /\ worker' = [worker EXCEPT !.op = "read"]
    /\ UNCHANGED <<apiVars, pc, snap, addr, wg, copy, statusIP, deleted, edits>>

ReadForRelease ==
    /\ worker.op = "read"
    /\ copy' = cached
    /\ worker' = [worker EXCEPT !.op = "release"]
    /\ UNCHANGED <<apiVars, pc, snap, addr, serverVars, statusIP, deleted, faults, edits>>

Released(n, ip) ==
    [used  |-> copy.used \ {ip},
     peers |-> {p \in copy.peers : p.node # n /\ p.ip # ip}]

PatchRelease ==
    /\ worker.op = "release"
    /\ LET new == Released(worker.node, worker.ip)
       IN \/ /\ IF new = copy THEN UNCHANGED apiVars ELSE Write(PatchFrom(new))
             /\ NoFault
          \/ UNCHANGED apiVars /\ Fault
    /\ Close(worker.node)
    /\ worker' = Idle /\ copy' = NoConfig
    /\ UNCHANGED <<snap, addr, serverVars, deleted, edits>>

-----------------------------------------------------------------------------
(* The RemoteCluster controller, the cache and a restart.                  *)

Edit == edits < MaxEdits /\ edits' = edits + 1

\* "update": a worker of the cluster is appended, by a patch of its own.
ClusterWorkerJoins(s) ==
    /\ Edit /\ StaticIP[s] \notin store.used
    /\ Write([store EXCEPT !.used = @ \cup {StaticIP[s]}])
    /\ UNCHANGED <<pc, snap, addr, serverVars, worker, copy, statusIP, deleted, faults>>

\* "create": the list is set to the control plane's own address.
ClusterRecreates ==
    /\ Edit
    /\ Write([store EXCEPT !.used = {StaticIP[ControlPlane]}])
    /\ UNCHANGED <<pc, snap, addr, serverVars, worker, copy, statusIP, deleted, faults>>

CacheDelivers ==
    /\ Deliver
    /\ UNCHANGED <<pc, snap, addr, serverVars, worker, copy, statusIP, deleted, faults, edits>>

\* The manager restarts: goroutines, channels and the worker's locals are lost.
Crash ==
    /\ worker # Idle \/ \E k \in Key : Active(k)
    /\ Fault /\ Relist
    /\ pc' = [k \in Key |-> IF Active(k) THEN "failed" ELSE pc[k]]
    /\ addr' = [k \in Key |-> None] /\ snap' = [k \in Key |-> {}]
    /\ worker' = Idle /\ copy' = NoConfig
    /\ UNCHANGED <<serverVars, statusIP, deleted, edits>>

Attempt(k) ==
    \/ Begin(k) \/ Allocate(k) \/ CheckPeer(k) \/ SetPeer(k) \/ PersistPeer(k)
    \/ Install(k) \/ ReadForRecord(k)

Cleanup ==
    \/ \E n \in Node : BeginCleanup(n)
    \/ RemovePeer \/ RemoveBlock \/ ReadForRelease \/ PatchRelease

Next ==
    \/ \E k \in Key : Attempt(k)
    \/ PatchRecord
    \/ Cleanup
    \/ \E s \in Static : ClusterWorkerJoins(s)
    \/ ClusterRecreates
    \/ CacheDelivers
    \/ Crash

Spec == Init /\ [][Next]_vars
-----------------------------------------------------------------------------
(* Properties.                                                             *)

\* Type invariant of the server, the NetConfig and the attempts.
TypeOK ==
    /\ store \in NetConfig /\ cached \in NetConfig /\ stream \in Seq(NetConfig)
    /\ pc \in [Key -> {"new", "allocate", "check", "checkBlind", "set", "setBlind",
                       "persist", "install", "done", "up", "failed", "gone"}]
    /\ snap \in [Key -> SUBSET IP] /\ addr \in [Key -> IP \cup {None}]
    /\ wg \in [Peer -> IP \cup {None}]
    /\ conf \subseteq [key: Peer, ip: IP]
    /\ worker \in [op: {"idle", "provision", "record", "remove", "unconf", "read", "release"},
                   node: Node \cup {None}, key: Peer \cup {None}, ip: IP \cup {None}]
    /\ copy \in NetConfig
    /\ statusIP \in [Node -> IP \cup {None}] /\ deleted \subseteq Node
    /\ faults \in 0..MaxFaults /\ edits \in 0..MaxEdits

\* The tunnels of the cluster's own nodes survive every provisioning and cleanup,
\* whatever the NetConfig has lost of their addresses and however attempts overlap:
\* the live server keeps them from being given out, and only an attempt that could
\* read it neither before choosing nor before writing can take one.
StaticTunnelTakenBlindly ==
    [][\A s \in Static :
         wg'[s] # wg[s] => \E k \in Key : pc[k] = "setBlind" /\ pc'[k] = "persist"]_vars

\* "allocate a new IP instead of overwriting an active peer": a registration never
\* takes an address from another peer, however far the NetConfig, its cached copy
\* and the server have drifted apart.  (A peer's address goes by removal only.)
RegistrationTakesNothing ==
    [][\A p \in Peer :
         wg[p] # None /\ wg'[p] # wg[p] => worker.op = "remove"]_vars

\* wg0.conf never gives one address to two keys, although blocks of earlier
\* attempts stay behind when a cleanup or a crash leaves them: a restarted server
\* routes each address as the last registration said.
ConfGivesAddressOnce ==
    \A b, c \in conf : b.ip = c.ip => b.key = c.key

\* "Retries on conflict so a concurrent SSH-based update ... never causes the IP to
\* be silently dropped": recording an address loses no other one.
RecordDropsNothing ==
    [][worker.op = "record" /\ worker'.op # "record" => store.used \subseteq store'.used]_vars
=============================================================================
