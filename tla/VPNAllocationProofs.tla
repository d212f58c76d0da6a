------------------------ MODULE VPNAllocationProofs ------------------------
(***************************************************************************)
(* Proofs about VPNAllocation, for every set of nodes, attempts and static *)
(* peers, every range of addresses and any number of faults and edits.     *)
(***************************************************************************)
EXTENDS VPNAllocation, TLAPS

\* No node of the cluster itself holds this address on the server.
Safe(ip) == \A s \in Static : wg[s] # ip

\* An attempt that has an address, and one that has seen the server since.
Blind   == {"checkBlind", "setBlind"}
Sighted == {"check", "set", "persist", "install", "done"}

Removing == {"remove", "unconf", "read", "release"}

AttemptInv(k) ==
    /\ pc[k] \in Blind => addr[k] \in IP
    /\ pc[k] \in Sighted => addr[k] \in IP /\ Safe(addr[k])

WorkerInv ==
    /\ worker.op = "record" =>
         /\ worker.node \in Node /\ worker.key \in Key
         /\ worker.ip \in IP /\ Safe(worker.ip)
    /\ worker.op \in Removing => worker.key \in Key \cup {None}

StatusInv == \A n \in Node : statusIP[n] # None => Safe(statusIP[n])

\* The addresses that attempts, the worker and the resources hold are not those of
\* the cluster's own nodes.
AddressInv == /\ \A k \in Key : AttemptInv(k)
              /\ WorkerInv
              /\ StatusInv

Inv == TypeOK /\ AddressInv

\* What a step may do to a tunnel of the cluster's own nodes: take it away.
StaticOnlyFalls == \A s \in Static : wg'[s] \in {wg[s], None}

ApiType ==
    store \in NetConfig /\ cached \in NetConfig /\ stream \in Seq(NetConfig)
-----------------------------------------------------------------------------
(* The NetConfig and the addresses.                                        *)

\* A write of a well-formed version keeps the cache well-formed (ApiCache!Write).
LEMMA WriteTypes ==
    ASSUME ApiType, NEW o \in NetConfig, Write(o)
    PROVE  ApiType'
<1>1. CASE Len(stream) < MaxLag
  BY <1>1 DEF Write, ApiType
<1>2. CASE ~(Len(stream) < MaxLag)
  <2>1. stream # <<>>
    BY <1>2, MaxLagAssumption DEF ApiType
  <2>2. Head(stream) \in NetConfig /\ Tail(stream) \in Seq(NetConfig)
    BY <2>1 DEF ApiType
  <2> QED
    BY <1>2, <2>2 DEF Write, ApiType
<1> QED
  BY <1>1, <1>2

\* So do a delivery and a restart (ApiCache!Deliver, Relist).
LEMMA CacheTypes ==
    ASSUME ApiType, Deliver \/ Relist
    PROVE  ApiType'
<1>1. CASE Deliver
  <2>1. Head(stream) \in NetConfig /\ Tail(stream) \in Seq(NetConfig)
    BY <1>1 DEF Deliver, ApiType
  <2> QED
    BY <1>1, <2>1 DEF Deliver, ApiType
<1>2. CASE Relist
  BY <1>2 DEF Relist, ApiType
<1> QED
  BY <1>1, <1>2

\* An address that the server does not show is no static peer's.
LEMMA FreeIsSafe ==
    ASSUME NEW ip \in IP, ip \notin ServerIPs
    PROVE  Safe(ip)
BY VPNConstantsAssumption DEF Safe, ServerIPs, ServerPeers, Peer

\* An address that is safe stays so, because static peers get no new addresses.
LEMMA SafeIsStable ==
    ASSUME StaticOnlyFalls, NEW ip, ip # None, Safe(ip)
    PROVE  Safe(ip)'
BY DEF StaticOnlyFalls, Safe

\* Addresses that are handed out are addresses of the range (getNextAvailableIP).
LEMMA NextFreeFacts ==
    ASSUME NEW start, NEW used, NEW ip \in NextFree(start, used)
    PROVE  ip \in IP /\ ip \notin used
BY DEF NextFree

\* None is no address.
LEMMA NoneIsNoAddress == None \notin IP /\ None \notin Peer /\ None \notin Node
BY VPNConstantsAssumption
-----------------------------------------------------------------------------
(* What a step leaves alone keeps its part of the invariant.               *)

LEMMA AttemptKept ==
    ASSUME Inv, StaticOnlyFalls, NEW k \in Key,
           pc'[k] = pc[k], addr'[k] = addr[k]
    PROVE  AttemptInv(k)'
<1>1. AttemptInv(k)
  BY DEF Inv, AddressInv
<1>2. CASE pc[k] \in Sighted
  <2>1. addr[k] \in IP /\ Safe(addr[k]) /\ addr[k] # None
    BY <1>1, <1>2, NoneIsNoAddress DEF AttemptInv
  <2>2. Safe(addr[k])'
    BY <2>1 DEF StaticOnlyFalls, Safe
  <2> QED
    BY <2>1, <2>2, <1>2 DEF AttemptInv, Safe, Sighted, Blind
<1>3. CASE pc[k] \notin Sighted
  BY <1>1, <1>3 DEF AttemptInv
<1> QED
  BY <1>2, <1>3

\* An attempt without an address has nothing to keep.
LEMMA AttemptVoid ==
    ASSUME NEW k \in Key, pc'[k] \in {"new", "allocate", "up", "failed", "gone"}
    PROVE  AttemptInv(k)'
BY DEF AttemptInv, Blind, Sighted

LEMMA WorkerKept ==
    ASSUME Inv, StaticOnlyFalls, worker' = worker
    PROVE  WorkerInv'
<1>1. WorkerInv
  BY DEF Inv, AddressInv
<1>2. ASSUME worker.op = "record" PROVE Safe(worker.ip)'
  <2>1. worker.ip \in IP /\ Safe(worker.ip) /\ worker.ip # None
    BY <1>1, <1>2, NoneIsNoAddress DEF WorkerInv
  <2> QED
    BY <2>1, SafeIsStable
<1> QED
  BY <1>1, <1>2 DEF WorkerInv, Safe

\* An idle worker, or one that waits for a cloud attempt, has nothing to keep.
LEMMA WorkerVoid ==
    ASSUME worker'.op \in {"idle", "provision"}
    PROVE  WorkerInv'
BY DEF WorkerInv, Removing

LEMMA StatusKept ==
    ASSUME Inv, StaticOnlyFalls,
           \A n \in Node : statusIP'[n] \in {statusIP[n], None}
    PROVE  StatusInv'
<1>1. StatusInv
  BY DEF Inv, AddressInv
<1>2. ASSUME NEW n \in Node, statusIP'[n] # None, NEW s \in Static
      PROVE  wg'[s] # statusIP'[n]
  <2>1. statusIP'[n] = statusIP[n] /\ Safe(statusIP[n])
    BY <1>1, <1>2 DEF StatusInv
  <2> QED
    BY <2>1, <1>2 DEF StaticOnlyFalls, Safe
<1> QED
  BY <1>2 DEF StatusInv, Safe

\* Most steps do not touch the running server.
LEMMA ServerKept ==
    ASSUME wg' = wg
    PROVE  StaticOnlyFalls
BY DEF StaticOnlyFalls
-----------------------------------------------------------------------------
(* The initial state and the steps of an attempt.                          *)

LEMMA InitInv ==
    ASSUME Init
    PROVE  Inv
<1>1. NoConfig \in NetConfig /\ [used |-> {StaticIP[ControlPlane]}, peers |-> {}] \in NetConfig
  BY VPNConstantsAssumption DEF NoConfig, NetConfig
<1>2. TypeOK
  BY <1>1, VPNConstantsAssumption DEF Init, TypeOK, Peer, Idle
<1>3. AddressInv
  BY VPNConstantsAssumption DEF Init, AddressInv, AttemptInv, WorkerInv, StatusInv, Blind,
     Sighted, Removing, Idle
<1> QED
  BY <1>2, <1>3 DEF Inv

LEMMA AbandonTypes ==
    ASSUME TypeOK, NEW k \in Key, Abandon(k)
    PROVE  /\ pc' = [pc EXCEPT ![k] = "failed"] /\ addr' \in [Key -> IP \cup {None}]
           /\ \A j \in Key \ {k} : addr'[j] = addr[j]
           /\ worker' \in {worker, Idle}
BY DEF Abandon, TypeOK

\* The invariant after a step of attempt k, from what the step does to k alone.
LEMMA AttemptStepInv ==
    ASSUME Inv, NEW k \in Key, StaticOnlyFalls, AttemptInv(k)',
           \A j \in Key \ {k} : pc'[j] = pc[j] /\ addr'[j] = addr[j],
           worker' = worker \/ worker'.op \in {"idle", "provision"},
           statusIP' = statusIP
    PROVE  AddressInv'
<1>1. ASSUME NEW j \in Key PROVE AttemptInv(j)'
  BY AttemptKept
<1>2. WorkerInv'
  BY WorkerKept, WorkerVoid
<1>3. StatusInv'
  BY StatusKept
<1> QED
  BY <1>1, <1>2, <1>3 DEF AddressInv

\* An attempt that ends without a result, whatever its last call did.
LEMMA AbandonStep ==
    ASSUME Inv, NEW k \in Key, Abandon(k),
           UNCHANGED <<apiVars, serverVars, copy, statusIP, deleted, edits>>,
           snap' \in [Key -> SUBSET IP], faults' \in 0..MaxFaults
    PROVE  Inv'
<1>1. /\ pc' = [pc EXCEPT ![k] = "failed"] /\ addr' \in [Key -> IP \cup {None}]
      /\ \A j \in Key \ {k} : addr'[j] = addr[j]
      /\ worker' \in {worker, Idle}
  BY AbandonTypes DEF Inv
<1>2. pc'[k] = "failed" /\ \A j \in Key \ {k} : pc'[j] = pc[j]
  BY <1>1 DEF Inv, TypeOK
<1>3. TypeOK'
  BY <1>1 DEF Inv, TypeOK, apiVars, serverVars, Idle
<1>4. AddressInv'
  BY <1>1, <1>2, AttemptVoid, AttemptStepInv, ServerKept DEF Idle, serverVars
<1> QED
  BY <1>3, <1>4 DEF Inv

LEMMA BeginStep ==
    ASSUME Inv, NEW k \in Key, Begin(k)
    PROVE  Inv'
<1>1. TypeOK'
  BY VPNConstantsAssumption DEF Inv, TypeOK, Begin, Task, apiVars, serverVars, NetConfig, Peer
<1>2. AttemptInv(k)'
  BY AttemptVoid DEF Inv, TypeOK, Begin
<1>3. AddressInv'
  <2>1. \A j \in Key \ {k} : pc'[j] = pc[j] /\ addr'[j] = addr[j]
    BY DEF Inv, TypeOK, Begin
  <2>2. worker' = worker \/ worker'.op = "provision"
    BY DEF Begin, Task
  <2>3. StaticOnlyFalls /\ statusIP' = statusIP
    BY ServerKept DEF Begin, serverVars
  <2> QED
    BY <1>2, <2>1, <2>2, <2>3, AttemptStepInv
<1> QED
  BY <1>1, <1>3 DEF Inv

LEMMA AllocateStep ==
    ASSUME Inv, NEW k \in Key, Allocate(k)
    PROVE  Inv' /\ wg' = wg
<1>1. /\ wg' = wg /\ conf' = conf /\ statusIP' = statusIP
      /\ UNCHANGED <<apiVars, copy, deleted, edits>> /\ pc[k] = "allocate"
      /\ snap' = [snap EXCEPT ![k] = {}] /\ faults' \in 0..MaxFaults
  BY VPNConstantsAssumption
  DEF Allocate, serverVars, Fault, NoFault, Inv, TypeOK
<1>2. \/ Abandon(k)
      \/ \E ip \in IP : /\ pc'[k] \in {"check", "checkBlind"}
                        /\ pc' = [pc EXCEPT ![k] = pc'[k]]
                        /\ addr' = [addr EXCEPT ![k] = ip]
                        /\ worker' = worker
                        /\ pc'[k] = "check" => Safe(ip)
  <2>1. PICK blind \in BOOLEAN :
          LET used == snap[k] \cup IF blind THEN {} ELSE ServerIPs IN
           \E start \in Starts(used) :
             \/ NextFree(start, used) = {} /\ Abandon(k)
             \/ \E ip \in NextFree(start, used) :
                  /\ pc' = [pc EXCEPT ![k] = IF blind THEN "checkBlind" ELSE "check"]
                  /\ addr' = [addr EXCEPT ![k] = ip]
                  /\ UNCHANGED worker
    BY DEF Allocate
  <2> DEFINE used == snap[k] \cup IF blind THEN {} ELSE ServerIPs
  <2>2. PICK start \in Starts(used) :
             \/ NextFree(start, used) = {} /\ Abandon(k)
             \/ \E ip \in NextFree(start, used) :
                  /\ pc' = [pc EXCEPT ![k] = IF blind THEN "checkBlind" ELSE "check"]
                  /\ addr' = [addr EXCEPT ![k] = ip]
                  /\ UNCHANGED worker
    BY <2>1
  <2>3. ASSUME NEW ip \in NextFree(start, used),
               pc' = [pc EXCEPT ![k] = IF blind THEN "checkBlind" ELSE "check"]
        PROVE  /\ ip \in IP
               /\ pc'[k] \in {"check", "checkBlind"}
               /\ pc' = [pc EXCEPT ![k] = pc'[k]]
               /\ pc'[k] = "check" => Safe(ip)
    <3>1. ip \in IP /\ ip \notin used
      BY NextFreeFacts
    <3>2. pc'[k] = IF blind THEN "checkBlind" ELSE "check"
      BY <2>3 DEF Inv, TypeOK
    <3>3. ASSUME ~blind PROVE Safe(ip)
      <4>1. ip \notin ServerIPs
        BY <3>1, <3>3
      <4> QED
        BY <3>1, <4>1, FreeIsSafe
    <3>4. pc' = [pc EXCEPT ![k] = pc'[k]]
      BY <2>3, <3>2
    <3>5. /\ pc'[k] \in {"check", "checkBlind"}
          /\ pc'[k] = "check" => ~blind
      BY <3>2
    <3> QED
      BY <3>1, <3>3, <3>4, <3>5
  <2> QED
    BY <2>2, <2>3
<1>3. CASE Abandon(k)
  <2>1. snap' \in [Key -> SUBSET IP]
    BY <1>1 DEF Inv, TypeOK
  <2> QED
    BY <1>1, <1>3, <2>1, AbandonStep DEF serverVars
<1>4. CASE ~Abandon(k)
  <2>1. PICK ip \in IP : /\ pc'[k] \in {"check", "checkBlind"}
                         /\ pc' = [pc EXCEPT ![k] = pc'[k]]
                         /\ addr' = [addr EXCEPT ![k] = ip]
                         /\ worker' = worker
                         /\ pc'[k] = "check" => Safe(ip)
    BY <1>2, <1>4
  <2>2. /\ addr'[k] = ip
        /\ \A j \in Key \ {k} : pc'[j] = pc[j] /\ addr'[j] = addr[j]
    BY <2>1 DEF Inv, TypeOK
  <2>3. TypeOK'
    BY <1>1, <2>1 DEF Inv, TypeOK, apiVars
  <2>4. AttemptInv(k)'
    BY <1>1, <2>1, <2>2 DEF AttemptInv, Blind, Sighted, Safe
  <2>5. AddressInv'
    BY <1>1, <2>1, <2>2, <2>4, AttemptStepInv, ServerKept
  <2> QED
    BY <1>1, <2>3, <2>5 DEF Inv
<1> QED
  BY <1>3, <1>4

LEMMA CheckStep ==
    ASSUME Inv, NEW k \in Key, CheckPeer(k)
    PROVE  Inv'
<1>1. /\ wg' = wg /\ conf' = conf /\ statusIP' = statusIP
      /\ UNCHANGED <<apiVars, snap, copy, deleted, edits>>
      /\ pc[k] \in {"check", "checkBlind"} /\ faults' \in 0..MaxFaults
  BY VPNConstantsAssumption
  DEF CheckPeer, serverVars, Fault, NoFault, Inv, TypeOK
<1>2. CASE Abandon(k)
  BY <1>1, <1>2, AbandonStep DEF serverVars, Inv, TypeOK
<1>3. CASE ~Abandon(k)
  <2>1. \/ addr[k] \notin ServerIPs /\ Proceed(k, "set")
        \/ Proceed(k, IF pc[k] = "checkBlind" THEN "setBlind" ELSE "set")
    BY <1>3 DEF CheckPeer
  <2>2. /\ worker' = worker /\ addr' = addr /\ pc'[k] \in {"set", "setBlind"}
        /\ pc' = [pc EXCEPT ![k] = pc'[k]]
        /\ pc'[k] = "set" => addr[k] \notin ServerIPs \/ pc[k] = "check"
    BY <1>1, <2>1 DEF Proceed, Inv, TypeOK
  <2>3. AttemptInv(k)
    BY DEF Inv, AddressInv
  <2>4. AttemptInv(k)'
    BY <1>1, <2>2, <2>3, FreeIsSafe DEF AttemptInv, Blind, Sighted, Safe
  <2>5. \A j \in Key \ {k} : pc'[j] = pc[j] /\ addr'[j] = addr[j]
    BY <2>2 DEF Inv, TypeOK
  <2>6. TypeOK'
    BY <1>1, <2>2 DEF Inv, TypeOK, apiVars
  <2>7. AddressInv'
    BY <1>1, <2>2, <2>4, <2>5, AttemptStepInv, ServerKept
  <2> QED
    BY <2>6, <2>7 DEF Inv
<1> QED
  BY <1>2, <1>3

\* "wg set" takes an address from nobody it was not free of, unless it is blind.
LEMMA SetStep ==
    ASSUME Inv, NEW k \in Key, SetPeer(k)
    PROVE  /\ Inv'
           /\ StaticOnlyFalls
           /\ \A s \in Static : wg'[s] # wg[s] => pc[k] = "setBlind" /\ pc'[k] = "persist"
<1>1. /\ conf' = conf /\ statusIP' = statusIP
      /\ UNCHANGED <<apiVars, snap, copy, deleted, edits>>
      /\ pc[k] \in {"set", "setBlind"} /\ faults' \in 0..MaxFaults
  BY VPNConstantsAssumption DEF SetPeer, Fault, NoFault, Inv, TypeOK
<1>2. CASE Abandon(k) /\ wg' = wg
  <2>1. Inv'
    BY <1>1, <1>2, AbandonStep DEF serverVars, Inv, TypeOK
  <2> QED
    BY <1>2, <2>1 DEF StaticOnlyFalls
<1>3. CASE /\ wg' = [p \in Peer |-> IF p = k THEN addr[k]
                                    ELSE IF wg[p] = addr[k] THEN None ELSE wg[p]]
           /\ Proceed(k, "persist")
  <2>1. /\ worker' = worker /\ addr' = addr /\ pc' = [pc EXCEPT ![k] = "persist"]
        /\ pc'[k] = "persist" /\ \A j \in Key \ {k} : pc'[j] = pc[j]
    BY <1>3 DEF Proceed, Inv, TypeOK
  <2>2. addr[k] \in IP /\ (pc[k] = "set" => Safe(addr[k]))
    BY <1>1 DEF Inv, AddressInv, AttemptInv, Blind, Sighted
  <2>3. ASSUME NEW s \in Static
        PROVE  /\ wg'[s] = IF wg[s] = addr[k] THEN None ELSE wg[s]
               /\ wg'[s] # addr[k]
    BY <1>3, <2>2, VPNConstantsAssumption DEF Peer
  <2>4. StaticOnlyFalls
    BY <2>3 DEF StaticOnlyFalls
  <2>5. AttemptInv(k)'
    BY <2>1, <2>2, <2>3 DEF AttemptInv, Blind, Safe
  <2>6. wg' \in [Peer -> IP \cup {None}]
    BY <1>3, <2>2 DEF Inv, TypeOK
  <2>7. TypeOK'
    BY <1>1, <2>1, <2>6 DEF Inv, TypeOK, apiVars
  <2>8. AddressInv'
    BY <1>1, <2>1, <2>4, <2>5, AttemptStepInv
  <2>9. \A s \in Static : wg'[s] # wg[s] => pc[k] = "setBlind"
    BY <1>1, <2>2, <2>3 DEF Safe
  <2> QED
    BY <2>1, <2>4, <2>7, <2>8, <2>9 DEF Inv
<1> QED
  BY <1>2, <1>3 DEF SetPeer

LEMMA PersistStep ==
    ASSUME Inv, NEW k \in Key, PersistPeer(k)
    PROVE  Inv' /\ wg' = wg
<1>1. /\ wg' = wg /\ statusIP' = statusIP
      /\ UNCHANGED <<apiVars, snap, copy, deleted, edits>>
      /\ pc[k] = "persist" /\ faults' \in 0..MaxFaults
  BY VPNConstantsAssumption DEF PersistPeer, Fault, NoFault, Inv, TypeOK
<1>2. CASE Abandon(k) /\ conf' = conf
  BY <1>1, <1>2, AbandonStep DEF serverVars, Inv, TypeOK
<1>3. CASE /\ conf' = StripStale(k) \cup {[key |-> k, ip |-> addr[k]]}
           /\ Proceed(k, "install")
  <2>1. /\ worker' = worker /\ addr' = addr /\ pc' = [pc EXCEPT ![k] = "install"]
        /\ pc'[k] = "install" /\ \A j \in Key \ {k} : pc'[j] = pc[j]
    BY <1>3 DEF Proceed, Inv, TypeOK
  <2>2. addr[k] \in IP /\ Safe(addr[k])
    BY <1>1 DEF Inv, AddressInv, AttemptInv, Sighted
  <2>3. AttemptInv(k)'
    BY <1>1, <2>1, <2>2 DEF AttemptInv, Blind, Safe
  <2>4. conf' \subseteq [key: Peer, ip: IP]
    BY <1>3, <2>2 DEF StripStale, Inv, TypeOK, Peer
  <2>5. TypeOK'
    BY <1>1, <2>1, <2>4 DEF Inv, TypeOK, apiVars
  <2>6. AddressInv'
    BY <1>1, <2>1, <2>3, AttemptStepInv, ServerKept
  <2> QED
    BY <1>1, <2>5, <2>6 DEF Inv
<1> QED
  BY <1>2, <1>3 DEF PersistPeer

LEMMA InstallStep ==
    ASSUME Inv, NEW k \in Key, Install(k)
    PROVE  Inv' /\ wg' = wg
<1>1. /\ wg' = wg /\ conf' = conf /\ statusIP' = statusIP
      /\ UNCHANGED <<apiVars, snap, copy, deleted, edits>>
      /\ pc[k] = "install" /\ faults' \in 0..MaxFaults
  BY VPNConstantsAssumption DEF Install, serverVars, Fault, NoFault, Inv, TypeOK
<1>2. CASE Abandon(k)
  BY <1>1, <1>2, AbandonStep DEF serverVars, Inv, TypeOK
<1>3. CASE Proceed(k, "done")
  <2>1. /\ worker' = worker /\ addr' = addr /\ pc' = [pc EXCEPT ![k] = "done"]
        /\ pc'[k] = "done" /\ \A j \in Key \ {k} : pc'[j] = pc[j]
    BY <1>3 DEF Proceed, Inv, TypeOK
  <2>2. addr[k] \in IP /\ Safe(addr[k])
    BY <1>1 DEF Inv, AddressInv, AttemptInv, Sighted
  <2>3. AttemptInv(k)'
    BY <1>1, <2>1, <2>2 DEF AttemptInv, Blind, Safe
  <2>4. TypeOK'
    BY <1>1, <2>1 DEF Inv, TypeOK, apiVars
  <2>5. AddressInv'
    BY <1>1, <2>1, <2>3, AttemptStepInv, ServerKept
  <2> QED
    BY <1>1, <2>4, <2>5 DEF Inv
<1> QED
  BY <1>2, <1>3 DEF Install
-----------------------------------------------------------------------------
(* The steps of the worker, of the NetConfig's other writer, of the cache  *)
(* and a restart.                                                          *)

LEMMA ReadForRecordStep ==
    ASSUME Inv, NEW k \in Key, ReadForRecord(k)
    PROVE  Inv' /\ wg' = wg
<1>1. /\ UNCHANGED <<apiVars, pc, snap, addr, serverVars, statusIP, deleted, faults, edits>>
      /\ pc[k] = "done" /\ copy' = cached
      /\ worker' = [op |-> "record", node |-> Owner[k], key |-> k, ip |-> addr[k]]
  BY DEF ReadForRecord, Task
<1>2. addr[k] \in IP /\ Safe(addr[k])
  BY <1>1 DEF Inv, AddressInv, AttemptInv, Sighted
<1>3. WorkerInv'
  BY <1>1, <1>2, VPNConstantsAssumption DEF WorkerInv, Removing, Safe, serverVars
<1>4. TypeOK'
  BY <1>1, <1>2, VPNConstantsAssumption DEF Inv, TypeOK, apiVars, serverVars, Peer
<1>5. AddressInv'
  BY <1>1, <1>3, AttemptKept, StatusKept, ServerKept DEF AddressInv, serverVars
<1> QED
  BY <1>1, <1>4, <1>5 DEF Inv, serverVars

\* The patch writes a well-formed NetConfig whenever the result is one.
LEMMA PatchTypes ==
    ASSUME Inv, NEW new \in NetConfig
    PROVE  PatchFrom(new) \in NetConfig
BY DEF PatchFrom, Inv, TypeOK, NetConfig

LEMMA PatchRecordStep ==
    ASSUME Inv, PatchRecord
    PROVE  Inv' /\ wg' = wg
<1>1. /\ worker.op = "record" /\ worker.node \in Node /\ worker.key \in Key
      /\ worker.ip \in IP /\ Safe(worker.ip)
  BY DEF PatchRecord, Inv, AddressInv, WorkerInv
<1>2. /\ UNCHANGED <<snap, serverVars, deleted, edits>> /\ faults' \in 0..MaxFaults
      /\ pc' = [pc EXCEPT ![worker.key] = "up"]
      /\ addr' = [addr EXCEPT ![worker.key] = None]
      /\ worker' = Idle /\ copy' = NoConfig
      /\ wg' = wg
  BY VPNConstantsAssumption DEF PatchRecord, Fault, NoFault, Inv, TypeOK, serverVars
<1>3. PICK ip \in {worker.ip, None} : statusIP' = [statusIP EXCEPT ![worker.node] = ip]
  BY DEF PatchRecord
<1>4. Recorded(worker.node, worker.key, worker.ip) \in NetConfig
  BY <1>1 DEF Recorded, Inv, TypeOK, NetConfig
<1>5. ApiType'
  <2>1. ApiType
    BY DEF Inv, TypeOK, ApiType
  <2>2. CASE UNCHANGED apiVars
    BY <2>1, <2>2 DEF ApiType, apiVars
  <2>3. CASE Write(PatchFrom(Recorded(worker.node, worker.key, worker.ip)))
    BY <1>4, <2>1, <2>3, PatchTypes, WriteTypes
  <2> QED
    BY <2>2, <2>3 DEF PatchRecord
<1>6. TypeOK'
  <2>1. NoConfig \in NetConfig
    BY DEF NoConfig, NetConfig
  <2>2. statusIP' \in [Node -> IP \cup {None}]
    BY <1>1, <1>3 DEF Inv, TypeOK
  <2> QED
    BY <1>1, <1>2, <1>5, <2>1, <2>2 DEF Inv, TypeOK, ApiType, serverVars, Idle
<1>7. \A j \in Key : AttemptInv(j)'
  <2>1. pc'[worker.key] = "up"
    BY <1>1, <1>2 DEF Inv, TypeOK
  <2>2. \A j \in Key \ {worker.key} : pc'[j] = pc[j] /\ addr'[j] = addr[j]
    BY <1>1, <1>2 DEF Inv, TypeOK
  <2> QED
    BY <1>1, <1>2, <2>1, <2>2, AttemptVoid, AttemptKept, ServerKept
<1>8. StatusInv'
  <2>1. StatusInv
    BY DEF Inv, AddressInv
  <2>2. ASSUME NEW n \in Node, statusIP'[n] # None, NEW s \in Static
        PROVE  wg[s] # statusIP'[n]
    <3>1. CASE n = worker.node
      <4>1. statusIP'[n] = worker.ip
        BY <1>1, <1>3, <2>2, <3>1 DEF Inv, TypeOK
      <4> QED
        BY <1>1, <4>1 DEF Safe
    <3>2. CASE n # worker.node
      <4>1. statusIP'[n] = statusIP[n]
        BY <1>3, <3>2 DEF Inv, TypeOK
      <4> QED
        BY <2>1, <2>2, <4>1 DEF StatusInv, Safe
    <3> QED
      BY <3>1, <3>2
  <2> QED
    BY <1>2, <2>2 DEF StatusInv, Safe
<1>9. WorkerInv'
  BY <1>2, WorkerVoid DEF Idle
<1> QED
  BY <1>2, <1>6, <1>7, <1>8, <1>9 DEF Inv, AddressInv

\* A cleanup ends: the resource forgets its address or keeps it, its attempts are over.
LEMMA CloseFacts ==
    ASSUME Inv, NEW n, Close(n)
    PROVE  /\ pc' \in [Key -> {"new", "allocate", "check", "checkBlind", "set", "setBlind",
                               "persist", "install", "done", "up", "failed", "gone"}]
           /\ \A k \in Key : pc'[k] = pc[k] \/ pc'[k] = "gone"
           /\ statusIP' \in [Node -> IP \cup {None}]
           /\ \A m \in Node : statusIP'[m] \in {statusIP[m], None}
<1>1. /\ pc' \in [Key -> {"new", "allocate", "check", "checkBlind", "set", "setBlind",
                          "persist", "install", "done", "up", "failed", "gone"}]
      /\ \A k \in Key : pc'[k] = pc[k] \/ pc'[k] = "gone"
  BY DEF Close, Inv, TypeOK
<1>2. statusIP' = [statusIP EXCEPT ![n] = None] \/ statusIP' = statusIP
  BY DEF Close
<1> QED
  BY <1>1, <1>2 DEF Inv, TypeOK

\* Which key a cleanup takes off the server: one recorded for an attempt, or the
\* holder of an address that is not a static peer's.
LEMMA HolderIsAttempt ==
    ASSUME Inv, NEW n \in Node
    PROVE  HolderOf(statusIP[n]) \in Key \cup {None}
<1>1. CASE statusIP[n] \notin ServerIPs
  BY <1>1 DEF HolderOf
<1>2. CASE statusIP[n] \in ServerIPs
  <2>1. \E p \in Peer : wg[p] = statusIP[n]
    BY <1>2 DEF ServerIPs, ServerPeers
  <2>2. HolderOf(statusIP[n]) \in Peer /\ wg[HolderOf(statusIP[n])] = statusIP[n]
    BY <1>2, <2>1 DEF HolderOf
  <2>3. statusIP[n] # None
    BY <1>2 DEF ServerIPs, ServerPeers
  <2>4. HolderOf(statusIP[n]) \notin Static
    BY <2>2, <2>3 DEF Inv, AddressInv, StatusInv, Safe
  <2> QED
    BY <2>2, <2>4 DEF Peer
<1> QED
  BY <1>1, <1>2

\* The invariant after a step that ends at most attempts and forgets at most
\* addresses of the resources.
LEMMA CleanupStepInv ==
    ASSUME Inv, StaticOnlyFalls, WorkerInv', addr' = addr,
           \A k \in Key : pc'[k] = pc[k] \/ pc'[k] = "gone",
           \A n \in Node : statusIP'[n] \in {statusIP[n], None}
    PROVE  AddressInv'
<1>1. \A k \in Key : AttemptInv(k)'
  BY AttemptKept, AttemptVoid
<1>2. StatusInv'
  BY StatusKept
<1> QED
  BY <1>1, <1>2 DEF AddressInv

LEMMA BeginCleanupStep ==
    ASSUME Inv, NEW n \in Node, BeginCleanup(n)
    PROVE  Inv' /\ wg' = wg
<1> DEFINE mine == {p \in cached.peers : p.node = n \/ p.ip = statusIP[n]}
<1>1. /\ UNCHANGED <<apiVars, snap, addr, serverVars, copy, edits>>
      /\ deleted' \subseteq Node /\ faults' \in 0..MaxFaults /\ wg' = wg
  BY VPNConstantsAssumption
  DEF BeginCleanup, Fault, NoFault, Inv, TypeOK, serverVars
<1>2. \/ \E key \in Key \cup {None}, ip \in IP \cup {None} :
           /\ worker' = [op |-> "remove", node |-> n, key |-> key, ip |-> ip]
           /\ UNCHANGED <<pc, statusIP>>
      \/ Close(n) /\ UNCHANGED worker
  <2>1. statusIP[n] \in IP \cup {None}
    BY DEF Inv, TypeOK
  <2>2. \A p \in mine : p.key \in Key /\ p.ip \in IP
    BY DEF Inv, TypeOK, NetConfig
  <2>3. \/ \E p \in mine : worker' = Task("remove", n, p.key, p.ip) /\ UNCHANGED <<pc, statusIP>>
        \/ /\ worker' = Task("remove", n, HolderOf(statusIP[n]), statusIP[n])
           /\ UNCHANGED <<pc, statusIP>>
        \/ worker' = Task("remove", n, None, statusIP[n]) /\ UNCHANGED <<pc, statusIP>>
        \/ Close(n) /\ UNCHANGED worker
    BY DEF BeginCleanup
  <2> QED
    BY <2>1, <2>2, <2>3, HolderIsAttempt DEF Task
<1>3. CASE Close(n) /\ UNCHANGED worker
  <2>1. AddressInv'
    BY <1>1, <1>3, CloseFacts, CleanupStepInv, ServerKept, WorkerKept
  <2>2. TypeOK'
    BY <1>1, <1>3, CloseFacts DEF Inv, TypeOK, apiVars, serverVars
  <2> QED
    BY <1>1, <2>1, <2>2 DEF Inv
<1>4. ASSUME NEW key \in Key \cup {None}, NEW ip \in IP \cup {None},
             worker' = [op |-> "remove", node |-> n, key |-> key, ip |-> ip],
             UNCHANGED <<pc, statusIP>>
      PROVE  Inv'
  <2>1. WorkerInv'
    BY <1>4 DEF WorkerInv, Removing
  <2>2. AddressInv'
    BY <1>1, <1>4, <2>1, CleanupStepInv, ServerKept
  <2>3. TypeOK'
    BY <1>1, <1>4 DEF Inv, TypeOK, apiVars, serverVars, Peer
  <2> QED
    BY <2>2, <2>3 DEF Inv
<1> QED
  BY <1>1, <1>2, <1>3, <1>4

\* Only a key of an attempt is ever taken off the server.
LEMMA RemovePeerStep ==
    ASSUME Inv, RemovePeer
    PROVE  Inv' /\ \A s \in Static : wg'[s] = wg[s]
<1>1. /\ worker.op = "remove" /\ worker' = [worker EXCEPT !.op = "unconf"]
      /\ UNCHANGED <<apiVars, pc, snap, addr, conf, copy, statusIP, deleted, edits>>
      /\ faults' \in 0..MaxFaults
      /\ wg' = wg \/ wg' = [p \in Peer |-> IF p = worker.key THEN None ELSE wg[p]]
  BY VPNConstantsAssumption DEF RemovePeer, Fault, NoFault, Inv, TypeOK
<1>2. worker.key \in Key \cup {None}
  BY <1>1 DEF Inv, AddressInv, WorkerInv, Removing
<1>3. \A s \in Static : wg'[s] = wg[s]
  BY <1>1, <1>2, VPNConstantsAssumption DEF Peer
<1>4. worker'.op = "unconf" /\ worker'.key = worker.key
  BY <1>1 DEF Inv, TypeOK
<1>5. WorkerInv'
  BY <1>2, <1>4 DEF WorkerInv, Removing
<1>6. TypeOK'
  <2>1. wg' \in [Peer -> IP \cup {None}]
    BY <1>1 DEF Inv, TypeOK
  <2> QED
    BY <1>1, <2>1 DEF Inv, TypeOK, apiVars
<1>7. AddressInv'
  BY <1>1, <1>3, <1>5, CleanupStepInv DEF StaticOnlyFalls
<1> QED
  BY <1>3, <1>6, <1>7 DEF Inv

LEMMA RemoveBlockStep ==
    ASSUME Inv, RemoveBlock
    PROVE  Inv' /\ wg' = wg
<1>1. /\ worker.op = "unconf" /\ worker' = [worker EXCEPT !.op = "read"]
      /\ UNCHANGED <<apiVars, pc, snap, addr, wg, copy, statusIP, deleted, edits>>
      /\ faults' \in 0..MaxFaults /\ conf' \subseteq conf
  BY VPNConstantsAssumption DEF RemoveBlock, Fault, NoFault, Inv, TypeOK
<1>2. worker'.op = "read" /\ worker'.key = worker.key
  BY <1>1 DEF Inv, TypeOK
<1>3. WorkerInv'
  BY <1>1, <1>2 DEF WorkerInv, Removing, Inv, AddressInv
<1>4. TypeOK'
  BY <1>1 DEF Inv, TypeOK, apiVars
<1>5. AddressInv'
  BY <1>1, <1>3, CleanupStepInv, ServerKept
<1> QED
  BY <1>1, <1>4, <1>5 DEF Inv

LEMMA ReadForReleaseStep ==
    ASSUME Inv, ReadForRelease
    PROVE  Inv' /\ wg' = wg
<1>1. /\ worker.op = "read" /\ worker' = [worker EXCEPT !.op = "release"]
      /\ UNCHANGED <<apiVars, pc, snap, addr, serverVars, statusIP, deleted, faults, edits>>
      /\ copy' = cached /\ wg' = wg
  BY DEF ReadForRelease, serverVars
<1>2. worker'.op = "release" /\ worker'.key = worker.key
  BY <1>1 DEF Inv, TypeOK
<1>3. WorkerInv'
  BY <1>1, <1>2 DEF WorkerInv, Removing, Inv, AddressInv
<1>4. TypeOK'
  BY <1>1 DEF Inv, TypeOK, apiVars, serverVars
<1>5. AddressInv'
  BY <1>1, <1>3, CleanupStepInv, ServerKept
<1> QED
  BY <1>1, <1>4, <1>5 DEF Inv

LEMMA PatchReleaseStep ==
    ASSUME Inv, PatchRelease
    PROVE  Inv' /\ wg' = wg
<1>1. /\ UNCHANGED <<snap, addr, serverVars, deleted, edits>> /\ faults' \in 0..MaxFaults
      /\ worker' = Idle /\ copy' = NoConfig /\ wg' = wg /\ Close(worker.node)
  BY VPNConstantsAssumption DEF PatchRelease, Fault, NoFault, Inv, TypeOK, serverVars
<1>2. Released(worker.node, worker.ip) \in NetConfig
  BY DEF Released, Inv, TypeOK, NetConfig
<1>3. ApiType'
  <2>1. ApiType
    BY DEF Inv, TypeOK, ApiType
  <2>2. CASE UNCHANGED apiVars
    BY <2>1, <2>2 DEF ApiType, apiVars
  <2>3. CASE Write(PatchFrom(Released(worker.node, worker.ip)))
    BY <1>2, <2>1, <2>3, PatchTypes, WriteTypes
  <2> QED
    BY <2>2, <2>3 DEF PatchRelease
<1>4. TypeOK'
  <2>1. NoConfig \in NetConfig
    BY DEF NoConfig, NetConfig
  <2> QED
    BY <1>1, <1>3, <2>1, CloseFacts DEF Inv, TypeOK, ApiType, serverVars, Idle
<1>5. WorkerInv'
  BY <1>1, WorkerVoid DEF Idle
<1>6. AddressInv'
  BY <1>1, <1>5, CloseFacts, CleanupStepInv, ServerKept
<1> QED
  BY <1>1, <1>4, <1>6 DEF Inv

\* The other writer and the cache change the NetConfig alone.
LEMMA OutsideStep ==
    ASSUME Inv, (\E s \in Static : ClusterWorkerJoins(s)) \/ ClusterRecreates \/ CacheDelivers
    PROVE  Inv' /\ wg' = wg
<1>1. /\ UNCHANGED <<pc, snap, addr, serverVars, worker, copy, statusIP, deleted, faults>>
      /\ edits' \in 0..MaxEdits /\ wg' = wg
  <2>1. UNCHANGED <<pc, snap, addr, serverVars, worker, copy, statusIP, deleted, faults>>
    BY DEF ClusterWorkerJoins, ClusterRecreates, CacheDelivers
  <2>2. edits' = edits \/ Edit
    BY DEF ClusterWorkerJoins, ClusterRecreates, CacheDelivers
  <2>3. edits' \in 0..MaxEdits
    BY <2>2, VPNConstantsAssumption DEF Edit, Inv, TypeOK
  <2> QED
    BY <2>1, <2>3 DEF serverVars
<1>2. ApiType'
  <2>1. ApiType
    BY DEF Inv, TypeOK, ApiType
  <2>2. CASE Deliver
    BY <2>1, <2>2, CacheTypes
  <2>3. ASSUME NEW s \in Static PROVE [store EXCEPT !.used = @ \cup {StaticIP[s]}] \in NetConfig
    BY <2>1, VPNConstantsAssumption DEF ApiType, NetConfig
  <2>4. [store EXCEPT !.used = {StaticIP[ControlPlane]}] \in NetConfig
    BY <2>1, VPNConstantsAssumption DEF ApiType, NetConfig
  <2>5. CASE \E s \in Static : ClusterWorkerJoins(s)
    BY <2>1, <2>3, <2>5, WriteTypes DEF ClusterWorkerJoins
  <2>6. CASE ClusterRecreates
    BY <2>1, <2>4, <2>6, WriteTypes DEF ClusterRecreates
  <2> QED
    BY <2>2, <2>5, <2>6 DEF CacheDelivers
<1>3. TypeOK'
  BY <1>1, <1>2 DEF Inv, TypeOK, ApiType, serverVars
<1>4. AddressInv'
  BY <1>1, CleanupStepInv, ServerKept, WorkerKept
<1> QED
  BY <1>1, <1>3, <1>4 DEF Inv

LEMMA CrashStep ==
    ASSUME Inv, Crash
    PROVE  Inv' /\ wg' = wg
<1>1. /\ UNCHANGED <<serverVars, statusIP, deleted, edits>> /\ faults' \in 0..MaxFaults
      /\ pc' = [k \in Key |-> IF Active(k) THEN "failed" ELSE pc[k]]
      /\ addr' = [k \in Key |-> None] /\ snap' = [k \in Key |-> {}]
      /\ worker' = Idle /\ copy' = NoConfig /\ wg' = wg
  BY VPNConstantsAssumption DEF Crash, Fault, Inv, TypeOK, serverVars
<1>2. ApiType'
  BY CacheTypes DEF Crash, Inv, TypeOK, ApiType
<1>3. TypeOK'
  <2>1. NoConfig \in NetConfig
    BY DEF NoConfig, NetConfig
  <2> QED
    BY <1>1, <1>2, <2>1 DEF Inv, TypeOK, ApiType, serverVars, Idle
<1>4. \A k \in Key : AttemptInv(k)'
  BY <1>1 DEF AttemptInv, Active, Blind, Sighted, Inv, TypeOK
<1>5. WorkerInv' /\ StatusInv'
  BY <1>1, WorkerVoid, StatusKept, ServerKept DEF Idle
<1> QED
  BY <1>1, <1>3, <1>4, <1>5 DEF Inv, AddressInv
-----------------------------------------------------------------------------
(* The theorems.                                                           *)

StepBlind == \E k \in Key : pc[k] = "setBlind" /\ pc'[k] = "persist"

LEMMA StepInv ==
    ASSUME Inv, [Next]_vars
    PROVE  Inv' /\ \A s \in Static : wg'[s] # wg[s] => StepBlind
<1>1. ASSUME NEW k \in Key, Attempt(k)
      PROVE  Inv' /\ \A s \in Static : wg'[s] # wg[s] => StepBlind
  <2>1. CASE Begin(k)
    BY <2>1, BeginStep DEF Begin, serverVars
  <2>2. CASE SetPeer(k)
    BY <2>2, SetStep DEF StepBlind
  <2>3. CASE CheckPeer(k)
    BY <2>3, CheckStep DEF CheckPeer, serverVars
  <2> QED
    BY <1>1, <2>1, <2>2, <2>3, AllocateStep, PersistStep, InstallStep, ReadForRecordStep
    DEF Attempt
<1>2. CASE Cleanup
  BY <1>2, BeginCleanupStep, RemovePeerStep, RemoveBlockStep, ReadForReleaseStep,
     PatchReleaseStep
  DEF Cleanup
<1>3. CASE UNCHANGED vars
  <2>1. StaticOnlyFalls /\ UNCHANGED <<pc, addr, worker, statusIP, wg>>
    BY <1>3, ServerKept DEF vars, serverVars
  <2>2. AddressInv'
    BY <2>1, CleanupStepInv, WorkerKept
  <2>3. TypeOK'
    BY <1>3 DEF Inv, TypeOK, vars, apiVars
  <2> QED
    BY <2>1, <2>2, <2>3 DEF Inv
<1> QED
  BY <1>1, <1>2, <1>3, PatchRecordStep, OutsideStep, CrashStep DEF Next

\* Every state of the server, the NetConfig, the attempts and the worker is well-formed.
THEOREM TypeCorrect == Spec => []TypeOK
<1>1. Init => Inv
  BY InitInv
<1>2. Inv /\ [Next]_vars => Inv'
  BY StepInv
<1>3. Inv => TypeOK
  BY DEF Inv
<1> QED
  BY <1>1, <1>2, <1>3, PTL DEF Spec

\* Provisioning and cleanup never take a tunnel of the cluster's own nodes away,
\* except an attempt that could read the server neither when it chose an address nor
\* when it registered it (AllocateVPNIP, RegisterVPNPeer, cleanupVPNPeer).
THEOREM StaticTunnelsSurvive == Spec => StaticTunnelTakenBlindly
<1>1. Init => Inv
  BY InitInv
<1>2. Inv /\ [Next]_vars => Inv'
  BY StepInv
<1>3. Inv /\ [Next]_vars =>
        [\A s \in Static :
           wg'[s] # wg[s] => \E k \in Key : pc[k] = "setBlind" /\ pc'[k] = "persist"]_vars
  BY StepInv DEF StepBlind
<1> QED
  BY <1>1, <1>2, <1>3, PTL DEF Spec, StaticTunnelTakenBlindly

\* A step leaves wg0.conf alone, takes blocks out of it, or registers one key.
LEMMA ConfStep ==
    ASSUME ConfGivesAddressOnce, [Next]_vars
    PROVE  ConfGivesAddressOnce'
<1>1. conf' \subseteq conf \/ \E k \in Key : conf' = StripStale(k) \cup {[key |-> k, ip |-> addr[k]]}
  <2>1. ASSUME NEW k \in Key, Attempt(k)
        PROVE  conf' = conf \/ conf' = StripStale(k) \cup {[key |-> k, ip |-> addr[k]]}
    BY <2>1 DEF Attempt, Begin, Allocate, CheckPeer, SetPeer, PersistPeer, Install,
       ReadForRecord, serverVars
  <2>2. CASE Cleanup
    BY <2>2 DEF Cleanup, BeginCleanup, RemovePeer, RemoveBlock, ReadForRelease, PatchRelease,
       serverVars
  <2> QED
    BY <2>1, <2>2 DEF Next, PatchRecord, ClusterWorkerJoins, ClusterRecreates, CacheDelivers,
       Crash, vars, serverVars
<1>2. CASE conf' \subseteq conf
  BY <1>2 DEF ConfGivesAddressOnce
<1>3. ASSUME NEW k \in Key, conf' = StripStale(k) \cup {[key |-> k, ip |-> addr[k]]}
      PROVE  ConfGivesAddressOnce'
  BY <1>3 DEF ConfGivesAddressOnce, StripStale
<1> QED
  BY <1>1, <1>2, <1>3

\* The address of each block of wg0.conf is its own, in every file that
\* registrations and cleanups leave behind (RegisterVPNPeer's step A).
THEOREM ConfIsFunctional == Spec => []ConfGivesAddressOnce
<1>1. Init => ConfGivesAddressOnce
  BY VPNConstantsAssumption DEF Init, ConfGivesAddressOnce
<1>2. ConfGivesAddressOnce /\ [Next]_vars => ConfGivesAddressOnce'
  BY ConfStep
<1> QED
  BY <1>1, <1>2, PTL DEF Spec
=============================================================================
