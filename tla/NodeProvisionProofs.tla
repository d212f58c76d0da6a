------------------------ MODULE NodeProvisionProofs ------------------------
(***************************************************************************)
(* Proofs about NodeProvision, for every set of instances and addresses,   *)
(* every lag of the cache and any number of faults, edits and re-creations.*)
(***************************************************************************)
EXTENDS NodeProvision, TLAPS

\* Every version of the resource somebody may still read from the cache.
Versions == {cached} \cup {stream[k] : k \in 1..Len(stream)}

\* The phases of handleDelete; it shares two with the Failed branch.
DeletePC == {"delete", "deleteNode", "terminate", "clearIID", "unfinalize"}
SharedPC == {"cleanup", "release"}

\* A reconcile that works on a managed resource.
WorkPC == PC \ (DeletePC \cup SharedPC \cup {"idle", "addFinalizer"})

InDelete == pc \in DeletePC \/ (pc \in SharedPC /\ loc.deleting)
InWork   == pc \in WorkPC \/ (pc \in SharedPC /\ ~loc.deleting)

\* The reconcile's locals are set where they are used.
LocalsInv ==
    /\ pc # "idle" => loc.exists
    /\ pc \in {"launch", "record"} => alloc \in IP
    /\ pc = "terminate" => loc.iid # None
    /\ pc = "clearIID" => loc.iid = None
    /\ pc \in DeletePC => loc.deleting
    /\ InDelete => loc.finalizer

\* A copy the server would accept differs from the stored resource only in
\* fields the reconcile itself has set.
FreshInv ==
    locFresh =>
        /\ loc.exists = store.exists
        /\ loc.finalizer = store.finalizer
        /\ loc.deleting = store.deleting
        /\ pc \in {"delete", "deleteNode", "terminate"} => loc.iid = store.iid

\* While any readable version is managed, the stored resource still has its
\* finalizer, so nobody acts for a resource that is gone.
ManagedInv ==
    (\E v \in Versions : v.exists /\ Managed(v)) => store.exists /\ store.finalizer

WorkInv == InWork => store.exists /\ store.finalizer

\* A deletion that can still remove the finalizer has seen the newest version.
DeleteInv == InDelete /\ locFresh => \A v \in Versions : ~(v.exists /\ Managed(v))

\* The finalizer is there before an instance can be recorded.
FinalizerInv == store.exists /\ ~store.finalizer => store.iid = None

\* Past termination the recorded instance is gone, or its id is.
TerminatedInv ==
    /\ locFresh /\ (pc \in {"clearIID", "unfinalize"} \/ (pc \in SharedPC /\ loc.deleting))
    /\ store.iid # None
    => inst[store.iid] = "terminated"

\* The inductive invariant of the control state.
Inv ==
    /\ FreshInv /\ ManagedInv /\ WorkInv /\ DeleteInv /\ FinalizerInv
    /\ TerminatedInv /\ RecordedInstanceTerminated
-----------------------------------------------------------------------------
(* The API server and the cache.                                           *)

ApiType == store \in Object /\ cached \in Object /\ stream \in Seq(Object)

\* A write puts a well-formed version at the end of what the cache still has to
\* see, and takes nothing else into it (ApiCache!Write).
LEMMA WriteFacts ==
    ASSUME ApiType, CacheCoherent, NEW o \in Object, Write(o)
    PROVE  /\ ApiType' /\ CacheCoherent'
           /\ store' = o
           /\ Versions' \subseteq Versions \cup {o}
<1>1. CASE Len(stream) < MaxLag
  <2>1. stream' = Append(stream, o) /\ cached' = cached /\ store' = o
    BY <1>1 DEF Write
  <2>2. /\ Len(stream') = Len(stream) + 1
        /\ stream'[Len(stream')] = o
        /\ \A k \in 1..Len(stream) : stream'[k] = stream[k]
        /\ stream' \in Seq(Object)
    BY <2>1 DEF ApiType
  <2>3. Len(stream) \in Nat /\ stream' # <<>>
    BY <2>1 DEF ApiType
  <2> QED
    BY <2>1, <2>2, <2>3 DEF ApiType, CacheCoherent, Versions
<1>2. CASE ~(Len(stream) < MaxLag)
  <2>1. /\ stream' = Append(Tail(stream), o)
        /\ cached' = Head(stream) /\ store' = o
    BY <1>2 DEF Write
  <2>2. Len(stream) \in Nat /\ Len(stream) >= 1 /\ stream # <<>>
    BY <1>2, MaxLagAssumption DEF ApiType
  <2>3. /\ Head(stream) = stream[1]
        /\ Tail(stream) \in Seq(Object)
        /\ Len(Tail(stream)) = Len(stream) - 1
        /\ \A k \in 1..(Len(stream) - 1) : Tail(stream)[k] = stream[k + 1]
    BY <2>2 DEF ApiType
  <2>4. /\ stream' \in Seq(Object)
        /\ Len(stream') = Len(stream)
        /\ stream'[Len(stream)] = o
        /\ \A k \in 1..(Len(stream) - 1) : stream'[k] = stream[k + 1]
    BY <2>1, <2>2, <2>3
  <2>5. cached' \in Object /\ stream' # <<>>
    BY <2>1, <2>2, <2>3, <2>4 DEF ApiType
  <2>6. Versions' \subseteq Versions \cup {o}
    <3>1. cached' \in Versions
      BY <2>1, <2>2, <2>3 DEF Versions
    <3>2. ASSUME NEW k \in 1..Len(stream') PROVE stream'[k] \in Versions \cup {o}
      BY <2>2, <2>4 DEF Versions
    <3> QED
      BY <3>1, <3>2 DEF Versions
  <2> QED
    BY <2>1, <2>2, <2>4, <2>5, <2>6 DEF ApiType, CacheCoherent
<1> QED
  BY <1>1, <1>2

\* Delivering an event shows the cache nothing it was not to see (ApiCache!Deliver).
LEMMA DeliverFacts ==
    ASSUME ApiType, CacheCoherent, Deliver
    PROVE  /\ ApiType' /\ CacheCoherent'
           /\ store' = store
           /\ Versions' \subseteq Versions
<1>1. /\ stream # <<>> /\ cached' = Head(stream)
      /\ stream' = Tail(stream) /\ store' = store
  BY DEF Deliver
<1>2. /\ Len(stream) \in Nat /\ Len(stream) >= 1
      /\ Head(stream) = stream[1]
      /\ Tail(stream) \in Seq(Object)
      /\ Len(Tail(stream)) = Len(stream) - 1
      /\ \A k \in 1..(Len(stream) - 1) : Tail(stream)[k] = stream[k + 1]
  BY <1>1 DEF ApiType
<1>3. ApiType'
  BY <1>1, <1>2 DEF ApiType
<1>4. CacheCoherent'
  <2>1. CASE Len(stream) = 1
    <3>1. stream' = <<>>
      BY <2>1, <1>1, <1>2
    <3> QED
      BY <3>1, <2>1, <1>1, <1>2 DEF CacheCoherent
  <2>2. CASE Len(stream) > 1
    <3>1. Len(stream') = Len(stream) - 1
      BY <1>1, <1>2
    <3>4. stream' # <<>>
      <4>1. Len(stream') # 0
        BY <3>1, <2>2, <1>2
      <4> QED
        BY <4>1
    <3>2. Tail(stream)[Len(stream) - 1] = stream[Len(stream)]
      <4>1. Len(stream) - 1 \in 1..(Len(stream) - 1)
        BY <2>2, <1>2
      <4>2. Tail(stream)[Len(stream) - 1] = stream[(Len(stream) - 1) + 1]
        BY <4>1, <1>2
      <4>3. (Len(stream) - 1) + 1 = Len(stream)
        BY <1>2
      <4> QED
        BY <4>2, <4>3
    <3>3. stream'[Len(stream')] = stream[Len(stream)]
      <4>1. stream'[Len(stream')] = Tail(stream)[Len(stream) - 1]
        BY <3>1, <1>1
      <4> QED
        BY <4>1, <3>2
    <3> QED
      BY <3>4, <3>3, <1>1 DEF CacheCoherent
  <2> QED
    BY <2>1, <2>2, <1>2
<1>5. Versions' \subseteq Versions
  BY <1>1, <1>2 DEF Versions
<1> QED
  BY <1>1, <1>3, <1>4, <1>5

\* A restarted manager sees the stored version only (ApiCache!Relist).
LEMMA RelistFacts ==
    ASSUME ApiType, Relist
    PROVE  ApiType' /\ CacheCoherent' /\ store' = store /\ Versions' = {store}
<1>1. cached' = store /\ stream' = <<>> /\ store' = store
  BY DEF Relist
<1>2. Versions' = {store}
  BY <1>1 DEF Versions
<1> QED
  BY <1>1, <1>2 DEF ApiType, CacheCoherent
-----------------------------------------------------------------------------
(* Types, and the locals where they are used.                              *)

ApiInv == ApiType /\ CacheCoherent

\* The reconcile's own state, and the world's.
CtlType ==
    /\ pc \in PC /\ loc \in Object /\ locFresh \in BOOLEAN
    /\ alloc \in IP \cup {None} /\ launched \in Instance \cup {None}
    /\ LocalsInv

WorldType ==
    /\ inst \in [Instance -> {"none", "pending", "running", "joined", "terminated"}]
    /\ instIP \in [Instance -> IP \cup {None}]
    /\ srv \subseteq IP /\ ncPeers \subseteq IP /\ usedIPs \subseteq IP
    /\ node \in [exists: BOOLEAN, finalizer: BOOLEAN, deleting: BOOLEAN,
                 ip: IP \cup {None}]
    /\ job \in {"none", "running", "complete", "failed"}
    /\ userSecret \in BOOLEAN /\ ctrlSecret \in BOOLEAN

BudgetType ==
    faults \in 0..MaxFaults /\ edits \in 0..MaxEdits /\ creates \in 0..MaxCreates

TypeInv == ApiInv /\ CtlType /\ WorldType /\ BudgetType

\* TypeOK and LocalsInv, cut along the lines that the actions respect.
LEMMA TypeParts == TypeInv <=> TypeOK /\ CacheCoherent /\ LocalsInv
  BY DEF TypeInv, TypeOK, ApiInv, ApiType, CtlType, WorldType, BudgetType

\* A write accepted at the newest version, or lost.
LEMMA CommitType ==
    ASSUME ApiInv, BudgetType, NEW o \in Object, Commit(o) \/ Lost
    PROVE  ApiInv' /\ faults' \in 0..MaxFaults
<1>1. CASE Commit(o)
  BY <1>1, WriteFacts DEF Commit, ApiInv, BudgetType
<1>2. CASE Lost
  BY <1>2, ConstantsAssumption
    DEF Lost, Fault, apiVars, ApiInv, ApiType, CacheCoherent, BudgetType
<1> QED
  BY <1>1, <1>2

\* The reconcile's cleared copy of the resource is well formed.
LEMMA NoObjectType == NoObject \in Object
  BY DEF NoObject, Object, Phase

\* A reconcile that returns leaves no locals behind.
LEMMA ReturnType == Return => CtlType'
<1> SUFFICES ASSUME Return PROVE CtlType'
  OBVIOUS
<1>1. /\ pc' = "idle" /\ loc' = NoObject /\ locFresh' = FALSE
      /\ alloc' = None /\ launched' = None
  BY DEF Return
<1>2. LocalsInv'
  BY <1>1 DEF LocalsInv, InDelete, DeletePC, SharedPC
<1> QED
  BY <1>1, <1>2, NoObjectType DEF CtlType, PC

\* A failed call, or none, stays within the budget.
LEMMA FaultType ==
    ASSUME BudgetType, Fault \/ NoFault, UNCHANGED <<edits, creates>>
    PROVE  BudgetType'
  BY ConstantsAssumption DEF Fault, NoFault, BudgetType

\* A step that leaves the API server and the cache alone keeps them well formed.
LEMMA SameApiType == ApiInv /\ UNCHANGED apiVars => ApiInv'
  BY DEF ApiInv, ApiType, CacheCoherent, apiVars

\* A step that leaves cloud, VPN server, cluster and secrets alone keeps them well formed.
LEMMA SameWorldType == WorldType /\ UNCHANGED worldVars => WorldType'
  BY DEF WorldType, worldVars, cloudVars, vpnVars, k8sVars, secretVars

\* Most steps end the reconcile with one write, accepted or lost.
LEMMA CommitAndReturnType ==
    ASSUME TypeInv, NEW o \in Object, Commit(o) \/ Lost, Return,
           UNCHANGED <<worldVars, edits, creates>>
    PROVE  TypeInv'
<1>1. ApiInv' /\ faults' \in 0..MaxFaults
  BY CommitType DEF TypeInv
<1>2. BudgetType'
  BY <1>1 DEF TypeInv, BudgetType
<1> QED
  BY <1>1, <1>2, ReturnType, SameWorldType DEF TypeInv

\* What r.Get returns from the cache is a well-formed copy.
LEMMA ReadType ==
    ASSUME ApiInv, Read
    PROVE  loc' \in Object /\ locFresh' \in BOOLEAN
  BY DEF ApiInv, ApiType, Read, CacheCurrent

\* Start dispatches a copy to the branch its own fields choose.
LEMMA StartType == TypeInv /\ Start => TypeInv'
<1> SUFFICES ASSUME TypeInv, Start PROVE TypeInv'
  OBVIOUS
<1>1. ApiInv'
  BY SameApiType DEF TypeInv, Start
<1>2. WorldType' /\ BudgetType'
  <2>1. ctrlSecret' \in BOOLEAN /\ (Fault \/ NoFault)
    BY DEF Start, CopySecret, TypeInv, WorldType, ApiInv, ApiType, Object, NoFault
  <2> QED
    BY <2>1, FaultType DEF Start, TypeInv, WorldType, cloudVars, vpnVars, k8sVars
<1>3. CASE pc' = "idle"
  <2>1. LocalsInv'
    BY <1>3 DEF Start, LocalsInv, InDelete, DeletePC, SharedPC
  <2> QED
    BY <1>1, <1>2, <1>3, <2>1 DEF Start, TypeInv, CtlType, PC
<1>4. CASE pc' # "idle"
  <2>1. Read /\ loc' = cached /\ cached.exists
    BY <1>4 DEF Start, Read
  <2>2. pc' = Dispatch(cached)
    BY DEF Start
  <2>3. /\ pc' \in {"delete", "addFinalizer", "advance", "resolve", "poll", "join",
                    "prepull", "cleanup"}
        /\ pc' \in {"delete"} \/ (pc' = "cleanup" /\ cached.deleting)
              => cached.deleting /\ cached.finalizer
    BY <1>4, <2>2 DEF Dispatch
  <2>4. LocalsInv'
    BY <2>1, <2>3 DEF LocalsInv, InDelete, DeletePC, SharedPC
  <2>5. CtlType'
    BY <2>1, <2>3, <2>4, ReadType DEF Start, TypeInv, CtlType, PC
  <2> QED
    BY <1>1, <1>2, <2>5 DEF TypeInv
<1> QED
  BY <1>3, <1>4

\* The steps that end a reconcile with one write keep the state well formed.
LEMMA CommittingType ==
    TypeInv /\ (\/ AddFinalizer \/ AdvanceToWaiting \/ PersistInstanceID \/ Fail
                \/ AwaitNode \/ MarkReady \/ ResetAfterFailure) => TypeInv'
<1> SUFFICES ASSUME TypeInv PROVE
      (\/ AddFinalizer \/ AdvanceToWaiting \/ PersistInstanceID \/ Fail
       \/ AwaitNode \/ MarkReady \/ ResetAfterFailure) => TypeInv'
  OBVIOUS
<1> USE DEF TypeInv, CtlType, Object, Phase
<1>1. AddFinalizer => TypeInv'
  <2>1. [loc EXCEPT !.finalizer = TRUE] \in Object
    OBVIOUS
  <2> QED
    BY <2>1, CommitAndReturnType DEF AddFinalizer
<1>2. AdvanceToWaiting => TypeInv'
  <2>1. [loc EXCEPT !.phase = "WaitingForInstance"] \in Object
    OBVIOUS
  <2> QED
    BY <2>1, CommitAndReturnType DEF AdvanceToWaiting
<1>3. PersistInstanceID => TypeInv'
  <2>1. [loc EXCEPT !.phase = "WaitingForInstance", !.iid = launched,
                    !.vpnIP = alloc] \in Object
    OBVIOUS
  <2> QED
    BY <2>1, CommitAndReturnType DEF PersistInstanceID
<1>4. Fail => TypeInv'
  <2>1. [loc EXCEPT !.phase = "Failed"] \in Object
    OBVIOUS
  <2> QED
    BY <2>1, CommitAndReturnType DEF Fail
<1>5. AwaitNode => TypeInv'
  <2>1. [loc EXCEPT !.phase = "RegisteringNode"] \in Object
    OBVIOUS
  <2> QED
    BY <2>1, CommitAndReturnType DEF AwaitNode
<1>6. MarkReady => TypeInv'
  <2>1. [loc EXCEPT !.phase = "Ready"] \in Object
    OBVIOUS
  <2> QED
    BY <2>1, CommitAndReturnType DEF MarkReady
<1>7. ResetAfterFailure => TypeInv'
  <2>1. [loc EXCEPT !.phase = "Empty", !.vpnIP = None] \in Object
    OBVIOUS
  <2> QED
    BY <2>1, CommitAndReturnType DEF ResetAfterFailure
<1> QED
  BY <1>1, <1>2, <1>3, <1>4, <1>5, <1>6, <1>7

\* So do the poll of the instance and the record of the joined Node.
LEMMA PollAndRecordType ==
    TypeInv /\ (PollInstance \/ RecordJoin) => TypeInv'
<1>1. ASSUME TypeInv, PollInstance PROVE TypeInv'
  <2>1. [loc EXCEPT !.phase = "Bootstrapping"] \in Object
    BY <1>1 DEF TypeInv, CtlType, Object, Phase
  <2>2. CASE Commit([loc EXCEPT !.phase = "Bootstrapping"]) \/ Lost
    BY <1>1, <2>1, <2>2, CommitAndReturnType DEF PollInstance
  <2>3. CASE NoFault /\ UNCHANGED apiVars
    BY <1>1, <2>3, SameApiType, SameWorldType, ReturnType, FaultType
      DEF PollInstance, TypeInv
  <2> QED
    BY <1>1, <2>2, <2>3 DEF PollInstance
<1>2. ASSUME TypeInv, RecordJoin PROVE TypeInv'
  <2>1. /\ [loc EXCEPT !.phase = PhaseAfterJoin] \in Object
        /\ [loc EXCEPT !.phase = "Ready"] \in Object
    BY <1>2 DEF TypeInv, CtlType, Object, Phase, PhaseAfterJoin
  <2>2. CASE Commit([loc EXCEPT !.phase = PhaseAfterJoin]) \/ Lost
    BY <1>2, <2>1, <2>2, CommitAndReturnType DEF RecordJoin
  <2>3. CASE Write([loc EXCEPT !.phase = "Ready"]) /\ Fault
    <3>1. ApiInv'
      BY <1>2, <2>1, <2>3, WriteFacts DEF TypeInv, ApiInv
    <3> QED
      BY <1>2, <2>3, <3>1, SameWorldType, ReturnType, FaultType
        DEF RecordJoin, TypeInv
  <2> QED
    BY <1>2, <2>2, <2>3 DEF RecordJoin
<1> QED
  BY <1>1, <1>2

\* A marker leaves the reconcile at the next step with a readable copy, or ends it.
LEMMA MarkerType ==
    ASSUME TypeInv, NEW phase \in Phase, NEW next \in {"configureVPN", "connectVPN", "register"},
           pc # "idle", ProgressMarker(phase, next),
           UNCHANGED <<worldVars, edits, creates>>
    PROVE  TypeInv'
<1> DEFINE o == [loc EXCEPT !.phase = phase]
<1>1. o \in Object /\ o.exists
  BY DEF TypeInv, CtlType, LocalsInv, Object
<1>2. ApiInv' /\ BudgetType'
  BY <1>1, CommitType DEF ProgressMarker, TypeInv, BudgetType
<1>3. CASE pc' = next /\ loc' = o /\ locFresh' = TRUE /\ UNCHANGED <<alloc, launched>>
  <2>1. LocalsInv'
    BY <1>1, <1>3 DEF LocalsInv, InDelete, DeletePC, SharedPC
  <2> QED
    BY <1>1, <1>2, <1>3, <2>1, SameWorldType DEF TypeInv, CtlType, PC
<1>4. CASE cached.exists /\ Read /\ Goto(next)
  <2>1. LocalsInv'
    BY <1>4 DEF Read, Goto, LocalsInv, InDelete, DeletePC, SharedPC
  <2> QED
    BY <1>2, <1>4, <2>1, ReadType, SameWorldType DEF TypeInv, CtlType, PC, Goto
<1>5. CASE Return
  BY <1>2, <1>5, ReturnType, SameWorldType DEF TypeInv
<1> QED
  BY <1>3, <1>4, <1>5 DEF ProgressMarker, Goto

\* The three progress markers of reconcileAWSProvisioning keep the state well formed.
LEMMA MarkersType ==
    TypeInv /\ (MarkValidating \/ MarkConfiguringVPN \/ ConnectVPN) => TypeInv'
<1>1. ASSUME TypeInv, MarkValidating PROVE TypeInv'
  BY <1>1, MarkerType DEF MarkValidating, Phase
<1>2. ASSUME TypeInv, Fault, Return, UNCHANGED <<apiVars, worldVars, edits, creates>>
      PROVE  TypeInv'
  BY <1>2, SameApiType, SameWorldType, ReturnType, FaultType DEF TypeInv
<1>3. ASSUME TypeInv, MarkConfiguringVPN PROVE TypeInv'
  BY <1>2, <1>3, MarkerType DEF MarkConfiguringVPN, Phase
<1>4. ASSUME TypeInv, ConnectVPN PROVE TypeInv'
  BY <1>2, <1>4, MarkerType DEF ConnectVPN, Phase
<1> QED
  BY <1>1, <1>3, <1>4

\* The steps between the markers and the write that records the instance.
LEMMA LaunchingType ==
    TypeInv /\ (\/ ResolveDefaults \/ RegisterPeer \/ LaunchInstance
                \/ RecordAllocation) => TypeInv'
<1>1. ASSUME TypeInv, ResolveDefaults PROVE TypeInv'
  <2>1. ApiInv'
    <3>1. [store EXCEPT !.resolved = TRUE] \in Object
      BY <1>1 DEF TypeInv, ApiInv, ApiType, Object
    <3> QED
      BY <1>1, <3>1, SameApiType, WriteFacts DEF ResolveDefaults, TypeInv, ApiInv
  <2>2. CtlType'
    <3>1. CASE Return
      BY <3>1, ReturnType
    <3>2. CASE (Goto("validating") \/ Goto("fail")) /\ Keep
      BY <1>1, <3>2 DEF ResolveDefaults, Goto, Keep, TypeInv, CtlType, LocalsInv, InDelete,
        DeletePC, SharedPC, PC
    <3> QED
      BY <1>1, <3>1, <3>2 DEF ResolveDefaults
  <2> QED
    BY <1>1, <2>1, <2>2, SameWorldType, FaultType DEF ResolveDefaults, TypeInv
<1>2. ASSUME TypeInv, RegisterPeer PROVE TypeInv'
  <2>1. srv' \subseteq IP /\ (Fault \/ NoFault)
    BY <1>2 DEF RegisterPeer, FreeIP, TypeInv, WorldType
  <2>2. WorldType' /\ BudgetType'
    BY <1>2, <2>1, FaultType
      DEF RegisterPeer, TypeInv, WorldType, cloudVars, k8sVars, secretVars
  <2>3. CtlType'
    BY <1>2 DEF RegisterPeer, FreeIP, Keep, TypeInv, CtlType, LocalsInv, InDelete,
      DeletePC, SharedPC, PC
  <2> QED
    BY <1>2, <2>2, <2>3, SameApiType DEF RegisterPeer, TypeInv
<1>3. ASSUME TypeInv, LaunchInstance PROVE TypeInv'
  <2>1. /\ inst' \in [Instance -> {"none", "pending", "running", "joined", "terminated"}]
        /\ instIP' \in [Instance -> IP \cup {None}]
        /\ launched' \in Instance \cup {None}
        /\ Fault \/ NoFault
    BY <1>3 DEF LaunchInstance, TypeInv, WorldType, CtlType
  <2>2. WorldType' /\ BudgetType'
    BY <1>3, <2>1, FaultType
      DEF LaunchInstance, TypeInv, WorldType, vpnVars, k8sVars, secretVars
  <2>3. CtlType'
    BY <1>3, <2>1 DEF LaunchInstance, Keep, TypeInv, CtlType, LocalsInv, InDelete,
      DeletePC, SharedPC, PC
  <2> QED
    BY <1>3, <2>2, <2>3, SameApiType DEF LaunchInstance, TypeInv
<1>4. ASSUME TypeInv, RecordAllocation PROVE TypeInv'
  <2>1. alloc \in IP
    BY <1>4 DEF RecordAllocation, TypeInv, CtlType, LocalsInv
  <2>2. usedIPs' \subseteq IP /\ ncPeers' \subseteq IP /\ (Fault \/ NoFault)
    BY <1>4, <2>1 DEF RecordAllocation, TypeInv, WorldType
  <2>3. WorldType' /\ BudgetType'
    BY <1>4, <2>2, FaultType
      DEF RecordAllocation, TypeInv, WorldType, cloudVars, k8sVars, secretVars
  <2>4. CtlType'
    <3>1. CASE Return
      BY <3>1, ReturnType
    <3>2. CASE cached.exists /\ Read /\ Goto("persist")
      <4>1. LocalsInv'
        BY <3>2 DEF Read, Goto, LocalsInv, InDelete, DeletePC, SharedPC
      <4> QED
        BY <1>4, <3>2, <4>1, ReadType DEF TypeInv, CtlType, PC, Goto
    <3>3. CASE /\ loc' = [loc EXCEPT !.vpnIP = alloc]
               /\ UNCHANGED locFresh /\ Goto("fail")
      <4>1. loc' \in Object /\ loc'.exists
        BY <1>4, <3>3 DEF RecordAllocation, TypeInv, CtlType, LocalsInv, Object
      <4>2. LocalsInv'
        BY <3>3, <4>1 DEF Goto, LocalsInv, InDelete, DeletePC, SharedPC
      <4> QED
        BY <1>4, <3>3, <4>1, <4>2 DEF TypeInv, CtlType, PC, Goto
    <3> QED
      BY <1>4, <3>1, <3>2, <3>3 DEF RecordAllocation
  <2> QED
    BY <1>4, <2>3, <2>4, SameApiType DEF RecordAllocation, TypeInv
<1> QED
  BY <1>1, <1>2, <1>3, <1>4

\* Stamping the Node and the pre-pull Job keep the state well formed.
LEMMA JoiningType == TypeInv /\ (StampNode \/ PrepullImages) => TypeInv'
<1>1. ASSUME TypeInv, StampNode PROVE TypeInv'
  <2>1. WorldType' /\ BudgetType'
    <3>1. node' \in [exists: BOOLEAN, finalizer: BOOLEAN, deleting: BOOLEAN,
                     ip: IP \cup {None}] /\ (Fault \/ NoFault)
      BY <1>1 DEF StampNode, Stamped, TypeInv, WorldType
    <3> QED
      BY <1>1, <3>1, FaultType
        DEF StampNode, TypeInv, WorldType, cloudVars, vpnVars, secretVars
  <2>2. CtlType'
    <3>1. CASE Return
      BY <3>1, ReturnType
    <3>2. CASE /\ loc' = [loc EXCEPT !.named = TRUE] /\ UNCHANGED locFresh
               /\ Goto("joined")
      <4>1. loc' \in Object /\ loc'.exists
        BY <1>1, <3>2 DEF StampNode, TypeInv, CtlType, LocalsInv, Object
      <4>2. LocalsInv'
        BY <3>2, <4>1 DEF Goto, LocalsInv, InDelete, DeletePC, SharedPC
      <4> QED
        BY <1>1, <3>2, <4>1, <4>2 DEF TypeInv, CtlType, PC, Goto
    <3> QED
      BY <1>1, <3>1, <3>2 DEF StampNode
  <2> QED
    BY <1>1, <2>1, <2>2, SameApiType DEF StampNode, TypeInv
<1>2. ASSUME TypeInv, PrepullImages PROVE TypeInv'
  <2>1. WorldType' /\ BudgetType'
    <3>1. job' \in {"none", "running", "complete", "failed"} /\ (Fault \/ NoFault)
      BY <1>2 DEF PrepullImages, TypeInv, WorldType
    <3> QED
      BY <1>2, <3>1, FaultType
        DEF PrepullImages, TypeInv, WorldType, cloudVars, vpnVars, secretVars
  <2>2. CtlType'
    <3>1. CASE Return
      BY <3>1, ReturnType
    <3>2. CASE cached.exists /\ Read /\ Goto("markReady")
      <4>1. LocalsInv'
        BY <3>2 DEF Read, Goto, LocalsInv, InDelete, DeletePC, SharedPC
      <4> QED
        BY <1>2, <3>2, <4>1, ReadType DEF TypeInv, CtlType, PC, Goto
    <3> QED
      BY <1>2, <3>1, <3>2 DEF PrepullImages, BeginMarkReady
  <2> QED
    BY <1>2, <2>1, <2>2, SameApiType DEF PrepullImages, TypeInv
<1> QED
  BY <1>1, <1>2

\* After the cleanup handleDelete keeps its copy, the Failed branch reads a new one.
LEMMA AfterCleanupType ==
    ASSUME TypeInv, pc \in SharedPC, AfterCleanup
    PROVE  CtlType'
<1>1. CASE Return
  BY <1>1, ReturnType
<1>2. CASE loc.deleting /\ Goto("unfinalize") /\ Keep
  <2>1. LocalsInv'
    BY <1>2 DEF Keep, Goto, TypeInv, CtlType, LocalsInv, InDelete, DeletePC, SharedPC
  <2> QED
    BY <1>2, <2>1 DEF TypeInv, CtlType, PC, Goto, Keep
<1>3. CASE cached.exists /\ Read /\ Goto("retry")
  <2>1. LocalsInv'
    BY <1>3 DEF Read, Goto, LocalsInv, InDelete, DeletePC, SharedPC
  <2> QED
    BY <1>3, <2>1, ReadType DEF TypeInv, CtlType, PC, Goto
<1> QED
  BY <1>1, <1>2, <1>3 DEF AfterCleanup

\* cleanupVPNPeer keeps the state well formed, whoever called it.
LEMMA CleanupType == TypeInv /\ (CleanupServer \/ CleanupNetConfig) => TypeInv'
<1>1. ASSUME TypeInv, CleanupServer PROVE TypeInv'
  <2>1. srv' \subseteq IP /\ (Fault \/ NoFault)
    BY <1>1 DEF CleanupServer, TypeInv, WorldType
  <2>2. WorldType' /\ BudgetType'
    BY <1>1, <2>1, FaultType
      DEF CleanupServer, TypeInv, WorldType, cloudVars, k8sVars, secretVars
  <2>3. CtlType'
    <3>1. CASE AfterCleanup
      BY <1>1, <3>1, AfterCleanupType DEF CleanupServer, SharedPC
    <3>2. CASE /\ \E ip \in CleanupTargets : alloc' = ip
               /\ pc' = "release" /\ UNCHANGED launched /\ Keep
      <4>1. alloc' \in IP \cup {None}
        BY <1>1, <3>2 DEF CleanupTargets, TypeInv, WorldType, CtlType, Object
      <4>2. LocalsInv'
        BY <1>1, <3>2 DEF CleanupServer, Keep, TypeInv, CtlType, LocalsInv, InDelete,
          DeletePC, SharedPC
      <4> QED
        BY <1>1, <3>2, <4>1, <4>2 DEF TypeInv, CtlType, PC, Keep
    <3> QED
      BY <1>1, <3>1, <3>2 DEF CleanupServer
  <2> QED
    BY <1>1, <2>2, <2>3, SameApiType DEF CleanupServer, TypeInv
<1>2. ASSUME TypeInv, CleanupNetConfig PROVE TypeInv'
  <2>1. /\ ncPeers' \subseteq IP /\ usedIPs' \subseteq IP
        /\ Fault \/ NoFault
    BY <1>2 DEF CleanupNetConfig, TypeInv, WorldType
  <2>2. WorldType' /\ BudgetType'
    BY <1>2, <2>1, FaultType
      DEF CleanupNetConfig, TypeInv, WorldType, cloudVars, k8sVars, secretVars
  <2>3. CtlType'
    BY <1>2, AfterCleanupType DEF CleanupNetConfig, SharedPC
  <2> QED
    BY <1>2, <2>2, <2>3, SameApiType DEF CleanupNetConfig, TypeInv
<1> QED
  BY <1>1, <1>2

\* handleDelete starts with a well-formed copy in phase Deleting.
LEMMA BeginDeleteType == TypeInv /\ BeginDelete => TypeInv'
<1> SUFFICES ASSUME TypeInv, BeginDelete PROVE TypeInv'
  OBVIOUS
<1> DEFINE o == [loc EXCEPT !.phase = "Deleting"]
<1>1. o \in Object /\ o.exists /\ o.deleting /\ o.finalizer
  BY DEF BeginDelete, TypeInv, CtlType, LocalsInv, InDelete, DeletePC, Object, Phase
<1>2. ApiInv' /\ BudgetType'
  BY <1>1, CommitType DEF BeginDelete, TypeInv, BudgetType
<1>3. pc' = "deleteNode" /\ loc' = o /\ locFresh' \in BOOLEAN
  BY DEF BeginDelete, Goto, TypeInv, CtlType
<1>4. LocalsInv'
  BY <1>1, <1>3 DEF LocalsInv, InDelete, DeletePC, SharedPC
<1> QED
  BY <1>1, <1>2, <1>3, <1>4, SameWorldType DEF BeginDelete, Goto, TypeInv, CtlType, PC

\* The later steps of handleDelete keep the state well formed; the terminated
\* instance is one the status names.
LEMMA DeletingType ==
    TypeInv /\ (\/ DeleteNode \/ ConfirmNodeGone \/ TerminateInstance
                \/ ClearInstanceID \/ RemoveFinalizer) => TypeInv'
<1>1. ASSUME TypeInv, DeleteNode PROVE TypeInv'
  <2>1. WorldType' /\ BudgetType'
    <3>1. node' \in [exists: BOOLEAN, finalizer: BOOLEAN, deleting: BOOLEAN,
                     ip: IP \cup {None}] /\ (Fault \/ NoFault)
      <4>1. NoNode \in [exists: BOOLEAN, finalizer: BOOLEAN, deleting: BOOLEAN,
                        ip: IP \cup {None}]
        BY DEF NoNode
      <4>2. \/ node' = NoNode
            \/ node' = [node EXCEPT !.deleting = TRUE]
            \/ node' = [node EXCEPT !.finalizer = FALSE]
        BY <1>1 DEF DeleteNode
      <4>3. Fault \/ NoFault
        BY <1>1 DEF DeleteNode
      <4> QED
        BY <1>1, <4>1, <4>2, <4>3 DEF TypeInv, WorldType
    <3> QED
      BY <1>1, <3>1, FaultType
        DEF DeleteNode, TypeInv, WorldType, cloudVars, vpnVars, secretVars
  <2> QED
    BY <1>1, <2>1, SameApiType, ReturnType DEF DeleteNode, TypeInv
<1>2. ASSUME TypeInv, ConfirmNodeGone PROVE TypeInv'
  <2>1. pc' \in {"cleanup", "terminate"}
        /\ (pc' = "terminate" => loc.iid # None)
    BY <1>2 DEF ConfirmNodeGone, Goto
  <2>2. LocalsInv'
    BY <1>2, <2>1 DEF ConfirmNodeGone, Keep, TypeInv, CtlType, LocalsInv, InDelete,
      DeletePC, SharedPC
  <2> QED
    BY <1>2, <2>1, <2>2, SameApiType, SameWorldType
      DEF ConfirmNodeGone, Keep, Goto, TypeInv, CtlType, PC, BudgetType
<1>3. ASSUME TypeInv, TerminateInstance PROVE TypeInv'
  <2>1. WorldType' /\ BudgetType'
    <3>1. inst' \in [Instance -> {"none", "pending", "running", "joined", "terminated"}]
          /\ (Fault \/ NoFault)
      BY <1>3 DEF TerminateInstance, TypeInv, WorldType
    <3> QED
      BY <1>3, <3>1, FaultType
        DEF TerminateInstance, TypeInv, WorldType, vpnVars, k8sVars, secretVars
  <2>2. CtlType'
    <3>1. CASE Return
      BY <3>1, ReturnType
    <3>2. CASE /\ loc' = [loc EXCEPT !.iid = None] /\ UNCHANGED locFresh
               /\ Goto("clearIID")
      <4>1. /\ loc' \in Object /\ loc'.exists /\ loc'.deleting /\ loc'.finalizer
            /\ loc'.iid = None
        BY <1>3, <3>2 DEF TerminateInstance, TypeInv, CtlType, LocalsInv, InDelete,
          DeletePC, Object
      <4>2. LocalsInv'
        BY <3>2, <4>1 DEF Goto, LocalsInv, InDelete, DeletePC, SharedPC
      <4> QED
        BY <1>3, <3>2, <4>1, <4>2 DEF TypeInv, CtlType, PC, Goto
    <3> QED
      BY <1>3, <3>1, <3>2 DEF TerminateInstance, TerminateError
  <2> QED
    BY <1>3, <2>1, <2>2, SameApiType DEF TerminateInstance, TypeInv
<1>4. ASSUME TypeInv, ClearInstanceID PROVE TypeInv'
  <2>1. ApiInv' /\ BudgetType'
    BY <1>4, CommitType DEF ClearInstanceID, TypeInv, CtlType, BudgetType
  <2>2. LocalsInv'
    BY <1>4 DEF ClearInstanceID, Goto, TypeInv, CtlType, LocalsInv, InDelete,
      DeletePC, SharedPC
  <2> QED
    BY <1>4, <2>1, <2>2, SameWorldType DEF ClearInstanceID, Goto, TypeInv, CtlType, PC
<1>5. ASSUME TypeInv, RemoveFinalizer PROVE TypeInv'
  <2>1. [store EXCEPT !.finalizer = FALSE, !.exists = FALSE] \in Object
    BY <1>5 DEF TypeInv, ApiInv, ApiType, Object
  <2>2. ApiInv' /\ BudgetType'
    BY <1>5, <2>1, CommitType DEF RemoveFinalizer, TypeInv, BudgetType
  <2>3. WorldType'
    BY <1>5 DEF RemoveFinalizer, TypeInv, WorldType, cloudVars, vpnVars
  <2> QED
    BY <1>5, <2>2, <2>3, ReturnType DEF RemoveFinalizer, TypeInv
<1> QED
  BY <1>1, <1>2, <1>3, <1>4, <1>5

\* Users, the cache, the cloud and a crash leave the reconcile's locals usable.
LEMMA SameCtlType ==
    ASSUME TypeInv, UNCHANGED <<pc, loc, alloc, launched>>, locFresh' \in BOOLEAN
    PROVE  CtlType'
  BY DEF TypeInv, CtlType, LocalsInv, InDelete, DeletePC, SharedPC

\* A write by somebody else takes the reconcile's copy out of date and leaves it usable.
LEMMA WriteByOtherType ==
    ASSUME TypeInv, NEW o \in Object, WriteByOther(o)
    PROVE  ApiInv' /\ CtlType' /\ faults' \in 0..MaxFaults
<1>1. ApiInv' /\ faults' \in 0..MaxFaults
  BY WriteFacts DEF WriteByOther, TypeInv, ApiInv, BudgetType
<1> QED
  BY <1>1, SameCtlType DEF WriteByOther

\* Users keep the state well formed.
LEMMA UserType == TypeInv /\ User => TypeInv'
<1>1. ASSUME TypeInv, UserCreates PROVE TypeInv'
  <2>1. PICK full \in BOOLEAN :
          WriteByOther([NoObject EXCEPT !.exists = TRUE, !.resolved = full])
    BY <1>1 DEF UserCreates
  <2>2. [NoObject EXCEPT !.exists = TRUE, !.resolved = full] \in Object
    BY NoObjectType DEF Object
  <2>3. ApiInv' /\ CtlType' /\ faults' \in 0..MaxFaults
    BY <1>1, <2>1, <2>2, WriteByOtherType
  <2> QED
    BY <1>1, <2>3, SameWorldType, ConstantsAssumption
      DEF UserCreates, TypeInv, BudgetType
<1>2. ASSUME TypeInv, UserEdits PROVE TypeInv'
  <2>1. ApiInv' /\ CtlType' /\ faults' \in 0..MaxFaults
    BY <1>2, WriteByOtherType DEF UserEdits, TypeInv, ApiInv, ApiType
  <2> QED
    BY <1>2, <2>1, SameWorldType, ConstantsAssumption
      DEF UserEdits, TypeInv, BudgetType
<1>3. ASSUME TypeInv, UserDeletes PROVE TypeInv'
  <2>1. /\ [store EXCEPT !.deleting = TRUE] \in Object
        /\ [store EXCEPT !.deleting = TRUE, !.exists = FALSE] \in Object
    BY <1>3 DEF TypeInv, ApiInv, ApiType, Object
  <2>2. ApiInv' /\ CtlType' /\ faults' \in 0..MaxFaults
    BY <1>3, <2>1, WriteByOtherType DEF UserDeletes
  <2> QED
    BY <1>3, <2>2, SameWorldType DEF UserDeletes, TypeInv, BudgetType
<1>4. ASSUME TypeInv, UserDeletesSecret PROVE TypeInv'
  <2>1. WorldType'
    BY <1>4 DEF UserDeletesSecret, TypeInv, WorldType, cloudVars, vpnVars, k8sVars
  <2> QED
    BY <1>4, <2>1, SameApiType, SameCtlType
      DEF UserDeletesSecret, ctlVars, TypeInv, CtlType, BudgetType
<1>5. ASSUME TypeInv, UserDeletesNode PROVE TypeInv'
  <2>1. node' \in [exists: BOOLEAN, finalizer: BOOLEAN, deleting: BOOLEAN,
                   ip: IP \cup {None}]
    <3>1. NoNode \in [exists: BOOLEAN, finalizer: BOOLEAN, deleting: BOOLEAN,
                      ip: IP \cup {None}]
      BY DEF NoNode
    <3>2. node' = NoNode \/ node' = [node EXCEPT !.deleting = TRUE]
      BY <1>5 DEF UserDeletesNode
    <3> QED
      BY <1>5, <3>1, <3>2 DEF TypeInv, WorldType
  <2>2. WorldType'
    BY <1>5, <2>1
      DEF UserDeletesNode, TypeInv, WorldType, cloudVars, vpnVars, secretVars
  <2> QED
    BY <1>5, <2>2, SameApiType, SameCtlType, ConstantsAssumption
      DEF UserDeletesNode, ctlVars, TypeInv, CtlType, BudgetType
<1> QED
  BY <1>1, <1>2, <1>3, <1>4, <1>5 DEF User

\* The cache, a crash of the manager and the cloud keep the state well formed.
LEMMA CloudType == TypeInv /\ (CacheDelivers \/ Crash \/ Cloud) => TypeInv'
<1>1. ASSUME TypeInv, CacheDelivers PROVE TypeInv'
  BY <1>1, DeliverFacts, SameCtlType, SameWorldType
    DEF CacheDelivers, ctlVars, TypeInv, ApiInv, CtlType, BudgetType
<1>2. ASSUME TypeInv, Crash PROVE TypeInv'
  BY <1>2, RelistFacts, ReturnType, SameWorldType, FaultType
    DEF Crash, TypeInv, ApiInv
<1>3. ASSUME TypeInv, NEW i \in Instance, InstanceBoots(i) PROVE TypeInv'
  <2>1. WorldType'
    BY <1>3 DEF InstanceBoots, TypeInv, WorldType, vpnVars, k8sVars, secretVars
  <2> QED
    BY <1>3, <2>1, SameApiType, SameCtlType
      DEF InstanceBoots, ctlVars, TypeInv, CtlType, BudgetType
<1>4. ASSUME TypeInv, NEW i \in Instance, NodeRegisters(i) PROVE TypeInv'
  <2>1. WorldType'
    <3>1. node' \in [exists: BOOLEAN, finalizer: BOOLEAN, deleting: BOOLEAN,
                     ip: IP \cup {None}]
      BY <1>4 DEF NodeRegisters, NoNode, TypeInv, WorldType
    <3> QED
      BY <1>4, <3>1 DEF NodeRegisters, TypeInv, WorldType, vpnVars, secretVars
  <2> QED
    BY <1>4, <2>1, SameApiType, SameCtlType
      DEF NodeRegisters, ctlVars, TypeInv, CtlType, BudgetType
<1>5. ASSUME TypeInv, JobFinishes \/ JobExpires PROVE TypeInv'
  <2>1. WorldType' /\ BudgetType'
    BY <1>5, FaultType
      DEF JobFinishes, JobExpires, TypeInv, WorldType, cloudVars, vpnVars, secretVars
  <2> QED
    BY <1>5, <2>1, SameApiType, SameCtlType
      DEF JobFinishes, JobExpires, ctlVars, TypeInv, CtlType
<1> QED
  BY <1>1, <1>2, <1>3, <1>4, <1>5 DEF Cloud

\* The first state of the controller is well formed.
LEMMA TypeInit == Init => TypeInv
<1> SUFFICES ASSUME Init PROVE TypeInv
  OBVIOUS
<1>1. ApiInv
  BY NoObjectType DEF Init, ApiInv, ApiType, CacheCoherent
<1>2. CtlType
  <2>1. LocalsInv
    BY DEF Init, LocalsInv, InDelete, DeletePC, SharedPC
  <2> QED
    BY <2>1, NoObjectType DEF Init, CtlType, PC
<1>3. WorldType
  <2>1. NoNode \in [exists: BOOLEAN, finalizer: BOOLEAN, deleting: BOOLEAN,
                    ip: IP \cup {None}]
    BY DEF NoNode
  <2> QED
    BY <2>1 DEF Init, WorldType
<1>4. BudgetType
  BY ConstantsAssumption DEF Init, BudgetType
<1> QED
  BY <1>1, <1>2, <1>3, <1>4 DEF TypeInv

\* Every step of the system keeps the state well formed: the type invariant is inductive.
LEMMA TypeStep == TypeInv /\ [Next]_vars => TypeInv'
<1> SUFFICES ASSUME TypeInv, [Next]_vars PROVE TypeInv'
  OBVIOUS
<1>1. CASE Reconcile
  BY <1>1, StartType, CommittingType, PollAndRecordType, MarkersType, LaunchingType,
     JoiningType, CleanupType, BeginDeleteType, DeletingType
    DEF Reconcile, Provisioning, Joining, Releasing, Deleting
<1>2. CASE User \/ CacheDelivers \/ Crash \/ Cloud
  BY <1>2, UserType, CloudType
<1>3. CASE UNCHANGED vars
  BY <1>3, SameApiType, SameCtlType, SameWorldType
    DEF vars, ctlVars, TypeInv, CtlType, BudgetType
<1> QED
  BY <1>1, <1>2, <1>3 DEF Next

\* Every reachable state of the controller is well formed, whatever the cache shows
\* it and whichever calls fail.
THEOREM TypeCorrect == Spec => []TypeOK
<1>1. Spec => []TypeInv
  BY TypeInit, TypeStep, PTL DEF Spec
<1>2. TypeInv => TypeOK
  BY TypeParts
<1> QED
  BY <1>1, <1>2, PTL

-----------------------------------------------------------------------------
(* The recorded instance is terminated.  A step either ends the reconcile,  *)
(* goes on working on a managed resource, goes on deleting, or is the       *)
(* world's.                                                                 *)

\* An instance that was terminated stays so.
StaysTerminated ==
    \A i \in Instance : inst[i] = "terminated" => inst'[i] = "terminated"

\* The step writes no version, or one that has its finalizer.
HarmlessWrite ==
    \/ store'.exists /\ store'.finalizer
    \/ store' = store /\ Versions' \subseteq Versions \cup {store} /\ StaysTerminated

\* A harmless write shows no new managed version, uncovers no finalizer and leaves
\* what it terminated terminated.
LEMMA HarmlessWriteInv ==
    ASSUME TypeInv, Inv, HarmlessWrite
    PROVE  ManagedInv' /\ FinalizerInv' /\ RecordedInstanceTerminated'
<1>1. CASE store'.exists /\ store'.finalizer
  BY <1>1 DEF ManagedInv, FinalizerInv, RecordedInstanceTerminated
<1>2. CASE /\ store' = store /\ Versions' \subseteq Versions \cup {store}
           /\ StaysTerminated
  <2>1. ManagedInv'
    BY <1>2 DEF Inv, ManagedInv, Managed
  <2>2. RecordedInstanceTerminated'
    BY <1>2 DEF Inv, RecordedInstanceTerminated, StaysTerminated, TypeInv, ApiInv,
      ApiType, Object
  <2> QED
    BY <1>2, <2>1, <2>2 DEF Inv, FinalizerInv
<1> QED
  BY <1>1, <1>2 DEF HarmlessWrite

\* A reconcile that returns after a harmless write keeps the invariant: it holds no copy.
LEMMA ReturnInv ==
    ASSUME TypeInv, Inv, HarmlessWrite, Return
    PROVE  Inv'
<1>1. pc' = "idle" /\ locFresh' = FALSE
  BY DEF Return
<1>2. WorkInv'
  BY <1>1 DEF WorkInv, InWork, WorkPC, SharedPC
<1> QED
  BY <1>1, <1>2, HarmlessWriteInv DEF Inv, FreshInv, DeleteInv, TerminatedInv

\* Where a managed resource is worked on, a managed resource is there.
LEMMA WorkingInv ==
    ASSUME InWork', store'.exists, store'.finalizer, FreshInv'
    PROVE  Inv'
<1>1. ~InDelete' /\ pc' \notin {"clearIID", "unfinalize"}
  BY DEF InWork, InDelete, WorkPC, SharedPC, DeletePC, PC
<1>2. DeleteInv' /\ TerminatedInv'
  BY <1>1 DEF DeleteInv, TerminatedInv, InWork, WorkPC, PC, SharedPC, DeletePC
<1>3. ManagedInv' /\ WorkInv' /\ FinalizerInv' /\ RecordedInstanceTerminated'
  BY DEF ManagedInv, WorkInv, FinalizerInv, RecordedInstanceTerminated
<1> QED
  BY <1>2, <1>3 DEF Inv

\* A copy just read agrees with the server if the cache does.
LEMMA ReadFresh ==
    ASSUME ApiInv, Read, UNCHANGED store, pc' \notin {"deleteNode", "terminate"}
    PROVE  FreshInv'
  BY DEF Read, CacheCurrent, ApiInv, CacheCoherent, FreshInv

\* A write of a copy that kept its metadata, or that gained the finalizer.
LEMMA CommitHarmless ==
    ASSUME TypeInv, Inv, pc # "idle", NEW o \in Object, Commit(o) \/ Lost,
           o.exists = loc.exists, o.finalizer = loc.finalizer \/ o.finalizer,
           InWork \/ InDelete \/ pc = "addFinalizer",
           StaysTerminated, pc = "addFinalizer" => o.finalizer
    PROVE  HarmlessWrite
<1>1. CASE Commit(o)
  <2>1. store' = o
    BY <1>1, WriteFacts DEF Commit, TypeInv, ApiInv
  <2>2. o.exists
    BY DEF TypeInv, CtlType, LocalsInv
  <2>3. locFresh
    BY <1>1 DEF Commit
  <2>4. o.finalizer
    BY <2>3 DEF Inv, WorkInv, FreshInv, TypeInv, CtlType, LocalsInv
  <2> QED
    BY <2>1, <2>2, <2>4 DEF HarmlessWrite
<1>2. CASE Lost
  BY <1>2 DEF Lost, apiVars, HarmlessWrite, Versions
<1> QED
  BY <1>1, <1>2

\* A step that leaves the instances alone revives none.
LEMMA SameInst == UNCHANGED inst => StaysTerminated
  BY DEF StaysTerminated

\* Nor does one that leaves the world alone.
LEMMA SameWorldInst == UNCHANGED worldVars => StaysTerminated
  BY DEF StaysTerminated, worldVars, cloudVars

\* A step that writes nothing to the resource is a harmless one.
LEMMA SameApiHarmless == UNCHANGED apiVars /\ StaysTerminated => HarmlessWrite
  BY DEF HarmlessWrite, apiVars, Versions

\* Start takes what it does from the copy it reads.
LEMMA StartInv == TypeInv /\ Inv /\ Start => Inv'
<1> SUFFICES ASSUME TypeInv, Inv, Start PROVE Inv'
  OBVIOUS
<1>1. /\ HarmlessWrite /\ store' = store /\ Versions' = Versions
      /\ inst' = inst /\ pc = "idle"
  BY SameInst, SameApiHarmless DEF Start, apiVars, cloudVars, Versions
<1>2. CASE pc' = "idle"
  <2>1. loc' = loc /\ locFresh' = locFresh
    BY <1>2 DEF Start
  <2>2. FreshInv' /\ DeleteInv' /\ TerminatedInv' /\ WorkInv'
    BY <1>1, <1>2, <2>1 DEF Inv, FreshInv, DeleteInv, TerminatedInv, WorkInv, InWork,
      InDelete, WorkPC, SharedPC, DeletePC
  <2> QED
    BY <1>1, <2>2, HarmlessWriteInv DEF Inv
<1>3. CASE pc' # "idle"
  <2>1. Read /\ loc' = cached /\ cached.exists /\ cached \in Versions
    BY <1>3 DEF Start, Read, Versions
  <2>2. pc' = Dispatch(cached)
    BY DEF Start
  <2>3. /\ pc' \in {"delete", "addFinalizer", "advance", "resolve", "poll", "join",
                    "prepull", "cleanup"}
        /\ pc' = "delete" => cached.deleting
        /\ pc' \in {"advance", "resolve", "poll", "join", "prepull", "cleanup"}
              => Managed(cached)
    BY <1>3, <2>2 DEF Dispatch, Managed
  <2>4. locFresh' => cached = store /\ Versions = {store}
    <3> SUFFICES ASSUME locFresh' PROVE cached = store /\ Versions = {store}
      OBVIOUS
    <3>1. stream = <<>> /\ cached = store
      BY <2>1 DEF Read, CacheCurrent, TypeInv, ApiInv, CacheCoherent
    <3>2. 1..Len(stream) = {}
      BY <3>1
    <3> QED
      BY <3>1, <3>2 DEF Versions
  <2>5. FreshInv'
    BY <1>1, <2>1, <2>4 DEF FreshInv
  <2>6. CASE pc' = "delete"
    <3>1. InDelete' /\ ~InWork'
      BY <2>6 DEF InDelete, InWork, DeletePC, WorkPC, SharedPC
    <3>2. DeleteInv'
      BY <1>1, <2>1, <2>3, <2>4, <2>6 DEF DeleteInv, Managed
    <3>3. TerminatedInv' /\ WorkInv'
      BY <3>1, <2>6 DEF TerminatedInv, WorkInv, SharedPC
    <3> QED
      BY <1>1, <2>5, <3>2, <3>3, HarmlessWriteInv DEF Inv
  <2>7. CASE pc' = "addFinalizer"
    <3>1. ~InDelete' /\ ~InWork'
      BY <2>7 DEF InDelete, InWork, DeletePC, WorkPC, SharedPC
    <3>2. DeleteInv' /\ TerminatedInv' /\ WorkInv'
      BY <3>1, <2>7 DEF DeleteInv, TerminatedInv, WorkInv, SharedPC
    <3> QED
      BY <1>1, <2>5, <3>2, HarmlessWriteInv DEF Inv
  <2>8. CASE pc' \in {"advance", "resolve", "poll", "join", "prepull", "cleanup"}
    <3>1. store.exists /\ store.finalizer
      BY <2>1, <2>3, <2>8 DEF Inv, ManagedInv
    <3>2. InWork'
      BY <2>1, <2>3, <2>8 DEF InWork, WorkPC, PC, SharedPC, DeletePC, Managed
    <3> QED
      BY <1>1, <2>5, <3>1, <3>2, WorkingInv
  <2> QED
    BY <2>3, <2>6, <2>7, <2>8
<1> QED
  BY <1>2, <1>3

\* The steps that end in a write and a return.
LEMMA CommittingInv ==
    TypeInv /\ Inv /\ (\/ AddFinalizer \/ AdvanceToWaiting \/ PersistInstanceID \/ Fail
                       \/ AwaitNode \/ MarkReady \/ ResetAfterFailure) => Inv'
<1> SUFFICES ASSUME TypeInv, Inv,
                    \/ AddFinalizer \/ AdvanceToWaiting \/ PersistInstanceID \/ Fail
                    \/ AwaitNode \/ MarkReady \/ ResetAfterFailure
             PROVE  Inv'
  OBVIOUS
<1>1. /\ Return /\ StaysTerminated
      /\ pc \in {"addFinalizer", "advance", "persist", "fail", "join", "markReady", "retry"}
  BY SameWorldInst DEF AddFinalizer, AdvanceToWaiting, PersistInstanceID, Fail, AwaitNode,
    MarkReady, ResetAfterFailure
<1>2. PICK o \in Object :
        /\ Commit(o) \/ Lost
        /\ o.exists = loc.exists
        /\ o.finalizer = loc.finalizer \/ o.finalizer
        /\ pc = "addFinalizer" => o.finalizer
  <2>1. ASSUME NEW phase \in Phase
        PROVE  /\ [loc EXCEPT !.phase = phase] \in Object
               /\ [loc EXCEPT !.phase = phase].exists = loc.exists
               /\ [loc EXCEPT !.phase = phase].finalizer = loc.finalizer
    BY DEF TypeInv, CtlType, Object
  <2>2. CASE AddFinalizer
    <3>1. /\ [loc EXCEPT !.finalizer = TRUE] \in Object
          /\ [loc EXCEPT !.finalizer = TRUE].exists = loc.exists
          /\ [loc EXCEPT !.finalizer = TRUE].finalizer
      BY DEF TypeInv, CtlType, Object
    <3> QED
      BY <2>2, <3>1 DEF AddFinalizer
  <2>3. CASE AdvanceToWaiting
    BY <2>1, <2>3 DEF AdvanceToWaiting, Phase
  <2>4. CASE PersistInstanceID
    <3> DEFINE o == [loc EXCEPT !.phase = "WaitingForInstance", !.iid = launched,
                                !.vpnIP = alloc]
    <3>1. o \in Object /\ o.exists = loc.exists /\ o.finalizer = loc.finalizer
      BY DEF TypeInv, CtlType, Object, Phase
    <3> QED
      BY <2>4, <3>1 DEF PersistInstanceID
  <2>5. CASE Fail
    BY <2>1, <2>5 DEF Fail, Phase
  <2>6. CASE AwaitNode
    BY <2>1, <2>6 DEF AwaitNode, Phase
  <2>7. CASE MarkReady
    BY <2>1, <2>7 DEF MarkReady, Phase
  <2>8. CASE ResetAfterFailure
    <3> DEFINE o == [loc EXCEPT !.phase = "Empty", !.vpnIP = None]
    <3>1. o \in Object /\ o.exists = loc.exists /\ o.finalizer = loc.finalizer
      BY DEF TypeInv, CtlType, Object, Phase
    <3> QED
      BY <2>8, <3>1 DEF ResetAfterFailure
  <2> QED
    BY <2>2, <2>3, <2>4, <2>5, <2>6, <2>7, <2>8
<1>3. InWork \/ pc = "addFinalizer"
  BY <1>1 DEF InWork, WorkPC, PC, SharedPC, DeletePC
<1>4. HarmlessWrite
  BY <1>1, <1>2, <1>3, CommitHarmless
<1> QED
  BY <1>1, <1>4, ReturnInv

\* The poll of the instance and the record of the Node keep the invariant.
LEMMA PollAndRecordInv ==
    TypeInv /\ Inv /\ (PollInstance \/ RecordJoin) => Inv'
<1> SUFFICES ASSUME TypeInv, Inv, PollInstance \/ RecordJoin PROVE Inv'
  OBVIOUS
<1>1. Return /\ StaysTerminated /\ InWork /\ pc # "idle"
  BY SameWorldInst DEF PollInstance, RecordJoin, InWork, WorkPC, PC, SharedPC, DeletePC
<1>2. HarmlessWrite
  <2>1. ASSUME NEW phase \in Phase
        PROVE  /\ [loc EXCEPT !.phase = phase] \in Object
               /\ [loc EXCEPT !.phase = phase].exists = loc.exists
               /\ [loc EXCEPT !.phase = phase].finalizer = loc.finalizer
    BY DEF TypeInv, CtlType, Object
  <2>2. ASSUME NEW phase \in Phase, Commit([loc EXCEPT !.phase = phase]) \/ Lost
        PROVE  HarmlessWrite
    BY <1>1, <2>1, <2>2, CommitHarmless DEF InWork, WorkPC, SharedPC, DeletePC
  <2>3. CASE PollInstance
    BY <1>1, <2>2, <2>3, SameApiHarmless DEF PollInstance, Phase
  <2>4. CASE RecordJoin
    <3>1. CASE Commit([loc EXCEPT !.phase = PhaseAfterJoin]) \/ Lost
      BY <2>2, <3>1 DEF Phase, PhaseAfterJoin
    <3>2. CASE locFresh /\ Write([loc EXCEPT !.phase = "Ready"])
      <4>1. store' = [loc EXCEPT !.phase = "Ready"]
        BY <2>1, <3>2, WriteFacts DEF TypeInv, ApiInv, Phase
      <4>2. loc.exists /\ loc.finalizer
        BY <1>1, <3>2 DEF Inv, FreshInv, WorkInv
      <4> QED
        BY <2>1, <4>1, <4>2 DEF HarmlessWrite, Phase
    <3> QED
      BY <2>4, <3>1, <3>2 DEF RecordJoin
  <2> QED
    BY <2>3, <2>4
<1> QED
  BY <1>1, <1>2, ReturnInv

\* So do the progress markers, which may go on with another copy after a lost write:
\* the copy they read may be stale, but the resource it is of is still managed.
LEMMA MarkersInv ==
    TypeInv /\ Inv /\ (MarkValidating \/ MarkConfiguringVPN \/ ConnectVPN) => Inv'
<1>1. ASSUME TypeInv, Inv, NEW phase \in Phase,
             NEW next \in {"configureVPN", "connectVPN", "register"},
             ProgressMarker(phase, next), InWork, pc # "idle",
             UNCHANGED worldVars
      PROVE  Inv'
  <2> DEFINE o == [loc EXCEPT !.phase = phase]
  <2>1. /\ o \in Object /\ o.exists = loc.exists /\ o.finalizer = loc.finalizer
        /\ o.deleting = loc.deleting /\ loc.exists
    BY <1>1 DEF TypeInv, CtlType, LocalsInv, Object
  <2>2. store.exists /\ store.finalizer
    BY <1>1 DEF Inv, WorkInv
  <2>3. CASE Commit(o) /\ loc' = o /\ Goto(next)
    <3>1. store' = o /\ locFresh
      BY <1>1, <2>1, <2>3, WriteFacts DEF Commit, TypeInv, ApiInv
    <3>2. store'.exists /\ store'.finalizer
      BY <1>1, <2>1, <2>2, <3>1 DEF Inv, FreshInv
    <3>3. InWork' /\ FreshInv'
      BY <2>3, <3>1 DEF Goto, InWork, WorkPC, PC, SharedPC, DeletePC, FreshInv
    <3> QED
      BY <3>2, <3>3, WorkingInv
  <2>4. CASE Lost /\ Read /\ Goto(next)
    <3>1. store' = store
      BY <2>4 DEF Lost, apiVars
    <3>2. InWork' /\ FreshInv'
      BY <1>1, <2>4, <3>1, ReadFresh
        DEF Goto, InWork, WorkPC, PC, SharedPC, DeletePC, TypeInv
    <3> QED
      BY <2>2, <3>1, <3>2, WorkingInv
  <2>5. CASE Lost /\ Return
    <3>1. HarmlessWrite
      BY <1>1, <2>5, SameWorldInst, SameApiHarmless DEF Lost
    <3> QED
      BY <1>1, <2>5, <3>1, ReturnInv
  <2> QED
    BY <1>1, <2>3, <2>4, <2>5 DEF ProgressMarker
<1>2. ASSUME TypeInv, Inv, Return, UNCHANGED <<apiVars, worldVars>> PROVE Inv'
  BY <1>2, SameWorldInst, SameApiHarmless, ReturnInv
<1>3. ASSUME TypeInv, Inv, MarkValidating PROVE Inv'
  BY <1>1, <1>3 DEF MarkValidating, Phase, InWork, WorkPC, PC, SharedPC, DeletePC
<1>4. ASSUME TypeInv, Inv, MarkConfiguringVPN PROVE Inv'
  BY <1>1, <1>2, <1>4 DEF MarkConfiguringVPN, Phase, InWork, WorkPC, PC, SharedPC, DeletePC
<1>5. ASSUME TypeInv, Inv, ConnectVPN PROVE Inv'
  BY <1>1, <1>2, <1>5 DEF ConnectVPN, Phase, InWork, WorkPC, PC, SharedPC, DeletePC
<1> QED
  BY <1>3, <1>4, <1>5

\* A step of a working reconcile that writes no version: it keeps its copy but for
\* fields of its own, or reads a new one.
LEMMA KeepWorkingInv ==
    ASSUME TypeInv, Inv, InWork, UNCHANGED store, pc' \in WorkPC \/ (pc' = pc /\ InWork'),
           \/ /\ UNCHANGED locFresh
              /\ loc'.exists = loc.exists /\ loc'.finalizer = loc.finalizer
              /\ loc'.deleting = loc.deleting
           \/ Read
    PROVE  Inv'
<1>1. pc' \notin {"delete", "deleteNode", "terminate"}
  BY DEF InWork, WorkPC, PC, SharedPC, DeletePC
<1>2. FreshInv'
  BY <1>1, ReadFresh DEF TypeInv, Inv, FreshInv
<1> QED
  BY <1>2, WorkingInv DEF Inv, WorkInv, InWork

\* From the defaults to the NetConfig record nothing is terminated and no metadata written.
LEMMA LaunchingInv ==
    TypeInv /\ Inv /\ (\/ ResolveDefaults \/ RegisterPeer \/ LaunchInstance
                       \/ RecordAllocation) => Inv'
<1> SUFFICES ASSUME TypeInv, Inv,
                    \/ ResolveDefaults \/ RegisterPeer \/ LaunchInstance
                    \/ RecordAllocation
             PROVE  Inv'
  OBVIOUS
<1>1. InWork /\ pc \in WorkPC
  BY DEF ResolveDefaults, RegisterPeer, LaunchInstance, RecordAllocation,
    InWork, WorkPC, PC, SharedPC, DeletePC
<1>2. store.exists /\ store.finalizer
  BY <1>1 DEF Inv, WorkInv
<1>3. CASE ResolveDefaults
  <2>1. CASE Write([store EXCEPT !.resolved = TRUE]) /\ Return
    <3>1. /\ [store EXCEPT !.resolved = TRUE] \in Object
          /\ [store EXCEPT !.resolved = TRUE].exists
          /\ [store EXCEPT !.resolved = TRUE].finalizer
      BY <1>2 DEF TypeInv, ApiInv, ApiType, Object
    <3>2. HarmlessWrite
      BY <2>1, <3>1, WriteFacts DEF HarmlessWrite, TypeInv, ApiInv
    <3> QED
      BY <2>1, <3>2, ReturnInv
  <2>2. CASE (Goto("validating") \/ Goto("fail")) /\ Keep /\ UNCHANGED apiVars
    BY <1>1, <2>2, KeepWorkingInv
      DEF Goto, Keep, apiVars, WorkPC, PC, SharedPC, DeletePC
  <2> QED
    BY <1>3, <2>1, <2>2 DEF ResolveDefaults
<1>4. CASE RegisterPeer
  <2>1. pc' \in {"launch", "fail"} /\ Keep /\ UNCHANGED apiVars
    BY <1>4 DEF RegisterPeer
  <2> QED
    BY <1>1, <2>1, KeepWorkingInv DEF Keep, apiVars, WorkPC, PC, SharedPC, DeletePC
<1>5. CASE LaunchInstance
  \* A terminated VM may start again: the resource that names it exists.
  <2>1. pc' = "record" /\ Keep /\ UNCHANGED apiVars
    BY <1>5 DEF LaunchInstance
  <2> QED
    BY <1>1, <2>1, KeepWorkingInv DEF Keep, apiVars, WorkPC, PC, SharedPC, DeletePC
<1>6. CASE RecordAllocation
  <2>1. UNCHANGED apiVars
    BY <1>6 DEF RecordAllocation
  <2>2. CASE /\ loc' = [loc EXCEPT !.vpnIP = alloc]
             /\ UNCHANGED locFresh /\ Goto("fail")
    <3>1. /\ loc'.exists = loc.exists /\ loc'.finalizer = loc.finalizer
          /\ loc'.deleting = loc.deleting
      BY <2>2 DEF TypeInv, CtlType, Object
    <3> QED
      BY <1>1, <2>1, <2>2, <3>1, KeepWorkingInv
        DEF Goto, apiVars, WorkPC, PC, SharedPC, DeletePC
  <2>3. CASE Read /\ Goto("persist")
    BY <1>1, <2>1, <2>3, KeepWorkingInv
      DEF Goto, apiVars, WorkPC, PC, SharedPC, DeletePC
  <2>4. CASE Return
    <3>1. HarmlessWrite
      BY <1>6, <2>1, SameInst, SameApiHarmless DEF RecordAllocation, cloudVars
    <3> QED
      BY <2>4, <3>1, ReturnInv
  <2> QED
    BY <1>6, <2>2, <2>3, <2>4 DEF RecordAllocation
<1> QED
  BY <1>3, <1>4, <1>5, <1>6

\* Stamping the Node and pulling images ahead touch neither resource nor instance.
LEMMA JoiningInv == TypeInv /\ Inv /\ (StampNode \/ PrepullImages) => Inv'
<1> SUFFICES ASSUME TypeInv, Inv, StampNode \/ PrepullImages PROVE Inv'
  OBVIOUS
<1>1. /\ InWork /\ UNCHANGED apiVars
      /\ HarmlessWrite
  BY SameInst, SameApiHarmless DEF StampNode, PrepullImages, cloudVars,
    InWork, WorkPC, PC, SharedPC, DeletePC
<1>2. CASE Return
  BY <1>1, <1>2, ReturnInv
<1>3. CASE /\ loc' = [loc EXCEPT !.named = TRUE] /\ UNCHANGED locFresh
           /\ Goto("joined")
  <2>1. /\ loc'.exists = loc.exists /\ loc'.finalizer = loc.finalizer
        /\ loc'.deleting = loc.deleting
    BY <1>3 DEF TypeInv, CtlType, Object
  <2> QED
    BY <1>1, <1>3, <2>1, KeepWorkingInv
      DEF Goto, apiVars, WorkPC, PC, SharedPC, DeletePC
<1>4. CASE Read /\ Goto("markReady")
  BY <1>1, <1>4, KeepWorkingInv DEF Goto, apiVars, WorkPC, PC, SharedPC, DeletePC
<1> QED
  BY <1>2, <1>3, <1>4 DEF StampNode, PrepullImages, BeginMarkReady

\* A deletion that goes on with its copy and writes nothing.
LEMMA KeepDeletingInv ==
    ASSUME TypeInv, Inv, HarmlessWrite, UNCHANGED <<apiVars, loc, locFresh>>,
           StaysTerminated, InDelete, InDelete', ~InWork',
           \/ pc' \in {"deleteNode", "terminate"}
              /\ pc \in {"delete", "deleteNode", "terminate"}
           \/ pc' \in SharedPC \cup {"clearIID", "unfinalize"}
              /\ (locFresh => store.iid = None \/ inst[store.iid] = "terminated")
    PROVE  Inv'
<1>1. Versions' = Versions /\ store' = store
  BY DEF apiVars, Versions
<1>2. FreshInv' /\ DeleteInv' /\ WorkInv'
  BY <1>1 DEF Inv, FreshInv, DeleteInv, WorkInv, SharedPC
<1>3. TerminatedInv'
  <2> SUFFICES ASSUME locFresh, store.iid # None,
                      pc' \in SharedPC \cup {"clearIID", "unfinalize"}
               PROVE  inst'[store.iid] = "terminated"
    BY <1>1 DEF TerminatedInv
  <2>1. inst[store.iid] = "terminated"
    BY DEF SharedPC
  <2>2. store.iid \in Instance
    BY DEF TypeInv, ApiInv, ApiType, Object
  <2> QED
    BY <2>1, <2>2 DEF StaysTerminated
<1> QED
  BY <1>2, <1>3, HarmlessWriteInv DEF Inv

\* cleanupVPNPeer on behalf of the Failed branch, and of handleDelete.
LEMMA CleanupInv == TypeInv /\ Inv /\ (CleanupServer \/ CleanupNetConfig) => Inv'
<1> SUFFICES ASSUME TypeInv, Inv, CleanupServer \/ CleanupNetConfig PROVE Inv'
  OBVIOUS
<1>1. /\ pc \in SharedPC /\ UNCHANGED apiVars
      /\ HarmlessWrite /\ StaysTerminated
  BY SameInst, SameApiHarmless DEF CleanupServer, CleanupNetConfig, cloudVars, SharedPC
<1>2. CASE Return
  BY <1>1, <1>2, ReturnInv
<1>3. CASE ~loc.deleting
  <2>1. InWork
    BY <1>1, <1>3 DEF InWork
  <2>2. CASE Read /\ Goto("retry")
    BY <1>1, <2>1, <2>2, KeepWorkingInv DEF Goto, apiVars, WorkPC, PC, SharedPC, DeletePC
  <2>3. CASE pc' = "release" /\ Keep
    <3>1. InWork' /\ FreshInv'
      BY <1>1, <1>3, <2>3 DEF Keep, InWork, SharedPC, Inv, FreshInv, apiVars
    <3> QED
      BY <1>1, <2>1, <3>1, WorkingInv DEF Inv, WorkInv, apiVars
  <2> QED
    BY <1>2, <1>3, <2>2, <2>3 DEF CleanupServer, CleanupNetConfig, AfterCleanup
<1>4. CASE loc.deleting
  <2>1. pc' \in {"release", "unfinalize"} /\ Keep
    BY <1>4 DEF CleanupServer, CleanupNetConfig, AfterCleanup, Goto
  <2>2. InDelete /\ InDelete' /\ ~InWork'
    BY <1>1, <1>4, <2>1 DEF Keep, InDelete, InWork, DeletePC, SharedPC, WorkPC
  <2>3. locFresh => store.iid = None \/ inst[store.iid] = "terminated"
    BY <1>1, <1>4 DEF Inv, TerminatedInv
  <2> QED
    BY <1>1, <2>1, <2>2, <2>3, KeepDeletingInv DEF Keep, SharedPC
<1> QED
  BY <1>3, <1>4

\* The deletion commits its own copy, or goes on with it after a lost write.
LEMMA DeleteCommitInv ==
    ASSUME TypeInv, Inv, InDelete, InDelete', ~InWork', NEW o \in Object,
           o.exists, o.finalizer, o.deleting,
           loc' = o, UNCHANGED worldVars,
           \/ Commit(o) /\ locFresh' = TRUE
           \/ Lost /\ UNCHANGED locFresh,
           \/ /\ pc \in {"delete", "deleteNode", "terminate"} /\ pc' = "deleteNode"
              /\ o.iid = loc.iid
           \/ /\ pc = "clearIID" /\ pc' \in SharedPC /\ o.iid = None /\ o = loc
    PROVE  Inv'
<1>1. HarmlessWrite
  <2>1. StaysTerminated
    BY SameWorldInst
  <2>2. CASE Commit(o)
    <3>1. store' = o
      BY <2>2, WriteFacts DEF Commit, TypeInv, ApiInv
    <3> QED
      BY <3>1 DEF HarmlessWrite
  <2>3. CASE Lost
    BY <2>1, <2>3, SameApiHarmless DEF Lost
  <2> QED
    BY <2>2, <2>3
<1>2. CASE Commit(o) /\ locFresh' = TRUE
  <2>1. store' = o /\ Versions' \subseteq Versions \cup {o} /\ locFresh
    BY <1>2, WriteFacts DEF Commit, TypeInv, ApiInv
  <2>2. FreshInv' /\ WorkInv'
    BY <2>1 DEF FreshInv, WorkInv
  <2>3. DeleteInv'
    BY <2>1 DEF Inv, DeleteInv, Managed
  <2>4. TerminatedInv'
    BY <2>1 DEF TerminatedInv, SharedPC
  <2> QED
    BY <1>1, <2>2, <2>3, <2>4, HarmlessWriteInv DEF Inv
<1>3. CASE Lost /\ UNCHANGED locFresh
  <2>1. store' = store /\ Versions' = Versions /\ inst' = inst
    BY <1>3 DEF Lost, apiVars, Versions, worldVars, cloudVars
  <2>2. FreshInv'
    <3>1. /\ locFresh => loc.exists = store.exists /\ loc.finalizer = store.finalizer
                         /\ loc.deleting = store.deleting
          /\ loc.exists /\ loc.finalizer /\ loc.deleting
      BY DEF Inv, FreshInv, TypeInv, CtlType, LocalsInv, InDelete, DeletePC, SharedPC
    <3>2. pc' = "deleteNode" => (locFresh => loc.iid = store.iid) /\ o.iid = loc.iid
      BY DEF Inv, FreshInv, SharedPC
    <3>3. loc.exists \in BOOLEAN /\ loc.finalizer \in BOOLEAN /\ loc.deleting \in BOOLEAN
          /\ o.exists \in BOOLEAN /\ o.finalizer \in BOOLEAN /\ o.deleting \in BOOLEAN
      BY DEF TypeInv, CtlType, Object
    <3>4. pc' \notin {"delete", "terminate"}
      BY DEF SharedPC
    <3> QED
      BY <1>3, <2>1, <3>1, <3>2, <3>3, <3>4 DEF FreshInv
  <2>3. DeleteInv' /\ WorkInv'
    BY <1>3, <2>1 DEF Inv, DeleteInv, WorkInv
  <2>4. TerminatedInv'
    <3> SUFFICES ASSUME locFresh, store.iid # None, pc' # "deleteNode"
                 PROVE  inst[store.iid] = "terminated"
      BY <1>3, <2>1 DEF TerminatedInv, SharedPC
    <3>1. pc = "clearIID"
      OBVIOUS
    <3> QED
      BY <3>1 DEF Inv, TerminatedInv
  <2> QED
    BY <1>1, <2>2, <2>3, <2>4, HarmlessWriteInv DEF Inv
<1> QED
  BY <1>2, <1>3

\* handleDelete's own writes: an accepted one proves its copy the newest.
LEMMA BeginDeleteInv == TypeInv /\ Inv /\ (BeginDelete \/ ClearInstanceID) => Inv'
<1>1. ASSUME TypeInv, Inv, BeginDelete PROVE Inv'
  <2> DEFINE o == [loc EXCEPT !.phase = "Deleting"]
  <2>1. /\ o \in Object /\ o.exists /\ o.finalizer /\ o.deleting /\ o.iid = loc.iid
        /\ InDelete /\ InDelete' /\ ~InWork'
    BY <1>1 DEF BeginDelete, Goto, TypeInv, CtlType, LocalsInv, InDelete, InWork,
      DeletePC, SharedPC, WorkPC, Object, Phase
  <2>2. /\ \/ Commit(o) /\ locFresh' = TRUE
           \/ Lost /\ UNCHANGED locFresh
        /\ loc' = o /\ UNCHANGED worldVars
        /\ pc = "delete" /\ pc' = "deleteNode"
    BY <1>1 DEF BeginDelete, Goto
  <2> QED
    BY <1>1, <2>1, <2>2, DeleteCommitInv
<1>2. ASSUME TypeInv, Inv, ClearInstanceID PROVE Inv'
  <2>1. /\ loc \in Object /\ loc.exists /\ loc.finalizer /\ loc.deleting
        /\ loc.iid = None
        /\ InDelete /\ InDelete' /\ ~InWork'
    BY <1>2 DEF ClearInstanceID, Goto, TypeInv, CtlType, LocalsInv, InDelete, InWork,
      DeletePC, SharedPC, WorkPC
  <2>2. /\ \/ Commit(loc) /\ locFresh' = TRUE
           \/ Lost /\ UNCHANGED locFresh
        /\ loc' = loc /\ UNCHANGED worldVars
        /\ pc = "clearIID" /\ pc' \in SharedPC
    BY <1>2 DEF ClearInstanceID, Goto, SharedPC
  <2> QED
    BY <1>2, <2>1, <2>2, DeleteCommitInv
<1> QED
  BY <1>1, <1>2

\* The other steps of handleDelete: termination comes before the finalizer goes.
LEMMA DeletingInv ==
    TypeInv /\ Inv /\ (\/ DeleteNode \/ ConfirmNodeGone \/ TerminateInstance
                       \/ RemoveFinalizer) => Inv'
<1>1. ASSUME TypeInv, Inv, DeleteNode PROVE Inv'
  <2>1. HarmlessWrite
    BY <1>1, SameInst, SameApiHarmless DEF DeleteNode, cloudVars
  <2> QED
    BY <1>1, <2>1, ReturnInv DEF DeleteNode
<1>2. ASSUME TypeInv, Inv, ConfirmNodeGone PROVE Inv'
  <2>1. HarmlessWrite /\ StaysTerminated
    BY <1>2, SameWorldInst, SameApiHarmless DEF ConfirmNodeGone
  <2>2. /\ pc = "deleteNode" /\ loc.deleting
        /\ locFresh => loc.iid = store.iid
    BY <1>2 DEF ConfirmNodeGone, TypeInv, CtlType, LocalsInv, DeletePC, Inv, FreshInv
  <2>3. pc' = "terminate" \/ (pc' = "cleanup" /\ loc.iid = None)
    BY <1>2 DEF ConfirmNodeGone, Goto
  <2>4. InDelete /\ InDelete' /\ ~InWork'
    BY <1>2, <2>2, <2>3 DEF ConfirmNodeGone, Keep, InDelete, InWork, DeletePC, SharedPC,
      WorkPC
  <2> QED
    BY <1>2, <2>1, <2>2, <2>3, <2>4, KeepDeletingInv DEF ConfirmNodeGone, Keep, SharedPC
<1>3. ASSUME TypeInv, Inv, TerminateInstance PROVE Inv'
  <2>1. HarmlessWrite /\ StaysTerminated
    <3>1. StaysTerminated
      BY <1>3 DEF TerminateInstance, StaysTerminated, TypeInv, WorldType
    <3> QED
      BY <1>3, <3>1, SameApiHarmless DEF TerminateInstance
  <2>2. CASE Return
    BY <1>3, <2>1, <2>2, ReturnInv
  <2>3. CASE /\ inst' = [inst EXCEPT ![loc.iid] = "terminated"]
             /\ loc' = [loc EXCEPT !.iid = None] /\ UNCHANGED locFresh
             /\ Goto("clearIID")
    <3>1. /\ loc.iid \in Instance /\ loc.deleting
          /\ locFresh => loc.iid = store.iid
          /\ store' = store /\ Versions' = Versions
      BY <1>3 DEF TerminateInstance, TypeInv, CtlType, LocalsInv, DeletePC, Object, Inv,
        FreshInv, apiVars, Versions
    <3>2. inst'[loc.iid] = "terminated"
      BY <1>3, <2>3, <3>1 DEF TypeInv, WorldType
    <3>3. /\ loc'.exists = loc.exists /\ loc'.finalizer = loc.finalizer
          /\ loc'.deleting = loc.deleting
      BY <1>3, <2>3 DEF TypeInv, CtlType, Object
    <3>4. pc = "terminate" /\ pc' = "clearIID"
      BY <1>3, <2>3 DEF TerminateInstance, Goto
    <3>5. InDelete /\ ~InWork'
      BY <3>4 DEF InDelete, InWork, DeletePC, SharedPC, WorkPC
    <3>6. FreshInv' /\ DeleteInv' /\ WorkInv'
      BY <1>3, <2>3, <3>1, <3>3, <3>4, <3>5 DEF Inv, FreshInv, DeleteInv, WorkInv
    <3>7. TerminatedInv'
      BY <2>3, <3>1, <3>2, <3>4 DEF TerminatedInv
    <3> QED
      BY <1>3, <2>1, <3>6, <3>7, HarmlessWriteInv DEF Inv
  <2> QED
    BY <1>3, <2>2, <2>3 DEF TerminateInstance, TerminateError
<1>4. ASSUME TypeInv, Inv, RemoveFinalizer PROVE Inv'
  <2> DEFINE o == [store EXCEPT !.finalizer = FALSE, !.exists = FALSE]
  <2>1. CASE Commit(o)
    <3>1. o \in Object /\ ~o.exists /\ o.iid = store.iid
      BY <1>4 DEF TypeInv, ApiInv, ApiType, Object
    <3>2. store' = o /\ Versions' \subseteq Versions \cup {o} /\ locFresh
      BY <1>4, <2>1, <3>1, WriteFacts DEF Commit, TypeInv, ApiInv
    \* Nothing the cache may still show is a managed resource.
    <3>3. ManagedInv'
      BY <1>4, <3>1, <3>2 DEF RemoveFinalizer, Inv, DeleteInv, InDelete, DeletePC,
        ManagedInv, Managed
    <3>4. RecordedInstanceTerminated'
      BY <1>4, <3>1, <3>2 DEF RemoveFinalizer, cloudVars, Inv, TerminatedInv,
        RecordedInstanceTerminated
    <3>5. pc' = "idle" /\ locFresh' = FALSE
      BY <1>4 DEF RemoveFinalizer, Return
    <3>6. WorkInv'
      BY <3>5 DEF WorkInv, InWork, WorkPC, SharedPC
    <3>7. FinalizerInv'
      BY <3>1, <3>2 DEF FinalizerInv
    <3> QED
      BY <3>3, <3>4, <3>5, <3>6, <3>7 DEF Inv, FreshInv, DeleteInv, TerminatedInv
  <2>2. CASE Lost
    <3>1. HarmlessWrite
      BY <1>4, <2>2, SameInst, SameApiHarmless DEF Lost, RemoveFinalizer, cloudVars
    <3> QED
      BY <1>4, <3>1, ReturnInv DEF RemoveFinalizer
  <2> QED
    BY <1>4, <2>1, <2>2 DEF RemoveFinalizer
<1> QED
  BY <1>1, <1>2, <1>3, <1>4

\* The steps of users, cache, crash and cloud.
LEMMA OthersInv ==
    ASSUME TypeInv, Inv, HarmlessWrite, StaysTerminated, UNCHANGED <<store, pc, loc>>,
           Versions' \subseteq Versions, locFresh' = locFresh
    PROVE  Inv'
<1>1. FreshInv' /\ DeleteInv' /\ WorkInv'
  BY DEF Inv, FreshInv, DeleteInv, WorkInv, InDelete, InWork
<1>2. TerminatedInv'
  BY DEF Inv, TerminatedInv, StaysTerminated, TypeInv, ApiInv, ApiType, Object
<1> QED
  BY <1>1, <1>2, HarmlessWriteInv DEF Inv

\* A write by somebody else leaves no copy fresh, so that no reconcile can commit.
LEMMA WriteByOtherInv ==
    ASSUME TypeInv, Inv, NEW o \in Object, WriteByOther(o),
           o.exists /\ ~o.finalizer => o.iid = None,
           o.exists /\ Managed(o) => store.exists /\ store.finalizer,
           store.exists /\ store.finalizer => o.exists /\ o.finalizer,
           ~o.exists => o.iid = None
    PROVE  Inv'
<1>1. /\ store' = o /\ Versions' \subseteq Versions \cup {o}
      /\ locFresh' = FALSE /\ pc' = pc /\ loc' = loc
  BY WriteFacts DEF WriteByOther, TypeInv, ApiInv
<1>2. ManagedInv'
  BY <1>1 DEF Inv, ManagedInv, Managed
<1>3. WorkInv'
  BY <1>1 DEF Inv, WorkInv, InWork
<1> QED
  BY <1>1, <1>2, <1>3 DEF Inv, FreshInv, DeleteInv, FinalizerInv, TerminatedInv,
    RecordedInstanceTerminated

\* Users keep the invariant: a deletion under a finalizer only asks for one.
LEMMA UserInv == TypeInv /\ Inv /\ User => Inv'
<1>1. ASSUME TypeInv, Inv, UserCreates PROVE Inv'
  <2>1. PICK full \in BOOLEAN :
          WriteByOther([NoObject EXCEPT !.exists = TRUE, !.resolved = full])
    BY <1>1 DEF UserCreates
  <2> DEFINE o == [NoObject EXCEPT !.exists = TRUE, !.resolved = full]
  <2>2. o \in Object /\ o.exists /\ ~o.finalizer /\ o.iid = None
    BY NoObjectType DEF Object, NoObject
  <2>3. ~store.exists
    BY <1>1 DEF UserCreates
  <2> HIDE DEF o
  <2>4. WriteByOther(o)
    BY <2>1 DEF o
  <2> QED
    BY <1>1, <2>2, <2>3, <2>4, WriteByOtherInv DEF Managed
<1>2. ASSUME TypeInv, Inv, UserEdits PROVE Inv'
  <2>1. WriteByOther(store) /\ store \in Object /\ store.exists
    BY <1>2 DEF UserEdits, TypeInv, ApiInv, ApiType
  <2> QED
    BY <1>2, <2>1, WriteByOtherInv DEF Inv, FinalizerInv, Managed
<1>3. ASSUME TypeInv, Inv, UserDeletes PROVE Inv'
  <2>1. CASE store.finalizer
    <3> DEFINE o == [store EXCEPT !.deleting = TRUE]
    <3>1. o \in Object /\ o.exists /\ o.finalizer /\ o.deleting /\ WriteByOther(o)
      BY <1>3, <2>1 DEF UserDeletes, TypeInv, ApiInv, ApiType, Object
    <3> HIDE DEF o
    <3> QED
      BY <1>3, <3>1, WriteByOtherInv DEF Managed
  \* Before the finalizer no instance is recorded, and nobody works on the resource.
  <2>2. CASE ~store.finalizer
    <3> DEFINE o == [store EXCEPT !.deleting = TRUE, !.exists = FALSE]
    <3>1. o \in Object /\ ~o.exists /\ o.iid = None /\ WriteByOther(o)
      BY <1>3, <2>2 DEF UserDeletes, TypeInv, ApiInv, ApiType, Object, Inv, FinalizerInv
    <3> HIDE DEF o
    <3> QED
      BY <1>3, <2>2, <3>1, WriteByOtherInv DEF Managed
  <2> QED
    BY <2>1, <2>2
<1>4. ASSUME TypeInv, Inv, UserDeletesSecret \/ UserDeletesNode PROVE Inv'
  <2>1. /\ UNCHANGED <<apiVars, pc, loc, locFresh>> /\ inst' = inst
        /\ StaysTerminated /\ HarmlessWrite
    BY <1>4, SameInst, SameApiHarmless
      DEF UserDeletesSecret, UserDeletesNode, ctlVars, cloudVars
  <2> QED
    BY <1>4, <2>1, OthersInv DEF apiVars, Versions
<1> QED
  BY <1>1, <1>2, <1>3, <1>4 DEF User

\* The cache, a crash and the cloud keep the invariant.
LEMMA CloudInv == TypeInv /\ Inv /\ (CacheDelivers \/ Crash \/ Cloud) => Inv'
<1>1. ASSUME TypeInv, Inv, CacheDelivers PROVE Inv'
  <2>1. store' = store /\ Versions' \subseteq Versions
    BY <1>1, DeliverFacts DEF CacheDelivers, TypeInv, ApiInv
  <2>2. StaysTerminated
    BY <1>1, SameWorldInst DEF CacheDelivers
  <2>3. HarmlessWrite
    BY <2>1, <2>2 DEF HarmlessWrite
  <2> QED
    BY <1>1, <2>1, <2>2, <2>3, OthersInv DEF CacheDelivers, ctlVars
<1>2. ASSUME TypeInv, Inv, Crash PROVE Inv'
  <2>1. store' = store /\ Versions' = {store}
    BY <1>2, RelistFacts DEF Crash, TypeInv, ApiInv
  <2>2. HarmlessWrite
    BY <1>2, <2>1, SameWorldInst DEF Crash, HarmlessWrite
  <2> QED
    BY <1>2, <2>2, ReturnInv DEF Crash
<1>3. ASSUME TypeInv, Inv, Cloud PROVE Inv'
  <2>1. UNCHANGED <<apiVars, pc, loc, locFresh>>
    BY <1>3 DEF Cloud, InstanceBoots, NodeRegisters, JobFinishes, JobExpires, ctlVars
  <2>2. StaysTerminated
    <3>1. ASSUME NEW i \in Instance, InstanceBoots(i) \/ NodeRegisters(i)
          PROVE  StaysTerminated
      BY <1>3, <3>1 DEF InstanceBoots, NodeRegisters, StaysTerminated, TypeInv, WorldType
    <3>2. ASSUME JobFinishes \/ JobExpires PROVE StaysTerminated
      BY <3>2, SameInst DEF JobFinishes, JobExpires, cloudVars
    <3> QED
      BY <1>3, <3>1, <3>2 DEF Cloud
  <2>3. HarmlessWrite
    BY <2>1, <2>2, SameApiHarmless
  <2> QED
    BY <1>3, <2>1, <2>2, <2>3, OthersInv DEF apiVars, Versions
<1> QED
  BY <1>1, <1>2, <1>3

\* The invariant holds before the resource is created.
LEMMA InitInv == Init => Inv
<1> SUFFICES ASSUME Init PROVE Inv
  OBVIOUS
<1>1. /\ store = NoObject /\ pc = "idle" /\ locFresh = FALSE
      /\ NoObject.exists = FALSE /\ NoObject.iid = None
  BY DEF Init, NoObject
<1>2. Versions = {NoObject}
  <2>1. 1..Len(stream) = {} /\ cached = NoObject
    BY DEF Init
  <2> QED
    BY <2>1 DEF Versions
<1> QED
  BY <1>1, <1>2 DEF Inv, FreshInv, ManagedInv, WorkInv, InWork, WorkPC, SharedPC,
    DeleteInv, FinalizerInv, TerminatedInv, RecordedInstanceTerminated

\* Every step of the system keeps the invariant: it is inductive relative to the type invariant.
LEMMA StepInv == TypeInv /\ Inv /\ [Next]_vars => Inv'
<1> SUFFICES ASSUME TypeInv, Inv, [Next]_vars PROVE Inv'
  OBVIOUS
<1>1. CASE Reconcile
  BY <1>1, StartInv, CommittingInv, PollAndRecordInv, MarkersInv, LaunchingInv,
     JoiningInv, CleanupInv, BeginDeleteInv, DeletingInv
    DEF Reconcile, Provisioning, Joining, Releasing, Deleting
<1>2. CASE User \/ CacheDelivers \/ Crash \/ Cloud
  BY <1>2, UserInv, CloudInv
<1>3. CASE UNCHANGED vars
  <2>1. /\ UNCHANGED <<apiVars, pc, loc, locFresh>>
        /\ StaysTerminated /\ HarmlessWrite
    BY <1>3, SameInst, SameApiHarmless DEF vars, ctlVars, worldVars, cloudVars
  <2> QED
    BY <2>1, OthersInv DEF apiVars, Versions
<1> QED
  BY <1>1, <1>2, <1>3 DEF Next

\* Whatever stale copies a reconcile works on, whichever calls fail and wherever it
\* crashes, a resource whose status names an instance goes only when handleDelete
\* has seen that instance terminated.
THEOREM RecordedInstanceIsTerminated == Spec => []RecordedInstanceTerminated
<1>1. Init => TypeInv /\ Inv
  BY TypeInit, InitInv
<1>2. TypeInv /\ Inv /\ [Next]_vars => TypeInv' /\ Inv'
  BY TypeStep, StepInv
<1>3. Inv => RecordedInstanceTerminated
  BY DEF Inv
<1> QED
  BY <1>1, <1>2, <1>3, PTL DEF Spec

\* Only LaunchInstance makes an instance pending.
LEMMA PendingByLaunch ==
    ASSUME TypeInv, [Next]_vars, NEW i \in Instance,
           inst[i] # "pending", inst'[i] = "pending"
    PROVE  LaunchInstance
<1>1. inst' # inst
  OBVIOUS
<1>2. CASE Provisioning \/ Joining \/ Releasing
  BY <1>1, <1>2
    DEF Provisioning, Joining, Releasing, ResolveDefaults, MarkValidating,
      MarkConfiguringVPN, ConnectVPN, RegisterPeer, RecordAllocation, PersistInstanceID,
      Fail, PollInstance, AwaitNode, StampNode, RecordJoin, PrepullImages, MarkReady,
      CleanupServer, CleanupNetConfig, ResetAfterFailure, worldVars, cloudVars
<1>3. CASE Deleting
  <2>1. TerminateInstance
    BY <1>1, <1>3 DEF Deleting, BeginDelete, DeleteNode, ConfirmNodeGone, ClearInstanceID,
      RemoveFinalizer, worldVars, cloudVars
  <2>2. inst' = [inst EXCEPT ![loc.iid] = "terminated"]
    BY <1>1, <2>1 DEF TerminateInstance
  <2> QED
    BY <2>2 DEF TypeInv, WorldType
<1>4. CASE Start \/ AddFinalizer \/ AdvanceToWaiting
  BY <1>1, <1>4 DEF Start, AddFinalizer, AdvanceToWaiting, worldVars, cloudVars
<1>5. CASE User \/ CacheDelivers \/ Crash
  BY <1>1, <1>5 DEF User, UserCreates, UserEdits, UserDeletes, UserDeletesSecret,
    UserDeletesNode, CacheDelivers, Crash, worldVars, cloudVars
<1>6. CASE Cloud
  <2>1. PICK j \in Instance : InstanceBoots(j) \/ NodeRegisters(j)
    BY <1>1, <1>6 DEF Cloud, JobFinishes, JobExpires, cloudVars
  <2>2. inst' = [inst EXCEPT ![j] = "running"] \/ inst' = [inst EXCEPT ![j] = "joined"]
    BY <2>1 DEF InstanceBoots, NodeRegisters
  <2> QED
    BY <2>2 DEF TypeInv, WorldType
<1>7. CASE UNCHANGED vars
  BY <1>1, <1>7 DEF vars, worldVars, cloudVars
<1> QED
  BY <1>2, <1>3, <1>4, <1>5, <1>6, <1>7 DEF Next, Reconcile

\* However old the copy a reconcile began with, it starts an instance only for a
\* resource that is there and holds the finalizer.
THEOREM LaunchesForManaged == Spec => LaunchesOnlyManaged
<1>1. Init => TypeInv /\ Inv
  BY TypeInit, InitInv
<1>2. TypeInv /\ Inv /\ [Next]_vars => TypeInv' /\ Inv'
  BY TypeStep, StepInv
<1>3. TypeInv /\ Inv /\ [Next]_vars
        => [\A i \in Instance :
              inst[i] # "pending" /\ inst'[i] = "pending"
                 => store.exists /\ store.finalizer]_vars
  <2> SUFFICES ASSUME TypeInv, Inv, [Next]_vars, NEW i \in Instance,
                      inst[i] # "pending", inst'[i] = "pending"
               PROVE  store.exists /\ store.finalizer
    OBVIOUS
  <2>1. LaunchInstance
    BY PendingByLaunch
  <2>2. InWork
    BY <2>1 DEF LaunchInstance, InWork, WorkPC, PC, SharedPC, DeletePC
  <2> QED
    BY <2>2 DEF Inv, WorkInv
<1> QED
  BY <1>1, <1>2, <1>3, PTL DEF Spec, LaunchesOnlyManaged
=============================================================================
