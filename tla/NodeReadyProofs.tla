-------------------------- MODULE NodeReadyProofs --------------------------
(***************************************************************************)
(* The Node of a resource that says Ready is in the cluster under the      *)
(* management finalizer, for every lag of the cache and any number of      *)
(* failures, edits and resources created under the name one after another. *)
(*                                                                         *)
(* Only handleDelete takes a Node away, and it may work on a stale copy of *)
(* an earlier resource: ReadyOrder and UnseenByDelete say that the current *)
(* one has not come as far as a stamped Node then.                         *)
(*                                                                         *)
(* Such a resource is never provisioned again either.  A reconcile decides *)
(* on a copy that may be old, and some of its writes (the markers, the     *)
(* failure) follow a second read without a second look at the phase.       *)
(* LateOrder says what the cache may still hold while the resource is that *)
(* far, and LatePlaces that no reconcile is then at a write which would    *)
(* throw it back.                                                          *)
(***************************************************************************)
EXTENDS NodeLifecycleProofs

\* The Node was stamped before this was written.
Advanced(v) == v.exists /\ Managed(v) /\ v.phase \in {"PrePullingImages", "Ready"}

Stamp == node.exists /\ node.finalizer

\* No such version follows one that is being deleted.
ReadyOrder ==
    \A j, k \in 0..Len(stream) : j < k /\ At(j).deleting => ~Advanced(At(k))

AdvancedStamped == \A v \in Versions : Advanced(v) => Stamp

\* A resource without the finalizer has not been worked for.
UntouchedEmpty == \A v \in Versions : v.exists /\ ~v.finalizer => v.phase = "Empty"

SeenReady == ReadyOrder /\ AdvancedStamped /\ UntouchedEmpty

UnseenByDelete == InDelete => \A v \in Versions : ~Advanced(v)

\* Past StampNode, and where the copy said that it was done.
StampedPC == {"joined", "prepull", "markReady"}

PlaceReady ==
    /\ UnseenByDelete
    /\ pc \in StampedPC => Stamp
    /\ pc = "addFinalizer" => loc.phase = "Empty"

ReadyInv == SeenReady /\ PlaceReady
-----------------------------------------------------------------------------
(* Writes, and what the cache sees of them.                                *)

\* A version that is no further than the stored one, or is written by a reconcile
\* that has stamped the Node and has no deleted version in view.
Follows(o) ==
    /\ o.exists /\ ~o.finalizer => o.phase = "Empty"
    /\ Advanced(o) => \/ Advanced(store)
                      \/ InWork /\ Stamp /\ \A v \in Versions : ~v.deleting

Orderly == Quiet \/ \E o \in Object : Write(o) /\ Follows(o)

\* After an advanced version nothing deleted is in view.
LEMMA AdvancedStoreClean ==
    ASSUME ApiInv, ReadyOrder, Advanced(store)
    PROVE  \A v \in Versions : ~v.deleting
<1>1. Len(stream) \in Nat /\ store = At(Len(stream))
  BY StoreLast
<1>2. ASSUME NEW k \in 0..Len(stream) PROVE ~At(k).deleting
  <2>1. CASE k = Len(stream)
    BY <1>1, <2>1 DEF Advanced, Managed
  <2>2. CASE k # Len(stream)
    <3>1. k < Len(stream) /\ Len(stream) \in 0..Len(stream)
      BY <1>1, <2>2
    <3> QED
      BY <1>1, <3>1 DEF ReadyOrder
  <2> QED
    BY <2>1, <2>2
<1> QED
  BY <1>2, VersionsAt DEF ApiInv

\* ReadyOrder, as a relation.
Unadvanced == {p \in Object \X Object : p[1].deleting => ~Advanced(p[2])}

LEMMA ReadyOrderPairs ==
    ApiType => (ReadyOrder <=> Ordered(Unadvanced))
<1>1. ASSUME NEW v \in Object, NEW w \in Object
      PROVE  <<v, w>> \in Unadvanced <=> (v.deleting => ~Advanced(w))
  BY DEF Unadvanced
<1> SUFFICES ASSUME ApiType
             PROVE  ReadyOrder <=> Ordered(Unadvanced)
  OBVIOUS
<1>2. \A k \in 0..Len(stream) : At(k) \in Object
  BY VersionsAt
<1> QED
  BY <1>1, <1>2 DEF ReadyOrder, Ordered

\* A write keeps the order if nothing deleted comes before an advanced version.
LEMMA WriteReadyOrder ==
    ASSUME ApiInv, ReadyOrder, NEW o \in Object, Write(o),
           Advanced(o) => \A v \in Versions : ~v.deleting
    PROVE  ReadyOrder'
<1>1. ApiType /\ ApiType' /\ \A v \in Versions : v \in Object
  BY WriteFacts, VersionsAt DEF ApiInv
<1>2. Ordered(Unadvanced)
  BY <1>1, ReadyOrderPairs
<1>3. \A v \in Versions : <<v, o>> \in Unadvanced
  BY <1>1 DEF Unadvanced
<1>4. Ordered(Unadvanced)'
  BY <1>1, <1>2, <1>3, WritePairs
<1>5. (ApiType => (ReadyOrder <=> Ordered(Unadvanced)))'
  BY ReadyOrderPairs, PTL
<1> QED
  BY <1>1, <1>4, <1>5

\* Reading on keeps it (ApiCache!Deliver, Relist).
LEMMA ReadReadyOrder ==
    ASSUME ApiInv, ReadyOrder, Quiet
    PROVE  ReadyOrder'
<1>1. ApiType /\ ApiType'
  BY DeliverFacts, RelistFacts DEF Quiet, ApiInv, ApiType, apiVars
<1>2. Ordered(Unadvanced)
  BY <1>1, ReadyOrderPairs
<1>3. Ordered(Unadvanced)'
  BY <1>1, <1>2, ReadPairs DEF Quiet
<1>4. (ApiType => (ReadyOrder <=> Ordered(Unadvanced)))'
  BY ReadyOrderPairs, PTL
<1> QED
  BY <1>1, <1>3, <1>4

\* What a step shows of the resource stays in order, unless it takes the Node from
\* a resource that is not being deleted.
LEMMA OrderlySeen ==
    ASSUME AllInv, ReadyInv, Orderly, (Stamp => Stamp') \/ InDelete
    PROVE  SeenReady' /\ (InDelete => \A v \in Versions' : ~Advanced(v))
<1>1. ApiInv /\ ApiType /\ CacheCoherent /\ SeenReady /\ UnseenByDelete
  BY DEF AllInv, TypeInv, ApiInv, ReadyInv, PlaceReady
<1>2. CASE Quiet
  <2>1. Versions' \subseteq Versions
    BY <1>1, <1>2, ReadOrder DEF Quiet, AllInv, Settled
  <2>2. ReadyOrder'
    BY <1>1, <1>2, ReadReadyOrder DEF SeenReady
  <2>3. AdvancedStamped' /\ UntouchedEmpty'
    BY <1>1, <2>1 DEF SeenReady, AdvancedStamped, UntouchedEmpty, UnseenByDelete, Advanced,
      Managed
  <2>4. InDelete => \A v \in Versions' : ~Advanced(v)
    BY <1>1, <2>1 DEF UnseenByDelete
  <2> QED
    BY <2>2, <2>3, <2>4 DEF SeenReady
<1>3. CASE \E o \in Object : Write(o) /\ Follows(o)
  <2>1. PICK o \in Object : Write(o) /\ Follows(o)
    BY <1>3
  <2>2. Versions' \subseteq Versions \cup {o}
    BY <1>1, <2>1, WriteFacts
  <2>3. Advanced(store) => ~InDelete /\ Stamp /\ \A v \in Versions : ~v.deleting
    <3>1. store \in Versions
      BY <1>1, StoreSeen
    <3> QED
      BY <1>1, <3>1, AdvancedStoreClean DEF SeenReady, AdvancedStamped, UnseenByDelete
  <2>4. ~(InWork /\ InDelete)
    BY DEF InWork, InDelete, WorkPC, DeletePC, SharedPC
  <2>5. Advanced(o) => ~InDelete /\ Stamp /\ \A v \in Versions : ~v.deleting
    BY <2>1, <2>3, <2>4 DEF Follows
  <2>6. ReadyOrder'
    BY <1>1, <2>1, <2>5, WriteReadyOrder DEF SeenReady
  <2>7. AdvancedStamped'
    BY <1>1, <2>2, <2>5 DEF SeenReady, AdvancedStamped, UnseenByDelete
  <2>8. UntouchedEmpty'
    BY <1>1, <2>1, <2>2 DEF SeenReady, UntouchedEmpty, Follows
  <2>9. InDelete => \A v \in Versions' : ~Advanced(v)
    BY <1>1, <2>2, <2>5 DEF UnseenByDelete
  <2> QED
    BY <2>6, <2>7, <2>8, <2>9 DEF SeenReady
<1> QED
  BY <1>2, <1>3 DEF Orderly

\* A step that does not enter handleDelete, StampNode's successors or AddFinalizer.
LEMMA OrderlyStep ==
    ASSUME AllInv, ReadyInv, Orderly, (Stamp => Stamp') \/ InDelete,
           InDelete' => InDelete, pc' # "addFinalizer",
           pc' \in StampedPC => Stamp'
    PROVE  ReadyInv'
<1>1. SeenReady' /\ (InDelete => \A v \in Versions' : ~Advanced(v))
  BY OrderlySeen
<1>2. UnseenByDelete'
  BY <1>1 DEF UnseenByDelete, Advanced, Managed
<1> QED
  BY <1>1, <1>2 DEF ReadyInv, PlaceReady

\* A reconcile that returns.
LEMMA OrderlyReturn ==
    ASSUME AllInv, ReadyInv, Orderly, (Stamp => Stamp') \/ InDelete, Return
    PROVE  ReadyInv'
<1>1. pc' = "idle" /\ ~InDelete'
  BY DEF Return, InDelete, DeletePC, SharedPC
<1> QED
  BY <1>1, OrderlyStep DEF StampedPC
-----------------------------------------------------------------------------
(* Reconciles that write and return.                                       *)

\* A working reconcile's copy, written back with another phase.
LEMMA CommitOrderly ==
    ASSUME AllInv, ReadyInv, InWork, NEW o \in Object, Commit(o) \/ Lost,
           o.finalizer = loc.finalizer, o.deleting = loc.deleting,
           o.phase \in {"PrePullingImages", "Ready"} => pc \in StampedPC
    PROVE  Orderly
<1>1. CASE Lost
  BY <1>1 DEF Lost, Orderly, Quiet
<1>2. CASE Commit(o)
  <2>1. locFresh /\ Write(o)
    BY <1>2 DEF Commit
  <2>2. loc.finalizer = store.finalizer /\ loc.deleting = store.deleting
    BY <2>1 DEF AllInv, Inv, FreshInv
  <2>3. store.finalizer
    BY DEF AllInv, Inv, WorkInv
  <2>4. ASSUME Advanced(o) PROVE Stamp /\ \A v \in Versions : ~v.deleting
    <3>1. ~store.deleting /\ pc \in StampedPC
      BY <2>2, <2>4 DEF Advanced, Managed
    <3> QED
      BY <3>1 DEF ReadyInv, PlaceReady, AllInv, Settled, WorkSeesInv, Ending
  <2>5. Follows(o)
    BY <2>2, <2>3, <2>4 DEF Follows
  <2> QED
    BY <2>1, <2>5 DEF Orderly
<1> QED
  BY <1>1, <1>2

\* The same, for the copies that the actions write.
LEMMA PhaseOrderly ==
    ASSUME AllInv, ReadyInv, pc \in WorkPC, NEW phase \in Phase,
           Commit([loc EXCEPT !.phase = phase]) \/ Lost,
           phase \in {"PrePullingImages", "Ready"} => pc \in StampedPC
    PROVE  Orderly
<1> DEFINE o == [loc EXCEPT !.phase = phase]
<1>1. /\ o \in Object /\ o.finalizer = loc.finalizer /\ o.deleting = loc.deleting
      /\ o.phase = phase
  BY DEF AllInv, TypeInv, CtlType, Object
<1>2. InWork
  BY DEF InWork
<1> QED
  BY <1>1, <1>2, CommitOrderly

LEMMA CommittingReady ==
    ASSUME AllInv, ReadyInv,
           \/ AdvanceToWaiting \/ Fail \/ AwaitNode \/ MarkReady
           \/ ResetAfterFailure \/ PollInstance \/ RecordJoin \/ PersistInstanceID
    PROVE  ReadyInv'
<1>1. Return /\ UNCHANGED node /\ pc \in WorkPC
  BY DEF AdvanceToWaiting, Fail, AwaitNode, MarkReady, ResetAfterFailure, PollInstance,
    RecordJoin, PersistInstanceID, worldVars, k8sVars, WorkPC, PC, SharedPC, DeletePC
<1>2. CASE AdvanceToWaiting \/ Fail \/ AwaitNode \/ MarkReady \/ PollInstance
  <2>1. Orderly
    <3>1. CASE AdvanceToWaiting
      BY <1>1, <3>1, PhaseOrderly DEF AdvanceToWaiting, Phase
    <3>2. CASE Fail
      BY <1>1, <3>2, PhaseOrderly DEF Fail, Phase
    <3>3. CASE AwaitNode
      BY <1>1, <3>3, PhaseOrderly DEF AwaitNode, Phase
    <3>4. CASE MarkReady
      BY <1>1, <3>4, PhaseOrderly DEF MarkReady, Phase, StampedPC
    <3>5. CASE PollInstance
      BY <1>1, <3>5, PhaseOrderly DEF PollInstance, Phase, Orderly, Quiet
    <3> QED
      BY <1>2, <3>1, <3>2, <3>3, <3>4, <3>5
  <2> QED
    BY <1>1, <2>1, OrderlyReturn DEF Stamp
<1>3. CASE ResetAfterFailure \/ PersistInstanceID
  <2>1. PICK phase \in {"Empty", "WaitingForInstance"}, iid \in Instance \cup {None},
             ip \in IP \cup {None} :
          Commit([loc EXCEPT !.phase = phase, !.iid = iid, !.vpnIP = ip]) \/ Lost
    <3>1. CASE ResetAfterFailure
      <4>1. [loc EXCEPT !.phase = "Empty", !.vpnIP = None]
              = [loc EXCEPT !.phase = "Empty", !.iid = loc.iid, !.vpnIP = None]
        BY DEF AllInv, TypeInv, CtlType, Object
      <4>2. loc.iid \in Instance \cup {None}
        BY DEF AllInv, TypeInv, CtlType, Object
      <4> QED
        BY <3>1, <4>1, <4>2 DEF ResetAfterFailure
    <3>2. CASE PersistInstanceID
      <4>1. launched \in Instance \cup {None} /\ alloc \in IP \cup {None}
        BY DEF AllInv, TypeInv, CtlType
      <4> QED
        BY <3>2, <4>1 DEF PersistInstanceID
    <3> QED
      BY <1>3, <3>1, <3>2
  <2> DEFINE o == [loc EXCEPT !.phase = phase, !.iid = iid, !.vpnIP = ip]
  <2>2. /\ o \in Object /\ o.finalizer = loc.finalizer /\ o.deleting = loc.deleting
        /\ o.phase = phase
    BY DEF AllInv, TypeInv, CtlType, Object, Phase
  <2>3. InWork
    BY <1>1 DEF InWork
  <2>4. Orderly
    BY <2>1, <2>2, <2>3, CommitOrderly
  <2> QED
    BY <1>1, <2>4, OrderlyReturn DEF Stamp
<1>4. CASE RecordJoin
  <2>1. pc \in StampedPC
    BY <1>4 DEF RecordJoin, StampedPC
  <2>2. CASE Commit([loc EXCEPT !.phase = PhaseAfterJoin]) \/ Lost
    <3>1. PhaseAfterJoin \in Phase
      BY DEF PhaseAfterJoin, Phase
    <3>2. Orderly
      BY <1>1, <2>1, <2>2, <3>1, PhaseOrderly
    <3> QED
      BY <1>1, <3>2, OrderlyReturn DEF Stamp
  <2>3. CASE locFresh /\ Write([loc EXCEPT !.phase = "Ready"])
    <3> DEFINE o == [loc EXCEPT !.phase = "Ready"]
    <3>1. o \in Object /\ o.finalizer = loc.finalizer /\ o.deleting = loc.deleting
      BY DEF AllInv, TypeInv, CtlType, Object, Phase
    <3>2. store.finalizer /\ o.finalizer = store.finalizer /\ o.deleting = store.deleting
      BY <1>1, <2>3, <3>1 DEF AllInv, Inv, FreshInv, WorkInv, InWork
    <3>3. Advanced(o) => InWork /\ Stamp /\ \A v \in Versions : ~v.deleting
      BY <1>1, <2>1, <3>2 DEF Advanced, Managed, InWork, ReadyInv, PlaceReady, AllInv, Settled,
        WorkSeesInv, Ending
    <3>4. Write(o) /\ Follows(o)
      BY <2>3, <3>2, <3>3 DEF Follows
    <3>5. Orderly
      BY <3>1, <3>4 DEF Orderly
    <3> QED
      BY <1>1, <3>5, OrderlyReturn DEF Stamp
  <2> QED
    BY <1>4, <2>2, <2>3 DEF RecordJoin
<1> QED
  BY <1>2, <1>3, <1>4

\* The finalizer goes onto a resource nobody has worked for.
LEMMA AddFinalizerReady == AllInv /\ ReadyInv /\ AddFinalizer => ReadyInv'
<1> SUFFICES ASSUME AllInv, ReadyInv, AddFinalizer PROVE ReadyInv'
  OBVIOUS
<1> DEFINE o == [loc EXCEPT !.finalizer = TRUE]
<1>1. o \in Object /\ o.finalizer /\ o.phase = loc.phase
  BY DEF AllInv, TypeInv, CtlType, Object
<1>2. loc.phase = "Empty"
  BY DEF AddFinalizer, ReadyInv, PlaceReady
<1>3. Follows(o)
  BY <1>1, <1>2 DEF Follows, Advanced
<1>4. Orderly
  BY <1>1, <1>3 DEF AddFinalizer, Commit, Lost, Orderly, Quiet
<1>5. Return /\ UNCHANGED node
  BY DEF AddFinalizer, worldVars, k8sVars
<1> QED
  BY <1>4, <1>5, OrderlyReturn DEF Stamp
-----------------------------------------------------------------------------
(* Where a reconcile begins, and how it goes on.                           *)

\* A copy that is being deleted hides no advanced version behind it.
LEMMA StartReady == AllInv /\ ReadyInv /\ Start => ReadyInv'
<1> SUFFICES ASSUME AllInv, ReadyInv, Start PROVE ReadyInv'
  OBVIOUS
<1>1. /\ UNCHANGED apiVars /\ UNCHANGED node /\ pc = "idle" /\ cached.exists
      /\ pc' = Dispatch(cached)
  BY DEF Start, k8sVars
<1>2. Orderly /\ (Stamp => Stamp') /\ Versions' = Versions /\ cached \in Versions
  BY <1>1 DEF Orderly, Quiet, Stamp, Versions, apiVars
<1>3. SeenReady'
  BY <1>2, OrderlySeen
<1>4. pc' # "idle" => loc' = cached
  BY DEF Start, Read
<1>5. cached \in Object /\ Len(stream) \in Nat
  BY DEF AllInv, TypeInv, ApiInv, ApiType
<1>6. UnseenByDelete'
  <2> SUFFICES ASSUME InDelete', NEW v \in Versions PROVE ~Advanced(v)
    BY <1>2 DEF UnseenByDelete, Advanced, Managed
  <2>1. pc' # "idle"
    BY DEF InDelete, DeletePC, SharedPC
  <2>2. cached.deleting
    <3>1. CASE loc'.deleting
      BY <1>4, <2>1, <3>1
    <3>2. CASE ~loc'.deleting
      <4>1. Dispatch(cached) \in DeletePC
        BY <1>1, <3>2 DEF InDelete
      <4> QED
        BY <4>1 DEF Dispatch, DeletePC
    <3> QED
      BY <3>1, <3>2
  <2>3. PICK k \in 0..Len(stream) : v = At(k)
    BY VersionsAt DEF AllInv, TypeInv, ApiInv
  <2>4. CASE k = 0
    BY <2>2, <2>3, <2>4 DEF At, Advanced, Managed
  <2>5. CASE k # 0
    <3>1. 0 \in 0..Len(stream) /\ 0 < k /\ At(0).deleting
      BY <1>5, <2>2, <2>5 DEF At
    <3> QED
      BY <2>3, <3>1 DEF ReadyInv, SeenReady, ReadyOrder
  <2> QED
    BY <2>4, <2>5
<1>7. pc' \in StampedPC => Stamp'
  <2> SUFFICES ASSUME pc' \in StampedPC PROVE Stamp'
    OBVIOUS
  <2>1. Dispatch(cached) = "prepull"
    BY <1>1 DEF Dispatch, StampedPC
  <2>2. Managed(cached) /\ cached.phase = "PrePullingImages"
    BY <2>1 DEF Dispatch, Managed
  <2>3. Advanced(cached)
    BY <1>1, <2>2 DEF Advanced
  <2> QED
    BY <1>2, <2>3 DEF ReadyInv, SeenReady, AdvancedStamped
<1>8. pc' = "addFinalizer" => loc'.phase = "Empty"
  <2> SUFFICES ASSUME pc' = "addFinalizer" PROVE loc'.phase = "Empty"
    OBVIOUS
  <2>1. ~cached.finalizer
    BY <1>1 DEF Dispatch
  <2> QED
    BY <1>1, <1>2, <1>4, <2>1 DEF ReadyInv, SeenReady, UntouchedEmpty
<1> QED
  BY <1>3, <1>6, <1>7, <1>8 DEF ReadyInv, PlaceReady

\* A progress marker names no advanced phase.
LEMMA MarkerReady ==
    ASSUME AllInv, ReadyInv, NEW phase \in Phase \ {"PrePullingImages", "Ready"},
           NEW next \in {"configureVPN", "connectVPN", "register"},
           ProgressMarker(phase, next), UNCHANGED node, pc \in WorkPC
    PROVE  ReadyInv'
<1>1. Commit([loc EXCEPT !.phase = phase]) \/ Lost
  BY DEF ProgressMarker
<1>2. Orderly
  BY <1>1, PhaseOrderly
<1>3. Return \/ pc' = next
  BY DEF ProgressMarker, Goto
<1>4. CASE pc' = next
  <2>1. ~InDelete' /\ pc' # "addFinalizer" /\ pc' \notin StampedPC
    BY <1>4 DEF InDelete, DeletePC, SharedPC, StampedPC
  <2> QED
    BY <1>2, <2>1, OrderlyStep DEF Stamp
<1> QED
  BY <1>2, <1>3, <1>4, OrderlyReturn DEF Stamp

LEMMA MarkersReady ==
    ASSUME AllInv, ReadyInv, MarkValidating \/ MarkConfiguringVPN \/ ConnectVPN
    PROVE  ReadyInv'
<1>1. UNCHANGED node /\ pc \in WorkPC
  BY DEF MarkValidating, MarkConfiguringVPN, ConnectVPN, worldVars, k8sVars, WorkPC, PC,
    SharedPC, DeletePC
<1>2. CASE MarkValidating
  BY <1>1, <1>2, MarkerReady DEF MarkValidating, Phase
<1>3. CASE MarkConfiguringVPN
  <2>1. CASE ProgressMarker("ConfiguringVPN", "connectVPN")
    BY <1>1, <2>1, MarkerReady DEF Phase
  <2>2. CASE Return /\ UNCHANGED apiVars
    BY <1>1, <2>2, OrderlyReturn DEF Orderly, Quiet, Stamp
  <2> QED
    BY <1>3, <2>1, <2>2 DEF MarkConfiguringVPN
<1>4. CASE ConnectVPN
  <2>1. CASE ProgressMarker("CreatingInstance", "register")
    BY <1>1, <2>1, MarkerReady DEF Phase
  <2>2. CASE Return /\ UNCHANGED apiVars
    BY <1>1, <2>2, OrderlyReturn DEF Orderly, Quiet, Stamp
  <2> QED
    BY <1>4, <2>1, <2>2 DEF ConnectVPN
<1> QED
  BY <1>2, <1>3, <1>4

\* The resolved defaults are patched into whatever is stored.
LEMMA ResolveReady == AllInv /\ ReadyInv /\ ResolveDefaults => ReadyInv'
<1> SUFFICES ASSUME AllInv, ReadyInv, ResolveDefaults PROVE ReadyInv'
  OBVIOUS
<1>1. UNCHANGED node
  BY DEF ResolveDefaults, worldVars, k8sVars
<1>2. CASE Write([store EXCEPT !.resolved = TRUE]) /\ Return
  <2> DEFINE o == [store EXCEPT !.resolved = TRUE]
  <2>1. /\ o \in Object /\ o.exists = store.exists /\ o.finalizer = store.finalizer
        /\ o.deleting = store.deleting /\ o.phase = store.phase
    BY DEF AllInv, TypeInv, ApiInv, ApiType, Object
  <2>2. store \in Versions
    BY StoreSeen DEF AllInv, TypeInv
  <2>3. Follows(o)
    BY <2>1, <2>2 DEF Follows, Advanced, Managed, ReadyInv, SeenReady, UntouchedEmpty
  <2>4. Orderly
    BY <1>2, <2>1, <2>3 DEF Orderly
  <2> QED
    BY <1>1, <1>2, <2>4, OrderlyReturn DEF Stamp
<1>3. CASE UNCHANGED apiVars /\ pc' \in {"validating", "fail"}
  <2>1. ~InDelete' /\ pc' # "addFinalizer" /\ pc' \notin StampedPC
    BY <1>3 DEF InDelete, DeletePC, SharedPC, StampedPC
  <2> QED
    BY <1>1, <1>3, <2>1, OrderlyStep DEF Orderly, Quiet, Stamp
<1> QED
  BY <1>2, <1>3 DEF ResolveDefaults, Goto

LEMMA LaunchingReady ==
    ASSUME AllInv, ReadyInv, RegisterPeer \/ LaunchInstance \/ RecordAllocation
    PROVE  ReadyInv'
<1>1. UNCHANGED apiVars /\ UNCHANGED node
  BY DEF RegisterPeer, LaunchInstance, RecordAllocation, k8sVars
<1>2. Return \/ pc' \in {"launch", "fail", "record", "persist"}
  BY DEF RegisterPeer, LaunchInstance, RecordAllocation, Goto
<1>3. CASE pc' \in {"launch", "fail", "record", "persist"}
  <2>1. ~InDelete' /\ pc' # "addFinalizer" /\ pc' \notin StampedPC
    BY <1>3 DEF InDelete, DeletePC, SharedPC, StampedPC
  <2> QED
    BY <1>1, <2>1, OrderlyStep DEF Orderly, Quiet, Stamp
<1> QED
  BY <1>1, <1>2, <1>3, OrderlyReturn DEF Orderly, Quiet, Stamp

\* The Node is stamped, and stays so.
LEMMA JoiningReady == AllInv /\ ReadyInv /\ (StampNode \/ PrepullImages) => ReadyInv'
<1> SUFFICES ASSUME AllInv, ReadyInv, StampNode \/ PrepullImages PROVE ReadyInv'
  OBVIOUS
<1>1. UNCHANGED apiVars /\ Orderly
  BY DEF StampNode, PrepullImages, Orderly, Quiet
<1>2. CASE StampNode
  <2>1. CASE node' = Stamped(node) /\ pc' = "joined"
    <3>1. node.exists
      BY <1>2 DEF StampNode, NodeFound
    <3>2. Stamp'
      BY <2>1, <3>1 DEF Stamp, Stamped, AllInv, TypeInv, WorldType
    <3>3. ~InDelete'
      BY <2>1 DEF InDelete, DeletePC, SharedPC
    <3> QED
      BY <1>1, <2>1, <3>2, <3>3, OrderlyStep
  <2>2. CASE Return /\ UNCHANGED node
    BY <1>1, <2>2, OrderlyReturn DEF Stamp
  <2> QED
    BY <1>2, <2>1, <2>2 DEF StampNode, Goto
<1>3. CASE PrepullImages
  <2>1. pc = "prepull" /\ UNCHANGED node /\ (Return \/ pc' = "markReady")
    BY <1>3 DEF PrepullImages, BeginMarkReady, Goto
  <2>2. CASE pc' = "markReady"
    <3>1. Stamp /\ Stamp'
      BY <2>1 DEF ReadyInv, PlaceReady, StampedPC, Stamp
    <3>2. ~InDelete'
      BY <2>2 DEF InDelete, DeletePC, SharedPC
    <3> QED
      BY <1>1, <2>2, <3>1, <3>2, OrderlyStep
  <2> QED
    BY <1>1, <2>1, <2>2, OrderlyReturn DEF Stamp
<1> QED
  BY <1>2, <1>3
-----------------------------------------------------------------------------
(* Releasing and deleting.                                                 *)

\* cleanupVPNPeer, for the Failed branch and for handleDelete.
LEMMA CleanupReady == AllInv /\ ReadyInv /\ (CleanupServer \/ CleanupNetConfig) => ReadyInv'
<1> SUFFICES ASSUME AllInv, ReadyInv, CleanupServer \/ CleanupNetConfig PROVE ReadyInv'
  OBVIOUS
<1>1. pc \in SharedPC /\ UNCHANGED apiVars /\ UNCHANGED node /\ Orderly /\ (Stamp => Stamp')
  BY DEF CleanupServer, CleanupNetConfig, SharedPC, k8sVars, Orderly, Quiet, Stamp
<1>2. CASE pc' = "release" /\ Keep
  <2>1. (InDelete' => InDelete) /\ pc' # "addFinalizer" /\ pc' \notin StampedPC
    BY <1>1, <1>2 DEF InDelete, DeletePC, SharedPC, Keep, StampedPC
  <2> QED
    BY <1>1, <2>1, OrderlyStep
<1>3. CASE loc.deleting /\ Goto("unfinalize")
  <2>1. InDelete /\ pc' # "addFinalizer" /\ pc' \notin StampedPC
    BY <1>1, <1>3 DEF InDelete, Goto, StampedPC
  <2> QED
    BY <1>1, <2>1, OrderlyStep
<1>4. CASE Goto("retry")
  <2>1. ~InDelete' /\ pc' # "addFinalizer" /\ pc' \notin StampedPC
    BY <1>4 DEF InDelete, DeletePC, SharedPC, Goto, StampedPC
  <2> QED
    BY <1>1, <2>1, OrderlyStep
<1>5. CASE Return
  BY <1>1, <1>5, OrderlyReturn
<1> QED
  BY <1>2, <1>3, <1>4, <1>5 DEF CleanupServer, CleanupNetConfig, AfterCleanup

\* What handleDelete writes has its finalizer and is being deleted.
LEMMA DeleteOrderly ==
    ASSUME AllInv, InDelete, NEW o \in Object, Commit(o) \/ Lost,
           o.finalizer = loc.finalizer, o.deleting = loc.deleting
    PROVE  Orderly
<1>1. loc.finalizer /\ loc.deleting
  BY DEF InDelete, AllInv, TypeInv, CtlType, LocalsInv
<1>2. Follows(o)
  BY <1>1 DEF Follows, Advanced, Managed
<1> QED
  BY <1>2 DEF Commit, Lost, Orderly, Quiet

\* The steps of handleDelete, which alone takes the Node away (DeleteNode).
LEMMA DeletingReady == AllInv /\ ReadyInv /\ Deleting => ReadyInv'
<1> SUFFICES ASSUME AllInv, ReadyInv, Deleting PROVE ReadyInv'
  OBVIOUS
<1>1. InDelete
  BY DEF Deleting, BeginDelete, DeleteNode, ConfirmNodeGone, TerminateInstance,
    ClearInstanceID, RemoveFinalizer, InDelete, DeletePC
<1>2. CASE BeginDelete
  <2> DEFINE o == [loc EXCEPT !.phase = "Deleting"]
  <2>1. o \in Object /\ o.finalizer = loc.finalizer /\ o.deleting = loc.deleting
    BY DEF AllInv, TypeInv, CtlType, Object, Phase
  <2>2. Commit(o) \/ Lost
    BY <1>2 DEF BeginDelete
  <2>3. Orderly
    BY <1>1, <2>1, <2>2, DeleteOrderly
  <2>4. pc' = "deleteNode"
    BY <1>2 DEF BeginDelete, Goto
  <2> QED
    BY <1>1, <2>3, <2>4, OrderlyStep DEF StampedPC
<1>3. CASE DeleteNode
  BY <1>1, <1>3, OrderlyReturn DEF DeleteNode, Orderly, Quiet
<1>4. CASE ConfirmNodeGone
  <2>1. UNCHANGED apiVars /\ pc' \in {"cleanup", "terminate"}
    BY <1>4 DEF ConfirmNodeGone, Goto
  <2> QED
    BY <1>1, <2>1, OrderlyStep DEF StampedPC, Orderly, Quiet
<1>5. CASE TerminateInstance
  <2>1. UNCHANGED apiVars /\ (Return \/ pc' = "clearIID")
    BY <1>5 DEF TerminateInstance, TerminateError, Goto
  <2>2. CASE Return
    BY <1>1, <2>1, <2>2, OrderlyReturn DEF Orderly, Quiet
  <2>3. CASE pc' = "clearIID"
    BY <1>1, <2>1, <2>3, OrderlyStep DEF StampedPC, Orderly, Quiet
  <2> QED
    BY <2>1, <2>2, <2>3
<1>6. CASE ClearInstanceID
  <2>1. loc \in Object /\ (Commit(loc) \/ Lost) /\ pc' = "cleanup"
    BY <1>6 DEF AllInv, TypeInv, CtlType, ClearInstanceID, Goto
  <2>2. Orderly
    BY <1>1, <2>1, DeleteOrderly
  <2> QED
    BY <1>1, <2>1, <2>2, OrderlyStep DEF StampedPC
<1>7. CASE RemoveFinalizer
  <2> DEFINE o == [store EXCEPT !.finalizer = FALSE, !.exists = FALSE]
  <2>1. o \in Object /\ ~o.exists
    BY DEF AllInv, TypeInv, ApiInv, ApiType, Object
  <2>2. Follows(o)
    BY <2>1 DEF Follows, Advanced
  <2>3. Orderly /\ Return
    BY <1>7, <2>1, <2>2 DEF RemoveFinalizer, Commit, Lost, Orderly, Quiet
  <2> QED
    BY <1>1, <2>3, OrderlyReturn
<1> QED
  BY <1>2, <1>3, <1>4, <1>5, <1>6, <1>7 DEF Deleting
-----------------------------------------------------------------------------
(* Users, the cloud, the cache and crashes.                                *)

\* A step of others leaves the reconcile where it is.
LEMMA OthersReady ==
    ASSUME AllInv, ReadyInv, Orderly, Stamp => Stamp', UNCHANGED <<pc, loc>>
    PROVE  ReadyInv'
<1>1. SeenReady' /\ (InDelete => \A v \in Versions' : ~Advanced(v))
  BY OrderlySeen
<1>2. UnseenByDelete'
  BY <1>1 DEF UnseenByDelete, Advanced, Managed, InDelete
<1> QED
  BY <1>1, <1>2 DEF ReadyInv, PlaceReady

LEMMA UserReady == AllInv /\ ReadyInv /\ User => ReadyInv'
<1> SUFFICES ASSUME AllInv, ReadyInv, User PROVE ReadyInv'
  OBVIOUS
<1>1. store \in Object /\ store \in Versions
  BY StoreSeen DEF AllInv, TypeInv, ApiInv, ApiType
<1>2. ASSUME NEW o \in Object, WriteByOther(o), Follows(o), UNCHANGED worldVars
      PROVE  ReadyInv'
  <2>1. Orderly /\ UNCHANGED <<pc, loc>> /\ (Stamp => Stamp')
    BY <1>2 DEF WriteByOther, Orderly, Stamp, worldVars, k8sVars
  <2> QED
    BY <2>1, OthersReady
<1>3. CASE UserCreates
  <2>1. PICK full \in BOOLEAN :
          WriteByOther([NoObject EXCEPT !.exists = TRUE, !.resolved = full])
    BY <1>3 DEF UserCreates
  <2> DEFINE o == [NoObject EXCEPT !.exists = TRUE, !.resolved = full]
  <2>2. o \in Object /\ ~o.finalizer /\ o.phase = "Empty"
    BY DEF NoObject, Object, Phase
  <2>3. Follows(o)
    BY <2>2 DEF Follows, Advanced, Managed
  <2> QED
    BY <1>2, <1>3, <2>1, <2>2, <2>3 DEF UserCreates
<1>4. CASE UserEdits
  <2>1. Follows(store)
    BY <1>1 DEF Follows, ReadyInv, SeenReady, UntouchedEmpty
  <2> QED
    BY <1>1, <1>2, <1>4, <2>1 DEF UserEdits
<1>5. CASE UserDeletes
  <2>1. CASE store.finalizer
    <3> DEFINE o == [store EXCEPT !.deleting = TRUE]
    <3>1. o \in Object /\ o.deleting /\ o.finalizer
      BY <1>1, <2>1 DEF Object
    <3>2. Follows(o)
      BY <3>1 DEF Follows, Advanced, Managed
    <3> QED
      BY <1>2, <1>5, <2>1, <3>1, <3>2 DEF UserDeletes
  <2>2. CASE ~store.finalizer
    <3> DEFINE o == [store EXCEPT !.deleting = TRUE, !.exists = FALSE]
    <3>1. o \in Object /\ ~o.exists
      BY <1>1 DEF Object
    <3>2. Follows(o)
      BY <3>1 DEF Follows, Advanced
    <3> QED
      BY <1>2, <1>5, <2>2, <3>1, <3>2 DEF UserDeletes
  <2> QED
    BY <2>1, <2>2
<1>6. CASE UserDeletesSecret
  BY <1>6, OthersReady DEF UserDeletesSecret, ctlVars, k8sVars, Orderly, Quiet, Stamp
<1>7. CASE UserDeletesNode
  <2>1. Stamp => Stamp'
    BY <1>7 DEF UserDeletesNode, Stamp, AllInv, TypeInv, WorldType
  <2> QED
    BY <1>7, <2>1, OthersReady DEF UserDeletesNode, ctlVars, Orderly, Quiet
<1> QED
  BY <1>3, <1>4, <1>5, <1>6, <1>7 DEF User

LEMMA CloudReady == AllInv /\ ReadyInv /\ (CacheDelivers \/ Crash \/ Cloud) => ReadyInv'
<1> SUFFICES ASSUME AllInv, ReadyInv, CacheDelivers \/ Crash \/ Cloud PROVE ReadyInv'
  OBVIOUS
<1>1. CASE CacheDelivers
  BY <1>1, OthersReady DEF CacheDelivers, ctlVars, worldVars, k8sVars, Orderly, Quiet, Stamp
<1>2. CASE Crash
  BY <1>2, OrderlyReturn DEF Crash, worldVars, k8sVars, Orderly, Quiet, Stamp
<1>3. CASE Cloud
  <2>1. UNCHANGED apiVars /\ UNCHANGED ctlVars /\ (UNCHANGED node \/ ~node.exists)
    BY <1>3 DEF Cloud, InstanceBoots, NodeRegisters, JobFinishes, JobExpires, k8sVars
  <2> QED
    BY <2>1, OthersReady DEF ctlVars, Orderly, Quiet, Stamp
<1> QED
  BY <1>1, <1>2, <1>3
-----------------------------------------------------------------------------
(* The theorem.                                                            *)

LEMMA ReadyInit == Init => ReadyInv
<1> SUFFICES ASSUME Init PROVE ReadyInv
  OBVIOUS
<1>1. cached = NoObject /\ stream = <<>> /\ pc = "idle"
  BY DEF Init
<1>2. Versions = {NoObject} /\ 0..Len(stream) = {0}
  <2>1. Len(stream) = 0 /\ 1..Len(stream) = {}
    BY <1>1
  <2> QED
    BY <1>1, <2>1 DEF Versions
<1>3. NoObject.exists = FALSE
  BY DEF NoObject
<1>4. SeenReady
  BY <1>2, <1>3 DEF SeenReady, ReadyOrder, AdvancedStamped, UntouchedEmpty, Advanced
<1>5. PlaceReady
  BY <1>1 DEF PlaceReady, UnseenByDelete, InDelete, DeletePC, SharedPC, StampedPC
<1> QED
  BY <1>4, <1>5 DEF ReadyInv

LEMMA ReadyStep == AllInv /\ ReadyInv /\ [Next]_vars => ReadyInv'
<1> SUFFICES ASSUME AllInv, ReadyInv, [Next]_vars PROVE ReadyInv'
  OBVIOUS
<1>1. CASE UNCHANGED vars
  BY <1>1, OthersReady DEF vars, ctlVars, worldVars, k8sVars, Orderly, Quiet, Stamp
<1>2. CASE Reconcile
  <2>1. CASE Start \/ AddFinalizer \/ AdvanceToWaiting
    BY <2>1, StartReady, AddFinalizerReady, CommittingReady
  <2>2. CASE Provisioning
    BY <2>2, ResolveReady, MarkersReady, LaunchingReady, CommittingReady DEF Provisioning
  <2>3. CASE Joining
    BY <2>3, CommittingReady, JoiningReady DEF Joining
  <2>4. CASE Releasing
    BY <2>4, CleanupReady, CommittingReady DEF Releasing
  <2> QED
    BY <1>2, <2>1, <2>2, <2>3, <2>4, DeletingReady DEF Reconcile
<1> QED
  BY <1>1, <1>2, UserReady, CloudReady DEF Next

\* A Node called Ready is in the cluster under the management finalizer: reconcileJoining
\* stamps it before it records the phase, and handleDelete, which alone takes it away,
\* works on no copy that hides a Ready resource behind it.
THEOREM ReadyMeansStamped == Spec => []ReadyNodeStamped
<1>1. Init => AllInv /\ ReadyInv
  BY TypeInit, InitInv, SettledInit, ReadyInit DEF AllInv
<1>2. AllInv /\ ReadyInv /\ [Next]_vars => AllInv' /\ ReadyInv'
  BY SettledStep, ReadyStep
<1>3. AllInv /\ ReadyInv => ReadyNodeStamped
  <2> SUFFICES ASSUME AllInv, ReadyInv, store.exists, ~store.deleting, store.phase = "Ready"
               PROVE  node.exists /\ node.finalizer
    BY DEF ReadyNodeStamped
  <2>1. store \in Versions
    BY StoreSeen DEF AllInv, TypeInv
  <2>2. store.finalizer
    BY <2>1 DEF ReadyInv, SeenReady, UntouchedEmpty
  <2> QED
    BY <2>1, <2>2 DEF ReadyInv, SeenReady, AdvancedStamped, Advanced, Managed, Stamp
<1> QED
  BY <1>1, <1>2, <1>3, PTL DEF Spec

-----------------------------------------------------------------------------
(* A Ready resource stays one until it is deleted.                         *)

\* The instance was seen running.
LatePhase == {"Bootstrapping", "RegisteringNode", "PrePullingImages", "Ready"}

Late(v) == v.exists /\ v.phase \in LatePhase

LiveLate(v) == Late(v) /\ ~v.deleting

\* What an earlier version v and a later one w have to do with each other: the
\* wait for the instance comes just before, only a deletion ends a late phase,
\* and what is made anew after a deletion is not late while that is in view.
Precedes(v, w) ==
    /\ Late(w) => Late(v) \/ (v.exists /\ v.phase = "WaitingForInstance")
    /\ LiveLate(v) => Late(w)
    /\ v.deleting => ~LiveLate(w)

LateOrder == \A j, k \in 0..Len(stream) : j < k => Precedes(At(j), At(k))

\* reconcileAWSProvisioning and reconcileGCPProvisioning, from the dispatch on.
ProvisionPC == {"resolve", "validating", "configureVPN", "connectVPN", "register",
                "launch", "record", "persist", "fail"}

\* Where a late version may be written.
LatePC == {"poll", "join", "joined", "markReady"}

\* Where handleDelete has set the phase of its copy.
DeletingPC == {"deleteNode", "terminate", "clearIID", "unfinalize"}

\* What a reconcile can still see of the resource.
ViewInv ==
    /\ pc \in ProvisionPC => \A v \in Versions : ~Late(v)
    /\ InDelete => \A v \in Versions : ~LiveLate(v)
    /\ pc = "prepull" => \A v \in Versions : Late(v)

\* A copy the server would accept has the stored phase, and if it may be written
\* back late, the cache holds that version and no other is on its way.
FreshCopyInv ==
    /\ locFresh /\ pc \in LatePC \cup {"addFinalizer", "advance", "retry"}
         => loc.phase = store.phase
    /\ locFresh /\ pc \in LatePC => stream = <<>>

\* The phase of the copy is the one it was dispatched on.
CopyPhaseInv ==
    /\ pc = "advance" => loc.phase \in {"Empty", "Validating", "ConfiguringVPN",
                                        "CreatingInstance"}
    /\ pc = "poll" => loc.phase = "WaitingForInstance"
    /\ pc \in {"join", "joined"} => loc.phase \in {"Bootstrapping", "RegisteringNode"}
    /\ pc = "markReady" => loc.phase \in LatePhase
    /\ pc = "retry" => loc.phase = "Failed"
    /\ pc \in DeletingPC \/ (pc \in SharedPC /\ loc.deleting) => loc.phase = "Deleting"

LatePlaces == ViewInv /\ FreshCopyInv /\ CopyPhaseInv

LateInv == LateOrder /\ LatePlaces
-----------------------------------------------------------------------------
(* The order of the versions.                                              *)

\* Precedes, as a relation.
Successions == {p \in Object \X Object : Precedes(p[1], p[2])}

LEMMA LateOrderPairs ==
    ApiType => (LateOrder <=> Ordered(Successions))
<1>1. ASSUME NEW v \in Object, NEW w \in Object
      PROVE  Precedes(v, w) <=> <<v, w>> \in Successions
  BY DEF Successions
<1> SUFFICES ASSUME ApiType
             PROVE  LateOrder <=> Ordered(Successions)
  OBVIOUS
<1>2. \A k \in 0..Len(stream) : At(k) \in Object
  BY VersionsAt
<1> QED
  BY <1>1, <1>2 DEF LateOrder, Ordered

\* Nothing is written, or what follows from all that is in view.
Matures == Quiet \/ \E o \in Object : Write(o) /\ \A v \in Versions : Precedes(v, o)

LEMMA MaturesOrder ==
    ASSUME ApiInv, LateOrder, Matures
    PROVE  LateOrder'
<1>1. ApiType /\ CacheCoherent
  BY DEF ApiInv
<1>2. Ordered(Successions)
  BY <1>1, LateOrderPairs
<1>3. CASE Quiet
  <2>1. ApiType'
    BY <1>1, <1>3, DeliverFacts, RelistFacts DEF Quiet, ApiType, apiVars
  <2>2. Ordered(Successions)'
    BY <1>1, <1>2, <1>3, ReadPairs DEF Quiet
  <2>3. (ApiType => (LateOrder <=> Ordered(Successions)))'
    BY LateOrderPairs, PTL
  <2> QED
    BY <2>1, <2>2, <2>3
<1>4. CASE \E o \in Object : Write(o) /\ \A v \in Versions : Precedes(v, o)
  <2>1. PICK o \in Object : Write(o) /\ \A v \in Versions : Precedes(v, o)
    BY <1>4
  <2>2. ApiType'
    BY <1>1, <2>1, WriteFacts
  <2>3. \A v \in Versions : <<v, o>> \in Successions
    BY <1>1, <2>1, VersionsAt DEF Successions
  <2>4. Ordered(Successions)'
    BY <1>1, <1>2, <2>1, <2>3, WritePairs
  <2>5. (ApiType => (LateOrder <=> Ordered(Successions)))'
    BY LateOrderPairs, PTL
  <2> QED
    BY <2>2, <2>4, <2>5
<1> QED
  BY <1>3, <1>4 DEF Matures
-----------------------------------------------------------------------------
(* What may be written.                                                    *)

\* The phase stays late or stays early, and nothing comes back to life.
Keeps(o) == (Late(o) <=> Late(store)) /\ (LiveLate(o) => LiveLate(store))

\* The stored version follows from every other.
LEMMA StorePreceded ==
    ASSUME ApiInv, LateOrder, NEW v \in Versions
    PROVE  v = store \/ Precedes(v, store)
<1>1. Len(stream) \in Nat /\ store = At(Len(stream))
  BY StoreLast
<1>2. PICK k \in 0..Len(stream) : v = At(k)
  BY VersionsAt DEF ApiInv
<1>3. CASE k # Len(stream)
  <2>1. k < Len(stream) /\ Len(stream) \in 0..Len(stream)
    BY <1>1, <1>3
  <2> QED
    BY <1>1, <1>2, <2>1 DEF LateOrder
<1> QED
  BY <1>1, <1>2, <1>3

\* So does a version that keeps its phase.
LEMMA KeepsMatures ==
    ASSUME ApiInv, LateOrder, NEW o \in Object, Write(o), Keeps(o)
    PROVE  Matures
<1>1. ASSUME NEW v \in Versions PROVE Precedes(v, o)
  BY StorePreceded DEF Precedes, Keeps, LiveLate
<1> QED
  BY <1>1 DEF Matures

\* An early version keeps the order where the stored one is early.
LEMMA EarlyMatures ==
    ASSUME ApiInv, LateOrder, NEW o \in Object, Write(o), ~Late(store), ~Late(o)
    PROVE  Matures
  BY KeepsMatures DEF Keeps, LiveLate

\* An early version keeps the order where nothing late is alive.
LEMMA UnliveMatures ==
    ASSUME NEW o \in Object, Write(o), ~Late(o), \A v \in Versions : ~LiveLate(v)
    PROVE  Matures
  BY DEF Matures, Precedes, LiveLate

\* A step that writes what follows, and lets the reconcile see no more than it may.
LEMMA LateReturn ==
    ASSUME AllInv, LateInv, Matures, Return
    PROVE  LateInv'
<1>1. pc' = "idle"
  BY DEF Return
<1>2. LateOrder'
  BY MaturesOrder DEF AllInv, TypeInv, LateInv
<1>3. LatePlaces'
  BY <1>1 DEF LatePlaces, ViewInv, FreshCopyInv, CopyPhaseInv, InDelete, DeletePC, SharedPC,
    ProvisionPC, LatePC, DeletingPC
<1> QED
  BY <1>2, <1>3 DEF LateInv

\* A reconcile that returns without a write.
LEMMA LateQuietReturn ==
    ASSUME AllInv, LateInv, UNCHANGED apiVars, Return
    PROVE  LateInv'
  BY LateReturn DEF Matures, Quiet

\* One that goes on without a write sees the same.
LEMMA LateMoves ==
    ASSUME AllInv, LateInv, UNCHANGED apiVars, LatePlaces'
    PROVE  LateInv'
  BY MaturesOrder DEF AllInv, TypeInv, LateInv, Matures, Quiet

\* Within provisioning it looks at nothing but the absence of late versions.
LEMMA LateProvisions ==
    ASSUME AllInv, LateInv, pc \in ProvisionPC, pc' \in ProvisionPC, Matures,
           \A v \in Versions' : ~Late(v)
    PROVE  LateInv'
<1>1. LateOrder'
  BY MaturesOrder DEF AllInv, TypeInv, LateInv
<1>2. LatePlaces'
  BY DEF LatePlaces, ViewInv, FreshCopyInv, CopyPhaseInv, InDelete, DeletePC, SharedPC,
    ProvisionPC, LatePC, DeletingPC
<1> QED
  BY <1>1, <1>2 DEF LateInv
-----------------------------------------------------------------------------
(* Reconciles that write and return.                                       *)

\* The write of a copy, accepted or lost.
LEMMA CommitMatures ==
    ASSUME AllInv, LateInv, NEW o \in Object, Commit(o) \/ Lost,
           locFresh => \A v \in Versions : Precedes(v, o)
    PROVE  Matures
  BY DEF Commit, Lost, Matures, Quiet

\* What provisioning writes, where nothing late is in view.
LEMMA ProvisionMatures ==
    ASSUME AllInv, LateInv, pc \in ProvisionPC, NEW o \in Object, Commit(o) \/ Lost,
           ~Late(o)
    PROVE  Matures
<1>1. \A v \in Versions : ~Late(v)
  BY DEF LateInv, LatePlaces, ViewInv
<1> QED
  BY <1>1, CommitMatures DEF Precedes, LiveLate

\* An early phase over the same early phase.
LEMMA EarlyCommit ==
    ASSUME AllInv, LateInv, NEW o \in Object, Commit(o) \/ Lost, ~Late(o),
           locFresh => loc.phase = store.phase, loc.phase \notin LatePhase
    PROVE  Matures
<1>1. CASE Lost
  BY <1>1 DEF Lost, Matures, Quiet
<1>2. CASE Commit(o)
  BY <1>2, EarlyMatures DEF Commit, Late, AllInv, TypeInv, LateInv
<1> QED
  BY <1>1, <1>2

\* A late phase, written where the cache is current.
LEMMA LateCommit ==
    ASSUME AllInv, LateInv, pc \in LatePC, NEW o \in Object, Commit(o) \/ Lost,
           o.exists = loc.exists, o.deleting = loc.deleting, o.phase \in LatePhase
    PROVE  Matures
<1>1. CASE Lost
  BY <1>1 DEF Lost, Matures, Quiet
<1>2. CASE Commit(o)
  <2>1. locFresh /\ Write(o)
    BY <1>2 DEF Commit
  <2>2. /\ Versions = {store} /\ loc.phase = store.phase
        /\ loc.phase \in LatePhase \cup {"WaitingForInstance"}
    BY <2>1, StoreSeen DEF LateInv, LatePlaces, FreshCopyInv, CopyPhaseInv, LatePC, LatePhase,
      CacheCurrent, AllInv, TypeInv
  <2>3. loc.exists /\ store.exists /\ loc.deleting = store.deleting
    BY <2>1 DEF AllInv, TypeInv, CtlType, LocalsInv, Inv, FreshInv, LatePC
  <2>4. Precedes(store, o)
    BY <2>2, <2>3 DEF Precedes, Late, LiveLate
  <2> QED
    BY <2>1, <2>2, <2>4 DEF Matures
<1> QED
  BY <1>1, <1>2

\* The copies that the actions write are well-formed versions.
LEMMA PhaseCopy ==
    ASSUME AllInv, NEW phase \in Phase
    PROVE  LET o == [loc EXCEPT !.phase = phase]
           IN  /\ o \in Object /\ o.phase = phase
               /\ o.exists = loc.exists /\ o.deleting = loc.deleting
  BY DEF AllInv, TypeInv, CtlType, Object

LEMMA CommittingLate ==
    ASSUME AllInv, ReadyInv, LateInv,
           \/ AddFinalizer \/ AdvanceToWaiting \/ PersistInstanceID \/ Fail
           \/ ResetAfterFailure
    PROVE  LateInv'
<1>1. Return
  BY DEF AddFinalizer, AdvanceToWaiting, PersistInstanceID, Fail, ResetAfterFailure
<1>2. CASE AdvanceToWaiting
  <2> DEFINE o == [loc EXCEPT !.phase = "WaitingForInstance"]
  <2>1. o \in Object /\ o.phase = "WaitingForInstance"
    BY PhaseCopy DEF Phase
  <2>2. /\ locFresh => loc.phase = store.phase
        /\ loc.phase \notin LatePhase
    BY <1>2 DEF AdvanceToWaiting, LateInv, LatePlaces, FreshCopyInv, CopyPhaseInv, LatePhase
  <2>3. ~Late(o) /\ (Commit(o) \/ Lost)
    BY <1>2, <2>1 DEF AdvanceToWaiting, Late, LatePhase
  <2> QED
    BY <1>1, <2>1, <2>2, <2>3, EarlyCommit, LateReturn
<1>3. CASE AddFinalizer
  <2> DEFINE o == [loc EXCEPT !.finalizer = TRUE]
  <2>1. o \in Object /\ o.phase = loc.phase
    BY DEF AllInv, TypeInv, CtlType, Object
  <2>2. /\ locFresh => loc.phase = store.phase
        /\ loc.phase \notin LatePhase
    BY <1>3 DEF AddFinalizer, LateInv, LatePlaces, FreshCopyInv, ReadyInv, PlaceReady, LatePhase
  <2>3. ~Late(o) /\ (Commit(o) \/ Lost)
    BY <1>3, <2>1, <2>2 DEF AddFinalizer, Late
  <2> QED
    BY <1>1, <2>1, <2>2, <2>3, EarlyCommit, LateReturn
<1>4. CASE ResetAfterFailure
  <2> DEFINE o == [loc EXCEPT !.phase = "Empty", !.vpnIP = None]
  <2>1. o \in Object /\ o.phase = "Empty"
    BY DEF AllInv, TypeInv, CtlType, Object, Phase
  <2>2. /\ locFresh => loc.phase = store.phase
        /\ loc.phase \notin LatePhase
    BY <1>4 DEF ResetAfterFailure, LateInv, LatePlaces, FreshCopyInv, CopyPhaseInv, LatePhase
  <2>3. ~Late(o) /\ (Commit(o) \/ Lost)
    BY <1>4, <2>1 DEF ResetAfterFailure, Late, LatePhase
  <2> QED
    BY <1>1, <2>1, <2>2, <2>3, EarlyCommit, LateReturn
<1>5. CASE Fail
  <2> DEFINE o == [loc EXCEPT !.phase = "Failed"]
  <2>1. o \in Object /\ o.phase = "Failed"
    BY PhaseCopy DEF Phase
  <2>2. pc \in ProvisionPC /\ ~Late(o) /\ (Commit(o) \/ Lost)
    BY <1>5, <2>1 DEF Fail, Late, LatePhase, ProvisionPC
  <2> QED
    BY <1>1, <2>1, <2>2, ProvisionMatures, LateReturn
<1>6. CASE PersistInstanceID
  <2> DEFINE o == [loc EXCEPT !.phase = "WaitingForInstance", !.iid = launched,
                              !.vpnIP = alloc]
  <2>1. o \in Object /\ o.phase = "WaitingForInstance"
    BY DEF AllInv, TypeInv, CtlType, Object, Phase
  <2>2. pc \in ProvisionPC /\ ~Late(o) /\ (Commit(o) \/ Lost)
    BY <1>6, <2>1 DEF PersistInstanceID, Late, LatePhase, ProvisionPC
  <2> QED
    BY <1>1, <2>1, <2>2, ProvisionMatures, LateReturn
<1> QED
  BY <1>2, <1>3, <1>4, <1>5, <1>6

\* The joining reconcile works on the newest version, or writes nothing.
LEMMA JoinCommittingLate ==
    ASSUME AllInv, LateInv, PollInstance \/ AwaitNode \/ RecordJoin \/ MarkReady
    PROVE  LateInv'
<1>1. Return /\ pc \in LatePC
  BY DEF PollInstance, AwaitNode, RecordJoin, MarkReady, LatePC
<1>2. ASSUME NEW phase \in LatePhase, Commit([loc EXCEPT !.phase = phase]) \/ Lost
      PROVE  LateInv'
  <2>1. phase \in Phase
    BY DEF LatePhase, Phase
  <2> DEFINE o == [loc EXCEPT !.phase = phase]
  <2>2. /\ o \in Object /\ o.phase = phase
        /\ o.exists = loc.exists /\ o.deleting = loc.deleting
    BY <2>1, PhaseCopy
  <2>3. Matures
    BY <1>1, <1>2, <2>2, LateCommit
  <2> QED
    BY <1>1, <2>3, LateReturn
<1>3. CASE PollInstance
  <2>1. CASE Commit([loc EXCEPT !.phase = "Bootstrapping"]) \/ Lost
    BY <1>2, <2>1 DEF LatePhase
  <2>2. CASE UNCHANGED apiVars
    BY <1>1, <2>2, LateQuietReturn
  <2> QED
    BY <1>3, <2>1, <2>2 DEF PollInstance
<1>4. CASE AwaitNode
  BY <1>2, <1>4 DEF AwaitNode, LatePhase
<1>5. CASE MarkReady
  BY <1>2, <1>5 DEF MarkReady, LatePhase
<1>6. CASE RecordJoin
  <2>1. CASE Commit([loc EXCEPT !.phase = PhaseAfterJoin]) \/ Lost
    <3>1. PhaseAfterJoin \in LatePhase
      BY DEF PhaseAfterJoin, LatePhase
    <3> QED
      BY <1>2, <2>1, <3>1
  <2>2. CASE locFresh /\ Write([loc EXCEPT !.phase = "Ready"])
    <3> DEFINE o == [loc EXCEPT !.phase = "Ready"]
    <3>1. /\ o \in Object /\ o.phase = "Ready"
          /\ o.exists = loc.exists /\ o.deleting = loc.deleting
      BY PhaseCopy DEF Phase
    <3>2. Versions = {store} /\ Late(store) /\ loc.deleting = store.deleting
      <4>1. stream = <<>> /\ loc.phase = store.phase /\ loc.phase \in LatePhase
        BY <1>6, <2>2 DEF RecordJoin, LateInv, LatePlaces, FreshCopyInv, CopyPhaseInv, LatePC,
          LatePhase
      <4>2. loc.exists /\ loc.exists = store.exists /\ loc.deleting = store.deleting
        BY <1>6, <2>2 DEF RecordJoin, AllInv, TypeInv, CtlType, LocalsInv, Inv, FreshInv
      <4> QED
        BY <4>1, <4>2, StoreSeen DEF CacheCurrent, AllInv, TypeInv, Late
    <3>3. Precedes(store, o)
      <4>1. loc.exists
        BY <1>6 DEF RecordJoin, AllInv, TypeInv, CtlType, LocalsInv
      <4> QED
        BY <3>1, <3>2, <4>1 DEF Precedes, Late, LiveLate, LatePhase
    <3>4. Matures
      BY <2>2, <3>1, <3>2, <3>3 DEF Matures
    <3> QED
      BY <1>1, <3>4, LateReturn
  <2> QED
    BY <1>6, <2>1, <2>2 DEF RecordJoin
<1> QED
  BY <1>3, <1>4, <1>5, <1>6
-----------------------------------------------------------------------------
(* Where a reconcile begins, and how it goes on.                           *)

\* What is behind the copy a reconcile begins with.
LEMMA CachedPrecedes ==
    ASSUME AllInv, LateInv, NEW v \in Versions
    PROVE  v = cached \/ Precedes(cached, v)
<1>1. Len(stream) \in Nat
  BY DEF AllInv, TypeInv, ApiInv, ApiType
<1>2. PICK k \in 0..Len(stream) : v = At(k)
  BY VersionsAt DEF AllInv, TypeInv, ApiInv
<1>3. CASE k # 0
  <2>1. 0 \in 0..Len(stream) /\ 0 < k
    BY <1>1, <1>3
  <2> QED
    BY <1>2, <2>1 DEF LateInv, LateOrder, At
<1>4. CASE k = 0
  BY <1>2, <1>4 DEF At
<1> QED
  BY <1>3, <1>4

\* A copy read while the cache is current has the stored phase.
LEMMA ReadPhase ==
    ASSUME AllInv, Read
    PROVE  loc' = cached /\ (locFresh' => stream = <<>> /\ loc' = store)
  BY DEF AllInv, TypeInv, ApiInv, CacheCoherent, Read, CacheCurrent

LEMMA StartLate == AllInv /\ LateInv /\ Start => LateInv'
<1> SUFFICES ASSUME AllInv, LateInv, Start PROVE LateInv'
  OBVIOUS
<1>1. UNCHANGED apiVars /\ pc = "idle" /\ cached.exists /\ pc' = Dispatch(cached)
  BY DEF Start
<1>2. Versions' = Versions /\ cached \in Versions /\ UNCHANGED <<store, stream>>
  BY <1>1 DEF Versions, apiVars
<1>3. CASE pc' = "idle"
  <2>1. LatePlaces'
    BY <1>3 DEF LatePlaces, ViewInv, FreshCopyInv, CopyPhaseInv, InDelete, DeletePC, SharedPC,
      ProvisionPC, LatePC, DeletingPC
  <2> QED
    BY <1>1, <2>1, LateMoves
<1>4. CASE pc' # "idle"
  <2>1. loc' = cached /\ (locFresh' => stream = <<>> /\ loc' = store)
    BY <1>4, ReadPhase DEF Start
  <2>2. /\ pc' \in {"delete", "addFinalizer", "resolve", "advance", "poll", "join",
                    "prepull", "cleanup"}
        /\ pc' = "delete" <=> cached.deleting
        /\ pc' = "resolve" => cached.phase \in {"Empty", "Validating"}
        /\ pc' = "advance" => cached.phase \in {"Empty", "Validating", "ConfiguringVPN",
                                                "CreatingInstance"}
        /\ pc' = "poll" => cached.phase = "WaitingForInstance"
        /\ pc' = "join" => cached.phase \in {"Bootstrapping", "RegisteringNode"}
        /\ pc' = "prepull" => cached.phase = "PrePullingImages" /\ ~cached.deleting
    BY <1>1, <1>4 DEF Dispatch
  <2>3. ViewInv'
    <3>1. ASSUME pc' \in ProvisionPC, NEW v \in Versions PROVE ~Late(v)
      <4>1. pc' = "resolve"
        BY <2>2, <3>1 DEF ProvisionPC
      <4> QED
        BY <2>2, <4>1, CachedPrecedes DEF Precedes, Late, LatePhase
    <3>2. ASSUME InDelete', NEW v \in Versions PROVE ~LiveLate(v)
      <4>1. cached.deleting
        BY <2>1, <2>2, <3>2 DEF InDelete, DeletePC, SharedPC
      <4> QED
        BY <4>1, CachedPrecedes DEF Precedes, LiveLate
    <3>3. ASSUME pc' = "prepull", NEW v \in Versions PROVE Late(v)
      BY <1>1, <2>2, <3>3, CachedPrecedes DEF Precedes, LiveLate, Late, LatePhase
    <3> QED
      BY <1>2, <3>1, <3>2, <3>3 DEF ViewInv, Late, LiveLate
  <2>4. FreshCopyInv'
    BY <1>2, <2>1 DEF FreshCopyInv
  <2>5. CopyPhaseInv'
    BY <2>1, <2>2 DEF CopyPhaseInv, DeletingPC, SharedPC
  <2> QED
    BY <1>1, <2>3, <2>4, <2>5, LateMoves DEF LatePlaces
<1> QED
  BY <1>3, <1>4

\* A progress marker keeps provisioning where nothing late is in view.
LEMMA MarkerLate ==
    ASSUME AllInv, LateInv, pc \in ProvisionPC, NEW phase \in Phase \ LatePhase,
           NEW next \in ProvisionPC, ProgressMarker(phase, next)
    PROVE  LateInv'
<1> DEFINE o == [loc EXCEPT !.phase = phase]
<1>1. o \in Object /\ o.phase = phase
  BY PhaseCopy
<1>2. ~Late(o) /\ (Commit(o) \/ Lost) /\ (Return \/ pc' = next)
  BY <1>1 DEF Late, ProgressMarker, Goto
<1>3. Matures
  BY <1>1, <1>2, ProvisionMatures
<1>4. \A v \in Versions' : ~Late(v)
  <2>1. Versions' \subseteq Versions \cup {o}
    BY <1>1, <1>2, WriteFacts DEF Commit, Lost, Versions, apiVars, AllInv, TypeInv, ApiInv
  <2> QED
    BY <1>2, <2>1 DEF LateInv, LatePlaces, ViewInv
<1> QED
  BY <1>2, <1>3, <1>4, LateReturn, LateProvisions

LEMMA MarkersLate ==
    ASSUME AllInv, LateInv, MarkValidating \/ MarkConfiguringVPN \/ ConnectVPN
    PROVE  LateInv'
<1>1. CASE MarkValidating
  BY <1>1, MarkerLate DEF MarkValidating, ProvisionPC, Phase, LatePhase
<1>2. CASE MarkConfiguringVPN
  <2>1. CASE ProgressMarker("ConfiguringVPN", "connectVPN")
    BY <1>2, <2>1, MarkerLate DEF MarkConfiguringVPN, ProvisionPC, Phase, LatePhase
  <2>2. CASE Return /\ UNCHANGED apiVars
    BY <2>2, LateQuietReturn
  <2> QED
    BY <1>2, <2>1, <2>2 DEF MarkConfiguringVPN
<1>3. CASE ConnectVPN
  <2>1. CASE ProgressMarker("CreatingInstance", "register")
    BY <1>3, <2>1, MarkerLate DEF ConnectVPN, ProvisionPC, Phase, LatePhase
  <2>2. CASE Return /\ UNCHANGED apiVars
    BY <2>2, LateQuietReturn
  <2> QED
    BY <1>3, <2>1, <2>2 DEF ConnectVPN
<1> QED
  BY <1>1, <1>2, <1>3

\* The steps in between leave the resource alone.
LEMMA LaunchingLate ==
    ASSUME AllInv, LateInv, RegisterPeer \/ LaunchInstance \/ RecordAllocation
    PROVE  LateInv'
<1>1. UNCHANGED apiVars /\ pc \in ProvisionPC
  BY DEF RegisterPeer, LaunchInstance, RecordAllocation, ProvisionPC
<1>2. Return \/ pc' \in ProvisionPC
  BY DEF RegisterPeer, LaunchInstance, RecordAllocation, Goto, ProvisionPC
<1>3. \A v \in Versions' : ~Late(v)
  BY <1>1 DEF LateInv, LatePlaces, ViewInv, Versions, apiVars
<1> QED
  BY <1>1, <1>2, <1>3, LateQuietReturn, LateProvisions DEF Matures, Quiet

\* The defaults are patched into an early version (ResolveDefaults).
LEMMA ResolveLate == AllInv /\ LateInv /\ ResolveDefaults => LateInv'
<1> SUFFICES ASSUME AllInv, LateInv, ResolveDefaults PROVE LateInv'
  OBVIOUS
<1>1. pc \in ProvisionPC /\ store \in Versions /\ \A v \in Versions : ~Late(v)
  BY StoreSeen DEF ResolveDefaults, ProvisionPC, LateInv, LatePlaces, ViewInv, AllInv, TypeInv
<1>2. CASE Write([store EXCEPT !.resolved = TRUE]) /\ Return
  <2> DEFINE o == [store EXCEPT !.resolved = TRUE]
  <2>1. o \in Object /\ o.exists = store.exists /\ o.phase = store.phase
    BY DEF AllInv, TypeInv, ApiInv, ApiType, Object
  <2>2. Matures
    BY <1>1, <1>2, <2>1, EarlyMatures DEF Late, AllInv, TypeInv, LateInv
  <2> QED
    BY <1>2, <2>2, LateReturn
<1>3. CASE UNCHANGED apiVars /\ pc' \in {"validating", "fail"}
  BY <1>1, <1>3, LateProvisions DEF Matures, Quiet, Versions, apiVars, ProvisionPC
<1> QED
  BY <1>2, <1>3 DEF ResolveDefaults, Goto

\* StampNode changes the name in its copy only; the pre-pull ends on a copy just read.
LEMMA JoiningLate == AllInv /\ LateInv /\ (StampNode \/ PrepullImages) => LateInv'
<1> SUFFICES ASSUME AllInv, LateInv, StampNode \/ PrepullImages PROVE LateInv'
  OBVIOUS
<1>1. UNCHANGED apiVars
  BY DEF StampNode, PrepullImages
<1>2. CASE Return
  BY <1>1, <1>2, LateQuietReturn
<1>3. CASE StampNode /\ ~Return
  <2>1. pc = "join" /\ pc' = "joined" /\ loc' = [loc EXCEPT !.named = TRUE] /\ UNCHANGED locFresh
    BY <1>3 DEF StampNode, Goto
  <2>2. loc'.phase = loc.phase /\ UNCHANGED <<store, stream>>
    BY <1>1, <2>1 DEF AllInv, TypeInv, CtlType, Object, apiVars
  <2>3. ViewInv'
    BY <2>1 DEF ViewInv, InDelete, DeletePC, SharedPC, ProvisionPC
  <2>4. FreshCopyInv' /\ CopyPhaseInv'
    BY <2>1, <2>2 DEF LateInv, LatePlaces, FreshCopyInv, CopyPhaseInv, LatePC, DeletingPC,
      SharedPC
  <2> QED
    BY <1>1, <2>3, <2>4, LateMoves DEF LatePlaces
<1>4. CASE PrepullImages /\ ~Return
  <2>1. pc = "prepull" /\ pc' = "markReady" /\ Read
    BY <1>4 DEF PrepullImages, BeginMarkReady, Goto
  <2>2. loc' = cached /\ (locFresh' => stream = <<>> /\ loc' = store)
    BY <2>1, ReadPhase
  <2>3. Late(cached) /\ UNCHANGED <<store, stream>>
    BY <1>1, <2>1 DEF LateInv, LatePlaces, ViewInv, Versions, apiVars
  <2>4. ViewInv'
    BY <2>1 DEF ViewInv, InDelete, DeletePC, SharedPC, ProvisionPC
  <2>5. FreshCopyInv' /\ CopyPhaseInv'
    BY <2>1, <2>2, <2>3 DEF FreshCopyInv, CopyPhaseInv, LatePC, DeletingPC, SharedPC, Late
  <2> QED
    BY <1>1, <2>4, <2>5, LateMoves DEF LatePlaces
<1> QED
  BY <1>2, <1>3, <1>4
-----------------------------------------------------------------------------
(* Releasing and deleting.                                                 *)

\* handleDelete goes on with its copy as it was.
LEMMA LateDeletes ==
    ASSUME AllInv, LateInv, InDelete, Matures, loc'.phase = "Deleting",
           pc' \in DeletingPC \cup SharedPC, \A v \in Versions' : ~LiveLate(v)
    PROVE  LateInv'
<1>1. LateOrder'
  BY MaturesOrder DEF AllInv, TypeInv, LateInv
<1>2. LatePlaces'
  BY DEF LatePlaces, ViewInv, FreshCopyInv, CopyPhaseInv, DeletingPC, SharedPC, ProvisionPC,
    LatePC
<1> QED
  BY <1>1, <1>2 DEF LateInv

\* The same, without a write.
LEMMA LateDeletesQuietly ==
    ASSUME AllInv, LateInv, InDelete, UNCHANGED apiVars, loc'.phase = "Deleting",
           pc' \in DeletingPC \cup SharedPC
    PROVE  LateInv'
<1>1. \A v \in Versions' : ~LiveLate(v)
  BY DEF LateInv, LatePlaces, ViewInv, Versions, apiVars
<1> QED
  BY <1>1, LateDeletes DEF Matures, Quiet

\* cleanupVPNPeer, for the Failed branch and for handleDelete.
LEMMA CleanupLate == AllInv /\ LateInv /\ (CleanupServer \/ CleanupNetConfig) => LateInv'
<1> SUFFICES ASSUME AllInv, LateInv, CleanupServer \/ CleanupNetConfig PROVE LateInv'
  OBVIOUS
<1>1. pc \in SharedPC /\ UNCHANGED apiVars
  BY DEF CleanupServer, CleanupNetConfig, SharedPC
<1>2. CASE pc' \in {"release", "unfinalize"} /\ Keep /\ loc.deleting
  <2>1. InDelete /\ loc' = loc /\ loc.phase = "Deleting"
    BY <1>1, <1>2 DEF InDelete, Keep, LateInv, LatePlaces, CopyPhaseInv
  <2> QED
    BY <1>1, <1>2, <2>1, LateDeletesQuietly DEF DeletingPC, SharedPC
<1>3. CASE pc' = "release" /\ Keep /\ ~loc.deleting
  <2>1. LatePlaces'
    BY <1>3 DEF LatePlaces, ViewInv, FreshCopyInv, CopyPhaseInv, InDelete, DeletePC, SharedPC,
      ProvisionPC, LatePC, DeletingPC, Keep
  <2> QED
    BY <1>1, <2>1, LateMoves
<1>4. CASE pc' = "retry" /\ Read /\ cached.phase = "Failed"
  <2>1. loc' = cached /\ (locFresh' => stream = <<>> /\ loc' = store)
    BY <1>4, ReadPhase
  <2>2. LatePlaces'
    BY <1>1, <1>4, <2>1 DEF LatePlaces, ViewInv, FreshCopyInv, CopyPhaseInv, InDelete,
      DeletePC, SharedPC, ProvisionPC, LatePC, DeletingPC, apiVars
  <2> QED
    BY <1>1, <2>2, LateMoves
<1>5. CASE Return
  BY <1>1, <1>5, LateQuietReturn
<1> QED
  BY <1>2, <1>3, <1>4, <1>5 DEF CleanupServer, CleanupNetConfig, AfterCleanup, Goto

\* handleDelete writes over nothing that is late and alive.
LEMMA DeletingLate == AllInv /\ LateInv /\ Deleting => LateInv'
<1> SUFFICES ASSUME AllInv, LateInv, Deleting PROVE LateInv'
  OBVIOUS
<1>1. InDelete /\ \A v \in Versions : ~LiveLate(v)
  BY DEF Deleting, BeginDelete, DeleteNode, ConfirmNodeGone, TerminateInstance,
    ClearInstanceID, RemoveFinalizer, InDelete, DeletePC, LateInv, LatePlaces, ViewInv
<1>2. ASSUME NEW o \in Object, Commit(o) \/ Lost, ~Late(o)
      PROVE  Matures /\ \A v \in Versions' : ~LiveLate(v)
  <2>1. Matures
    BY <1>1, <1>2, UnliveMatures DEF Commit, Lost, Matures, Quiet
  <2>2. Versions' \subseteq Versions \cup {o}
    BY <1>2, WriteFacts DEF Commit, Lost, Versions, apiVars, AllInv, TypeInv, ApiInv
  <2> QED
    BY <1>1, <1>2, <2>1, <2>2 DEF LiveLate
<1>3. CASE BeginDelete
  <2> DEFINE o == [loc EXCEPT !.phase = "Deleting"]
  <2>1. o \in Object /\ o.phase = "Deleting"
    BY PhaseCopy DEF Phase
  <2>2. (Commit(o) \/ Lost) /\ ~Late(o) /\ loc' = o /\ pc' = "deleteNode"
    BY <1>3, <2>1 DEF BeginDelete, Goto, Late, LatePhase
  <2> QED
    BY <1>1, <1>2, <2>1, <2>2, LateDeletes DEF DeletingPC
<1>4. CASE DeleteNode
  BY <1>4, LateQuietReturn DEF DeleteNode
<1>5. CASE ConfirmNodeGone
  <2>1. UNCHANGED apiVars /\ pc' \in {"cleanup", "terminate"} /\ loc' = loc
    BY <1>5 DEF ConfirmNodeGone, Goto, Keep
  <2>2. loc.phase = "Deleting"
    BY <1>5 DEF ConfirmNodeGone, LateInv, LatePlaces, CopyPhaseInv, DeletingPC
  <2> QED
    BY <1>1, <2>1, <2>2, LateDeletesQuietly DEF DeletingPC, SharedPC
<1>6. CASE TerminateInstance
  <2>1. CASE Return
    BY <1>6, <2>1, LateQuietReturn DEF TerminateInstance
  <2>2. CASE loc' = [loc EXCEPT !.iid = None] /\ pc' = "clearIID"
    <3>1. loc'.phase = loc.phase /\ loc.phase = "Deleting"
      BY <1>6, <2>2 DEF TerminateInstance, LateInv, LatePlaces, CopyPhaseInv, DeletingPC,
        AllInv, TypeInv, CtlType, Object
    <3> QED
      BY <1>1, <1>6, <2>2, <3>1, LateDeletesQuietly DEF TerminateInstance, DeletingPC
  <2> QED
    BY <1>6, <2>1, <2>2 DEF TerminateInstance, TerminateError, Goto
<1>7. CASE ClearInstanceID
  <2>1. loc \in Object /\ (Commit(loc) \/ Lost) /\ pc' = "cleanup" /\ loc' = loc
    BY <1>7 DEF ClearInstanceID, Goto, AllInv, TypeInv, CtlType
  <2>2. loc.phase = "Deleting"
    BY <1>7 DEF ClearInstanceID, LateInv, LatePlaces, CopyPhaseInv, DeletingPC
  <2> QED
    BY <1>1, <1>2, <2>1, <2>2, LateDeletes DEF Late, LatePhase, SharedPC
<1>8. CASE RemoveFinalizer
  <2> DEFINE o == [store EXCEPT !.finalizer = FALSE, !.exists = FALSE]
  <2>1. o \in Object /\ ~o.exists
    BY DEF AllInv, TypeInv, ApiInv, ApiType, Object
  <2>2. (Commit(o) \/ Lost) /\ ~Late(o) /\ Return
    BY <1>8, <2>1 DEF RemoveFinalizer, Late
  <2> QED
    BY <1>2, <2>1, <2>2, LateReturn
<1> QED
  BY <1>3, <1>4, <1>5, <1>6, <1>7, <1>8 DEF Deleting
-----------------------------------------------------------------------------
(* Users, the cloud, the cache and crashes.                                *)

\* Someone else's write keeps the phase, so no reconcile sees more than before.
LEMMA OthersKeepLate ==
    ASSUME AllInv, LateInv, NEW o \in Object, WriteByOther(o), Keeps(o)
    PROVE  LateInv'
<1>1. ApiInv /\ LateOrder /\ ApiType /\ CacheCoherent /\ store \in Versions
  BY StoreSeen DEF AllInv, TypeInv, ApiInv, LateInv
<1>2. LateOrder'
  BY <1>1, KeepsMatures, MaturesOrder DEF WriteByOther
<1>3. UNCHANGED <<pc, loc>> /\ ~locFresh' /\ Versions' \subseteq Versions \cup {o}
  BY <1>1, WriteFacts DEF WriteByOther
<1>4. ViewInv'
  BY <1>1, <1>3 DEF LateInv, LatePlaces, ViewInv, Keeps, InDelete
<1>5. FreshCopyInv' /\ CopyPhaseInv'
  BY <1>3 DEF LateInv, LatePlaces, FreshCopyInv, CopyPhaseInv
<1> QED
  BY <1>2, <1>4, <1>5 DEF LateInv, LatePlaces

\* Nor does the reconcile see more when nobody writes.
LEMMA OthersQuietLate ==
    ASSUME AllInv, LateInv, UNCHANGED apiVars \/ Deliver, UNCHANGED <<pc, loc, locFresh>>
    PROVE  LateInv'
<1>1. LateOrder'
  BY MaturesOrder DEF AllInv, TypeInv, LateInv, Matures, Quiet
<1>2. Versions' \subseteq Versions /\ store' = store /\ (stream = <<>> => stream' = <<>>)
  BY ReadOrder DEF AllInv, TypeInv, Settled, Deliver, apiVars
<1>3. LatePlaces'
  BY <1>2 DEF LateInv, LatePlaces, ViewInv, FreshCopyInv, CopyPhaseInv, InDelete
<1> QED
  BY <1>1, <1>3 DEF LateInv

LEMMA UserLate == AllInv /\ ReadyInv /\ LateInv /\ User => LateInv'
<1> SUFFICES ASSUME AllInv, ReadyInv, LateInv, User PROVE LateInv'
  OBVIOUS
<1>1. store \in Object /\ store \in Versions
  BY StoreSeen DEF AllInv, TypeInv, ApiInv, ApiType
<1>2. CASE UserCreates
  <2>1. PICK full \in BOOLEAN :
          WriteByOther([NoObject EXCEPT !.exists = TRUE, !.resolved = full])
    BY <1>2 DEF UserCreates
  <2> DEFINE o == [NoObject EXCEPT !.exists = TRUE, !.resolved = full]
  <2>2. o \in Object /\ o.phase = "Empty"
    BY DEF NoObject, Object, Phase
  <2>3. Keeps(o)
    BY <1>2, <2>2 DEF UserCreates, Keeps, Late, LiveLate, LatePhase
  <2> QED
    BY <2>1, <2>2, <2>3, OthersKeepLate
<1>3. CASE UserEdits
  BY <1>1, <1>3, OthersKeepLate DEF UserEdits, Keeps
<1>4. CASE UserDeletes
  <2>1. CASE store.finalizer
    <3> DEFINE o == [store EXCEPT !.deleting = TRUE]
    <3>1. o \in Object /\ o.deleting /\ o.exists = store.exists /\ o.phase = store.phase
      BY <1>1 DEF Object
    <3>2. Keeps(o)
      BY <3>1 DEF Keeps, Late, LiveLate
    <3> QED
      BY <1>4, <2>1, <3>1, <3>2, OthersKeepLate DEF UserDeletes
  <2>2. CASE ~store.finalizer
    <3> DEFINE o == [store EXCEPT !.deleting = TRUE, !.exists = FALSE]
    <3>1. o \in Object /\ ~o.exists
      BY <1>1 DEF Object
    <3>2. store.phase = "Empty"
      BY <1>1, <1>4, <2>2 DEF UserDeletes, ReadyInv, SeenReady, UntouchedEmpty
    <3>3. Keeps(o)
      BY <3>1, <3>2 DEF Keeps, Late, LiveLate, LatePhase
    <3> QED
      BY <1>4, <2>2, <3>1, <3>3, OthersKeepLate DEF UserDeletes
  <2> QED
    BY <2>1, <2>2
<1>5. CASE UserDeletesSecret \/ UserDeletesNode
  BY <1>5, OthersQuietLate DEF UserDeletesSecret, UserDeletesNode, ctlVars
<1> QED
  BY <1>2, <1>3, <1>4, <1>5 DEF User

LEMMA CloudLate == AllInv /\ LateInv /\ (CacheDelivers \/ Crash \/ Cloud) => LateInv'
<1> SUFFICES ASSUME AllInv, LateInv, CacheDelivers \/ Crash \/ Cloud PROVE LateInv'
  OBVIOUS
<1>1. CASE CacheDelivers
  BY <1>1, OthersQuietLate DEF CacheDelivers, ctlVars
<1>2. CASE Crash
  BY <1>2, LateReturn DEF Crash, Matures, Quiet
<1>3. CASE Cloud
  <2>1. UNCHANGED apiVars /\ UNCHANGED ctlVars
    BY <1>3 DEF Cloud, InstanceBoots, NodeRegisters, JobFinishes, JobExpires
  <2> QED
    BY <2>1, OthersQuietLate DEF ctlVars
<1> QED
  BY <1>1, <1>2, <1>3
-----------------------------------------------------------------------------
(* The theorem.                                                            *)

LEMMA LateInit == Init => LateInv
<1> SUFFICES ASSUME Init PROVE LateInv
  OBVIOUS
<1>1. stream = <<>> /\ pc = "idle"
  BY DEF Init
<1>2. LateOrder
  <2>1. \A j, k \in 0..Len(stream) : ~(j < k)
    BY <1>1
  <2> QED
    BY <2>1 DEF LateOrder
<1>3. LatePlaces
  BY <1>1 DEF LatePlaces, ViewInv, FreshCopyInv, CopyPhaseInv, InDelete, DeletePC, SharedPC,
    ProvisionPC, LatePC, DeletingPC
<1> QED
  BY <1>2, <1>3 DEF LateInv

LEMMA LateStep == AllInv /\ ReadyInv /\ LateInv /\ [Next]_vars => LateInv'
<1> SUFFICES ASSUME AllInv, ReadyInv, LateInv, [Next]_vars PROVE LateInv'
  OBVIOUS
<1>1. CASE UNCHANGED vars
  BY <1>1, OthersQuietLate DEF vars, ctlVars
<1>2. CASE Reconcile
  <2>1. CASE Start \/ AddFinalizer \/ AdvanceToWaiting
    BY <2>1, StartLate, CommittingLate
  <2>2. CASE Provisioning
    BY <2>2, ResolveLate, MarkersLate, LaunchingLate, CommittingLate DEF Provisioning
  <2>3. CASE Joining
    BY <2>3, JoinCommittingLate, JoiningLate DEF Joining
  <2>4. CASE Releasing
    BY <2>4, CleanupLate, CommittingLate DEF Releasing
  <2> QED
    BY <1>2, <2>1, <2>2, <2>3, <2>4, DeletingLate DEF Reconcile
<1> QED
  BY <1>1, <1>2, UserLate, CloudLate DEF Next

\* The step of ReadyIsFinal.
KeepsReady ==
    store.exists /\ store.phase = "Ready" /\ store'.exists
        => store'.phase \in {"Ready", "Deleting"}

\* A copy written back, where the stored phase is known.
LEMMA CommitKeepsReady ==
    ASSUME NEW o, Commit(o) \/ Lost,
           \/ o.phase \in {"Ready", "Deleting"}
           \/ locFresh => store.phase # "Ready"
    PROVE  KeepsReady
  BY DEF Commit, Lost, Write, apiVars, KeepsReady

\* Where the copy, if it is the newest, is in another phase.
LEMMA EarlyKeepsReady ==
    ASSUME AllInv, ReadyInv, LateInv,
           AddFinalizer \/ AdvanceToWaiting \/ ResetAfterFailure \/ PollInstance \/ AwaitNode
    PROVE  KeepsReady
<1>1. /\ pc \in {"addFinalizer", "advance", "retry", "poll", "join"}
      /\ UNCHANGED apiVars \/ \E o \in Object : Commit(o) \/ Lost
  BY NoObjectType DEF AddFinalizer, AdvanceToWaiting, ResetAfterFailure, PollInstance, AwaitNode,
    Lost, Commit, AllInv, TypeInv, CtlType, Object, Phase
<1>2. locFresh => store.phase = loc.phase /\ loc.phase # "Ready"
  BY <1>1 DEF LateInv, LatePlaces, FreshCopyInv, CopyPhaseInv, LatePC, ReadyInv, PlaceReady
<1> QED
  BY <1>1, <1>2, CommitKeepsReady DEF apiVars, KeepsReady

\* Where nothing late is in view.
LEMMA ProvisioningKeepsReady ==
    ASSUME AllInv, LateInv, Provisioning
    PROVE  KeepsReady
<1>1. pc \in ProvisionPC
  BY DEF Provisioning, ResolveDefaults, MarkValidating, MarkConfiguringVPN, ConnectVPN,
    RegisterPeer, LaunchInstance, RecordAllocation, PersistInstanceID, Fail, ProvisionPC
<1>2. store \in Versions /\ ~Late(store)
  BY <1>1, StoreSeen DEF LateInv, LatePlaces, ViewInv, AllInv, TypeInv
<1> QED
  BY <1>2 DEF KeepsReady, Late, LatePhase

\* Where Ready is what is written.
LEMMA LateKeepsReady ==
    ASSUME AllInv, LateInv, RecordJoin \/ MarkReady
    PROVE  KeepsReady
<1>1. CASE MarkReady
  <2>1. [loc EXCEPT !.phase = "Ready"].phase = "Ready"
    BY DEF AllInv, TypeInv, CtlType, Object
  <2> QED
    BY <1>1, <2>1, CommitKeepsReady DEF MarkReady
<1>2. CASE RecordJoin
  <2>1. locFresh => store.phase # "Ready"
    BY <1>2 DEF RecordJoin, LateInv, LatePlaces, FreshCopyInv, CopyPhaseInv, LatePC
  <2> QED
    BY <1>2, <2>1, CommitKeepsReady DEF RecordJoin, Write, KeepsReady
<1> QED
  BY <1>1, <1>2

\* handleDelete writes Deleting, or removes the resource.
LEMMA DeletingKeepsReady ==
    ASSUME AllInv, LateInv, Deleting
    PROVE  KeepsReady
<1>1. CASE BeginDelete
  <2>1. [loc EXCEPT !.phase = "Deleting"].phase = "Deleting"
    BY DEF AllInv, TypeInv, CtlType, Object
  <2> QED
    BY <1>1, <2>1, CommitKeepsReady DEF BeginDelete
<1>2. CASE ClearInstanceID
  <2>1. loc.phase = "Deleting"
    BY <1>2 DEF ClearInstanceID, LateInv, LatePlaces, CopyPhaseInv, DeletingPC
  <2> QED
    BY <1>2, <2>1, CommitKeepsReady DEF ClearInstanceID
<1>3. CASE RemoveFinalizer
  <2>1. [store EXCEPT !.finalizer = FALSE, !.exists = FALSE].exists = FALSE
    BY DEF AllInv, TypeInv, ApiInv, ApiType, Object
  <2> QED
    BY <1>3, <2>1 DEF RemoveFinalizer, Commit, Lost, Write, apiVars, KeepsReady
<1>4. CASE DeleteNode \/ ConfirmNodeGone \/ TerminateInstance
  BY <1>4 DEF DeleteNode, ConfirmNodeGone, TerminateInstance, apiVars, KeepsReady
<1> QED
  BY <1>1, <1>2, <1>3, <1>4 DEF Deleting

\* Nobody else writes the status.
LEMMA OthersKeepReady ==
    ASSUME AllInv, User \/ CacheDelivers \/ Crash \/ Cloud \/ UNCHANGED vars
    PROVE  KeepsReady
<1>1. store \in Object
  BY DEF AllInv, TypeInv, ApiInv, ApiType
<1>2. CASE UserCreates
  BY <1>2 DEF UserCreates, KeepsReady
<1>3. CASE UserEdits
  BY <1>3 DEF UserEdits, WriteByOther, Write, KeepsReady
<1>4. CASE UserDeletes
  BY <1>1, <1>4 DEF UserDeletes, WriteByOther, Write, KeepsReady, Object
<1>5. CASE UNCHANGED store
  BY <1>5 DEF KeepsReady
<1>6. UNCHANGED store \/ UserCreates \/ UserEdits \/ UserDeletes
  BY DEF User, UserDeletesSecret, UserDeletesNode, CacheDelivers, Deliver, Crash, Relist, Cloud,
    InstanceBoots, NodeRegisters, JobFinishes, JobExpires, vars, apiVars
<1> QED
  BY <1>2, <1>3, <1>4, <1>5, <1>6

LEMMA KeepsReadyStep == AllInv /\ ReadyInv /\ LateInv /\ [Next]_vars => KeepsReady
<1> SUFFICES ASSUME AllInv, ReadyInv, LateInv, [Next]_vars PROVE KeepsReady
  OBVIOUS
<1>1. CASE Reconcile
  <2>1. CASE Start \/ StampNode \/ PrepullImages \/ CleanupServer \/ CleanupNetConfig
    BY <2>1 DEF Start, StampNode, PrepullImages, CleanupServer, CleanupNetConfig, apiVars,
      KeepsReady
  <2> QED
    BY <1>1, <2>1, EarlyKeepsReady, ProvisioningKeepsReady, LateKeepsReady, DeletingKeepsReady
      DEF Reconcile, Joining, Releasing
<1> QED
  BY <1>1, OthersKeepReady DEF Next

\* A resource that reached Ready is never provisioned again: a reconcile that began on
\* an older copy either sees no version that far, and then there is none, or its write
\* is refused (the progress markers, failNodeProvision, handleDelete).
THEOREM ReadyStaysReady == Spec => ReadyIsFinal
<1>1. Init => AllInv /\ ReadyInv /\ LateInv
  BY TypeInit, InitInv, SettledInit, ReadyInit, LateInit DEF AllInv
<1>2. AllInv /\ ReadyInv /\ LateInv /\ [Next]_vars => AllInv' /\ ReadyInv' /\ LateInv'
  BY SettledStep, ReadyStep, LateStep
<1>3. AllInv /\ ReadyInv /\ LateInv /\ [Next]_vars
        => (store.exists /\ store.phase = "Ready" /\ store'.exists
              => store'.phase \in {"Ready", "Deleting"})
  BY KeepsReadyStep DEF KeepsReady
<1> QED
  BY <1>1, <1>2, <1>3, PTL DEF Spec, ReadyIsFinal
=============================================================================
