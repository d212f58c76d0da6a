----------------------- MODULE NodeLifecycleProofs -----------------------
(***************************************************************************)
(* NodeProvision implements NodeLifecycle, for every set of instances and  *)
(* every lag of the cache: each step of the controller, the users, the     *)
(* cloud or a crash is a step of the lifecycle or leaves it as it was.     *)
(*                                                                         *)
(* The step to fear is a reconcile of a stale copy: it may still work for  *)
(* a resource that was deleted, or still delete one that was created anew  *)
(* under the same name.  Settled says why neither comes to anything.       *)
(***************************************************************************)
EXTENDS NodeProvisionProofs

Running == {"pending", "running", "joined"}

\* The stored resource is being deleted.
Ending == store.exists /\ store.deleting

EndingInv == Ending => store.finalizer

\* Where handleDelete still has its copy's instance id.
BeforePC == {"delete", "deleteNode", "terminate"}

\* A copy the server would accept names the recorded instance.
IdInv ==
    /\ locFresh /\ pc \in WorkPC \cup {"addFinalizer"} => loc.iid = store.iid
    /\ pc = "addFinalizer" => ~loc.deleting

\* An instance just launched is about to be recorded, and still up.
LaunchedInv ==
    /\ launched # None => pc \in {"record", "persist"} /\ inst[launched] \in Running
    /\ pc = "persist" => launched # None

\* Every instance id in sight is that of an instance that was launched.
Known(v) == v.iid # None => inst[v.iid] # "none"
KnownInv == Known(loc) /\ \A v \in Versions : Known(v)

\* What a copy of a deleted resource names is being deleted, or is gone.
Doomed(v) == v.deleting /\ v.iid # None => Ending \/ inst[v.iid] = "terminated"
DoomedInv == (\A v \in Versions : Doomed(v)) /\ (pc \in BeforePC => Doomed(loc))

\* While handleDelete holds the newest copy, no other version names another
\* instance, and once past termination none names a living one.
SeenInv ==
    InDelete /\ locFresh =>
        \A v \in Versions :
            v.iid # None => IF pc \in BeforePC THEN v.iid = loc.iid
                            ELSE inst[v.iid] = "terminated"

\* The versions the cache still has to see, the one it holds first.
At(k) == IF k = 0 THEN cached ELSE stream[k]

\* No deleted version follows a managed one, unless the resource is being deleted:
\* a reconcile that found the resource managed has left earlier resources behind.
OrderInv ==
    \A j, k \in 0..Len(stream) :
        j < k /\ At(j).exists /\ Managed(At(j)) /\ At(k).deleting => Ending

WorkSeesInv == InWork => \A v \in Versions : v.deleting => Ending

\* What, besides Inv, makes each step a step of the lifecycle.
Settled ==
    /\ EndingInv /\ IdInv /\ LaunchedInv /\ KnownInv /\ DoomedInv /\ SeenInv
    /\ OrderInv /\ WorkSeesInv

AllInv == TypeInv /\ Inv /\ Settled
-----------------------------------------------------------------------------
(* The versions in order.                                                  *)

\* The indexed versions are the versions.
LEMMA VersionsAt ==
    ASSUME ApiType
    PROVE  /\ \A v \in Versions : \E k \in 0..Len(stream) : v = At(k)
           /\ \A k \in 0..Len(stream) : At(k) \in Versions /\ At(k) \in Object
           /\ \A v \in Versions : v \in Object
<1>1. Len(stream) \in Nat
  BY DEF ApiType
<1>2. ASSUME NEW v \in Versions PROVE \E k \in 0..Len(stream) : v = At(k)
  <2>1. CASE v = cached
    <3>1. 0 \in 0..Len(stream) /\ v = At(0)
      BY <1>1, <2>1 DEF At
    <3> QED
      BY <3>1
  <2>2. CASE v # cached
    <3>1. PICK k \in 1..Len(stream) : v = stream[k]
      BY <2>2 DEF Versions
    <3>2. k \in 0..Len(stream) /\ k # 0
      BY <1>1
    <3> QED
      BY <3>1, <3>2 DEF At
  <2> QED
    BY <2>1, <2>2
<1>3. ASSUME NEW k \in 0..Len(stream) PROVE At(k) \in Versions /\ At(k) \in Object
  <2>1. CASE k = 0
    BY <2>1 DEF At, Versions, ApiType
  <2>2. CASE k # 0
    <3>1. k \in 1..Len(stream)
      BY <1>1, <2>2
    <3> QED
      BY <2>2, <3>1 DEF At, Versions, ApiType
  <2> QED
    BY <2>1, <2>2
<1> QED
  BY <1>2, <1>3

\* The stored version is the last of them.
LEMMA StoreSeen ==
    ASSUME ApiInv
    PROVE  store \in Versions /\ (CacheCurrent => Versions = {store})
<1>1. Len(stream) \in Nat
  BY DEF ApiInv, ApiType
<1>2. CASE stream = <<>>
  <2>1. cached = store /\ 1..Len(stream) = {}
    BY <1>2 DEF ApiInv, CacheCoherent
  <2> QED
    BY <2>1 DEF Versions
<1>3. CASE stream # <<>>
  <2>1. Len(stream) \in 1..Len(stream)
    BY <1>1, <1>3 DEF ApiInv, ApiType
  <2>2. stream[Len(stream)] = store
    BY <1>3 DEF ApiInv, CacheCoherent
  <2> QED
    BY <1>3, <2>1, <2>2 DEF Versions, CacheCurrent
<1> QED
  BY <1>2, <1>3

\* A write adds one version at the end (ApiCache!Write).
LEMMA WriteAt ==
    ASSUME ApiType, NEW o \in Object, Write(o)
    PROVE  /\ Len(stream') \in Nat /\ Len(stream) \in Nat
           /\ \A k \in Nat : k = Len(stream') => At(k)' = o
           /\ \/ /\ Len(stream') = Len(stream) + 1
                 /\ \A k \in 0..Len(stream) : At(k)' = At(k)
              \/ /\ Len(stream') = Len(stream) /\ Len(stream) >= 1
                 /\ \A k \in 0..(Len(stream) - 1) : At(k)' = At(k + 1)
<1>1. Len(stream) \in Nat
  BY DEF ApiType
<1>2. CASE Len(stream) < MaxLag
  <2>1. stream' = Append(stream, o) /\ cached' = cached
    BY <1>2 DEF Write
  <2>2. /\ Len(stream') = Len(stream) + 1
        /\ stream'[Len(stream')] = o
        /\ \A k \in 1..Len(stream) : stream'[k] = stream[k]
    BY <2>1 DEF ApiType
  <2>3. ASSUME NEW k \in 0..Len(stream) PROVE At(k)' = At(k)
    <3>1. CASE k = 0
      BY <2>1, <3>1 DEF At
    <3>2. CASE k # 0
      BY <1>1, <2>2, <3>2 DEF At
    <3> QED
      BY <3>1, <3>2
  <2>4. Len(stream') # 0
    BY <1>1, <2>2
  <2>5. \A k \in Nat : k = Len(stream') => At(k)' = o
    BY <2>2, <2>4 DEF At
  <2> QED
    BY <1>1, <2>2, <2>3, <2>5
<1>3. CASE ~(Len(stream) < MaxLag)
  <2>1. /\ stream' = Append(Tail(stream), o)
        /\ cached' = Head(stream)
    BY <1>3 DEF Write
  <2>2. Len(stream) >= 1 /\ stream # <<>>
    BY <1>1, <1>3, MaxLagAssumption DEF ApiType
  <2>3. /\ Head(stream) = stream[1]
        /\ Tail(stream) \in Seq(Object)
        /\ Len(Tail(stream)) = Len(stream) - 1
        /\ \A k \in 1..(Len(stream) - 1) : Tail(stream)[k] = stream[k + 1]
    BY <2>2 DEF ApiType
  <2>4. /\ Len(stream') = Len(stream)
        /\ stream'[Len(stream)] = o
        /\ \A k \in 1..(Len(stream) - 1) : stream'[k] = stream[k + 1]
    BY <2>1, <2>2, <2>3
  <2>5. ASSUME NEW k \in 0..(Len(stream) - 1) PROVE At(k)' = At(k + 1)
    <3>1. CASE k = 0
      BY <2>1, <2>3, <3>1 DEF At
    <3>2. CASE k # 0
      <4>1. k \in 1..(Len(stream) - 1) /\ k + 1 # 0
        BY <1>1, <3>2
      <4> QED
        BY <2>4, <3>2, <4>1 DEF At
    <3> QED
      BY <3>1, <3>2
  <2>6. Len(stream') # 0
    BY <1>1, <2>2, <2>4
  <2>7. \A k \in Nat : k = Len(stream') => At(k)' = o
    BY <2>4, <2>6 DEF At
  <2> QED
    BY <1>1, <2>2, <2>4, <2>5, <2>7
<1> QED
  BY <1>2, <1>3

\* The stored version comes after every other.
LEMMA StoreLast ==
    ASSUME ApiInv
    PROVE  Len(stream) \in Nat /\ store = At(Len(stream))
<1>1. Len(stream) \in Nat
  BY DEF ApiInv, ApiType
<1>2. CASE stream = <<>>
  BY <1>2 DEF ApiInv, CacheCoherent, At
<1>3. CASE stream # <<>>
  <2>1. Len(stream) # 0
    BY <1>3 DEF ApiInv, ApiType
  <2> QED
    BY <1>3, <2>1 DEF ApiInv, CacheCoherent, At
<1> QED
  BY <1>1, <1>2, <1>3

\* Earlier versions are so related to later ones.
Ordered(R) == \A j, k \in 0..Len(stream) : j < k => <<At(j), At(k)>> \in R

\* A relation between earlier and later versions survives a write that every
\* version in view is so related to.
LEMMA WritePairs ==
    ASSUME ApiType, NEW R, Ordered(R),
           NEW o \in Object, Write(o), \A v \in Versions : <<v, o>> \in R
    PROVE  Ordered(R)'
<1> SUFFICES ASSUME NEW j \in 0..Len(stream'), NEW k \in 0..Len(stream'), j < k
             PROVE  <<At(j)', At(k)'>> \in R
  BY DEF Ordered
<1>1. /\ Len(stream') \in Nat /\ Len(stream) \in Nat
      /\ \A m \in Nat : m = Len(stream') => At(m)' = o
  BY WriteAt
<1>2. CASE Len(stream') = Len(stream) + 1 /\ \A m \in 0..Len(stream) : At(m)' = At(m)
  <2>1. j \in 0..Len(stream) /\ At(j)' = At(j)
    BY <1>1, <1>2
  <2>2. At(j) \in Versions
    BY <2>1, VersionsAt
  <2>3. CASE k = Len(stream')
    <3>1. At(k)' = o
      BY <1>1, <2>3
    <3> QED
      BY <2>1, <2>2, <3>1
  <2>4. CASE k # Len(stream')
    <3>1. k \in 0..Len(stream) /\ At(k)' = At(k)
      BY <1>1, <1>2, <2>4
    <3> QED
      BY <2>1, <3>1 DEF Ordered
  <2> QED
    BY <2>3, <2>4
<1>3. CASE /\ Len(stream') = Len(stream) /\ Len(stream) >= 1
           /\ \A m \in 0..(Len(stream) - 1) : At(m)' = At(m + 1)
  <2>1. j \in 0..(Len(stream) - 1) /\ j + 1 \in 0..Len(stream)
    BY <1>1, <1>3
  <2>2. At(j)' = At(j + 1) /\ At(j + 1) \in Versions
    BY <1>3, <2>1, VersionsAt
  <2>3. CASE k = Len(stream')
    <3>1. At(k)' = o
      BY <1>1, <2>3
    <3> QED
      BY <2>2, <3>1
  <2>4. CASE k # Len(stream')
    <3>1. k \in 0..(Len(stream) - 1) /\ k + 1 \in 0..Len(stream) /\ j + 1 < k + 1
      BY <1>1, <1>3, <2>4
    <3>2. At(k)' = At(k + 1)
      BY <1>3, <3>1
    <3> QED
      BY <2>1, <2>2, <3>1, <3>2 DEF Ordered
  <2> QED
    BY <2>3, <2>4
<1> QED
  BY <1>2, <1>3, WriteAt

\* Reading on takes versions away and orders none anew (ApiCache!Deliver, Relist).
LEMMA ReadPairs ==
    ASSUME ApiType, NEW R, Ordered(R),
           UNCHANGED apiVars \/ Deliver \/ Relist
    PROVE  Ordered(R)'
<1>1. CASE UNCHANGED apiVars
  BY <1>1 DEF apiVars, At, Ordered
<1>2. CASE Deliver
  <2>1. /\ stream # <<>> /\ cached' = Head(stream) /\ stream' = Tail(stream)
    BY <1>2 DEF Deliver
  <2>2. /\ Len(stream) \in Nat /\ Len(stream) >= 1
        /\ Head(stream) = stream[1]
        /\ Len(Tail(stream)) = Len(stream) - 1
        /\ \A k \in 1..(Len(stream) - 1) : Tail(stream)[k] = stream[k + 1]
    BY <2>1 DEF ApiType
  <2>3. ASSUME NEW k \in 0..Len(stream')
        PROVE  At(k)' = At(k + 1) /\ k + 1 \in 0..Len(stream)
    <3>1. k \in 0..(Len(stream) - 1)
      BY <2>1, <2>2
    <3>2. CASE k = 0
      BY <2>1, <2>2, <3>2 DEF At
    <3>3. CASE k # 0
      BY <2>1, <2>2, <3>1, <3>3 DEF At
    <3> QED
      BY <3>2, <3>3
  <2> SUFFICES ASSUME NEW j \in 0..Len(stream'), NEW k \in 0..Len(stream'), j < k
               PROVE  <<At(j)', At(k)'>> \in R
    BY DEF Ordered
  <2>4. j + 1 < k + 1
    BY <2>1, <2>2
  <2> QED
    BY <2>3, <2>4 DEF Ordered
<1>3. CASE Relist
  <2>1. stream' = <<>>
    BY <1>3 DEF Relist
  <2>2. \A j, k \in 0..Len(stream') : ~(j < k)
    BY <2>1
  <2> QED
    BY <2>2 DEF Ordered
<1> QED
  BY <1>1, <1>2, <1>3

\* No deleted version after a managed one, as a relation.
Unmanaged == {p \in Object \X Object : ~(p[1].exists /\ Managed(p[1]) /\ p[2].deleting)}

LEMMA OrderPairs ==
    ApiType => (OrderInv <=> Ending \/ Ordered(Unmanaged))
<1>1. ASSUME NEW v \in Object, NEW w \in Object
      PROVE  <<v, w>> \in Unmanaged <=> ~(v.exists /\ Managed(v) /\ w.deleting)
  BY DEF Unmanaged
<1> SUFFICES ASSUME ApiType
             PROVE  OrderInv <=> Ending \/ Ordered(Unmanaged)
  OBVIOUS
<1>2. \A k \in 0..Len(stream) : At(k) \in Object
  BY VersionsAt
<1> QED
  BY <1>1, <1>2 DEF OrderInv, Ordered

\* A write keeps the order if no deleted version comes after a managed one, and
\* if a deletion the managed versions await is still under way.
LEMMA WriteOrder ==
    ASSUME ApiInv, OrderInv, NEW o \in Object, Write(o),
           (\E v \in Versions : v.exists /\ Managed(v)) =>
               (Ending => Ending') /\ (o.deleting => Ending')
    PROVE  OrderInv'
<1>1. ApiType /\ ApiType'
  BY WriteFacts DEF ApiInv
<1>2. \A v \in Versions : v \in Object
  BY <1>1, VersionsAt
<1>3. CASE Ending'
  BY <1>3 DEF OrderInv
<1>4. CASE ~Ending'
  <2>1. Ordered(Unmanaged)
    <3>1. CASE Ending
      <4>1. \A v \in Versions : ~(v.exists /\ Managed(v))
        BY <1>4, <3>1
      <4> QED
        BY <1>1, <4>1, VersionsAt DEF Unmanaged, Ordered
    <3>2. CASE ~Ending
      BY <1>1, <3>2, OrderPairs
    <3> QED
      BY <3>1, <3>2
  <2>2. \A v \in Versions : <<v, o>> \in Unmanaged
    BY <1>2, <1>4 DEF Unmanaged
  <2>3. Ordered(Unmanaged)'
    BY <1>1, <2>1, <2>2, WritePairs
  <2>4. (ApiType => (OrderInv <=> Ending \/ Ordered(Unmanaged)))'
    BY OrderPairs, PTL
  <2> QED
    BY <1>1, <2>3, <2>4
<1> QED
  BY <1>3, <1>4

\* Reading on keeps it (ApiCache!Deliver, Relist).
LEMMA ReadOrder ==
    ASSUME ApiInv, OrderInv, UNCHANGED apiVars \/ Deliver \/ Relist
    PROVE  OrderInv' /\ store' = store /\ Versions' \subseteq Versions
<1>1. ApiType /\ ApiType' /\ store' = store /\ Versions' \subseteq Versions
  BY DeliverFacts, RelistFacts, StoreSeen DEF ApiInv, ApiType, Versions, apiVars
<1>2. CASE Ending
  <2>1. Ending'
    BY <1>1, <1>2 DEF Ending
  <2>2. OrderInv'
    BY <2>1 DEF OrderInv
  <2> QED
    BY <1>1, <2>2
<1>3. CASE ~Ending
  <2>1. Ordered(Unmanaged)
    BY <1>1, <1>3, OrderPairs
  <2>2. Ordered(Unmanaged)'
    BY <1>1, <2>1, ReadPairs
  <2>3. (ApiType => (OrderInv <=> Ending \/ Ordered(Unmanaged)))'
    BY OrderPairs, PTL
  <2>4. OrderInv'
    BY <1>1, <2>2, <2>3
  <2> QED
    BY <1>1, <2>4
<1> QED
  BY <1>1, <1>2, <1>3
-----------------------------------------------------------------------------
(* What a step does to the resource, and to the instances.                 *)

\* Nothing is written.
Quiet == UNCHANGED apiVars \/ Deliver \/ Relist

\* A version of the same resource, which may have gained the finalizer.
SameResource(o) ==
    /\ o.exists = store.exists
    /\ o.deleting = store.deleting
    /\ o.finalizer = store.finalizer \/ (o.finalizer /\ ~store.deleting)

\* A progress marker, a failure, an edit: the instance named stays the same.
Marks == \E o \in Object : Write(o) /\ SameResource(o) /\ o.iid = store.iid

\* The write that names an instance (PersistInstanceID).
Holds(i) ==
    \E o \in Object :
        /\ Write(o) /\ SameResource(o)
        /\ o.finalizer = store.finalizer /\ o.iid = i

\* The write that names none any more (ClearInstanceID).
Clears ==
    \E o \in Object :
        /\ Write(o) /\ SameResource(o)
        /\ o.finalizer = store.finalizer /\ o.iid = None

\* The write that takes the resource away (RemoveFinalizer).
Removes ==
    \E o \in Object : Write(o) /\ ~o.exists /\ o.iid = store.iid /\ o.deleting

Creates == ~store.exists /\ Write([NoObject EXCEPT !.exists = TRUE, !.resolved = store'.resolved])

\* Instances come up, or are terminated; only a working reconcile revives one.
Ages ==
    \A i \in Instance :
        /\ inst[i] # "none" => inst'[i] # "none"
        /\ inst[i] = "terminated" => inst'[i] = "terminated" \/ InWork

\* None of them is terminated.
Lives == \A i \in Instance : inst[i] \in Running => inst'[i] \in Running

LEMMA SameInstAges == UNCHANGED inst => Ages /\ Lives
  BY DEF Ages, Lives

\* What Settled says about the versions alone.
VersionInv ==
    EndingInv /\ OrderInv /\ \A v \in Versions : Known(v) /\ Doomed(v)

\* A write of one more version leaves what the versions say to that one.
LEMMA WriteVersions ==
    ASSUME AllInv, Ages, NEW o \in Object, Write(o),
           Ending \/ InWork => Ending \/ ~(\E v \in Versions : v.deleting /\ v.iid # None),
           Ending => Ending' \/ \A v \in Versions :
                        v.deleting /\ v.iid # None => inst'[v.iid] = "terminated",
           (\E v \in Versions : v.exists /\ Managed(v)) =>
               (Ending => Ending') /\ (o.deleting => Ending'),
           EndingInv', Known(o)', Doomed(o)'
    PROVE  VersionInv'
<1>1. ApiType /\ ApiInv /\ OrderInv
  BY DEF AllInv, TypeInv, ApiInv, Settled
<1>2. OrderInv'
  BY <1>1, WriteOrder
<1>3. Versions' \subseteq Versions \cup {o}
  BY <1>1, WriteFacts DEF ApiInv
<1>4. ASSUME NEW v \in Versions PROVE Known(v)' /\ Doomed(v)'
  <2>1. v \in Object /\ Known(v) /\ Doomed(v)
    BY <1>1, VersionsAt DEF AllInv, Settled, KnownInv, DoomedInv
  <2>2. v.iid \in Instance \cup {None}
    BY <2>1 DEF Object
  <2>3. Known(v)'
    BY <2>1, <2>2 DEF Known, Ages
  <2>4. Doomed(v)'
    <3> SUFFICES ASSUME v.deleting, v.iid # None, ~Ending'
                 PROVE  inst'[v.iid] = "terminated"
      BY DEF Doomed
    <3>1. CASE Ending
      BY <3>1
    <3>2. CASE ~Ending
      <4>1. inst[v.iid] = "terminated" /\ ~InWork
        BY <2>1, <3>2 DEF Doomed
      <4> QED
        BY <2>2, <4>1 DEF Ages
    <3> QED
      BY <3>1, <3>2
  <2> QED
    BY <2>3, <2>4
<1> QED
  BY <1>2, <1>3, <1>4 DEF VersionInv

\* Where a reconcile works, a deleted version is one of the stored resource.
LEMMA WorkSees ==
    ASSUME AllInv, InWork
    PROVE  Ending \/ ~(\E v \in Versions : v.deleting /\ v.iid # None)
  BY DEF AllInv, Settled, WorkSeesInv

\* Steps that write nothing, or mark progress, keep what the versions say.
LEMMA MarkVersions ==
    ASSUME AllInv, Ages, Quiet \/ Marks
    PROVE  /\ VersionInv' /\ Ending' = Ending
           /\ store'.iid = store.iid
           /\ Quiet \/ store'.exists = store.exists
           /\ Versions' \subseteq Versions \cup {store'}
<1>1. ApiType /\ ApiInv /\ OrderInv /\ EndingInv /\ store \in Versions /\ store \in Object
  BY StoreSeen DEF AllInv, TypeInv, ApiInv, ApiType, Settled
<1>2. Known(store) /\ Doomed(store) /\ store.iid \in Instance \cup {None}
  BY <1>1 DEF AllInv, Settled, KnownInv, DoomedInv, Object
<1>3. CASE Quiet
  <2>1. OrderInv' /\ store' = store /\ Versions' \subseteq Versions
    BY <1>1, <1>3, ReadOrder DEF Quiet
  <2>2. Ending' = Ending /\ EndingInv'
    BY <1>1, <2>1 DEF Ending, EndingInv
  <2>3. ASSUME NEW v \in Versions PROVE Known(v)' /\ Doomed(v)'
    <3>1. v \in Object /\ Known(v) /\ Doomed(v)
      BY <1>1, VersionsAt DEF AllInv, Settled, KnownInv, DoomedInv
    <3>2. v.iid \in Instance \cup {None}
      BY <3>1 DEF Object
    <3>3. Known(v)'
      BY <3>1, <3>2 DEF Known, Ages
    <3>4. Doomed(v)'
      <4> SUFFICES ASSUME v.deleting, v.iid # None, ~Ending
                   PROVE  inst'[v.iid] = "terminated"
        BY <2>2 DEF Doomed
      <4>1. inst[v.iid] = "terminated" /\ ~InWork
        BY <3>1, WorkSees DEF Doomed
      <4> QED
        BY <3>2, <4>1 DEF Ages
    <3> QED
      BY <3>3, <3>4
  <2> QED
    BY <1>3, <2>1, <2>2, <2>3 DEF VersionInv
<1>4. CASE Marks
  <2>1. PICK o \in Object : Write(o) /\ SameResource(o) /\ o.iid = store.iid
    BY <1>4 DEF Marks
  <2>2. store' = o /\ Versions' \subseteq Versions \cup {o}
    BY <1>1, <2>1, WriteFacts DEF ApiInv
  <2>3. Ending' = Ending
    BY <2>1, <2>2 DEF Ending, SameResource
  <2>4. EndingInv'
    BY <1>1, <2>1, <2>2 DEF Ending, EndingInv, SameResource
  <2>5. (\E v \in Versions : v.exists /\ Managed(v)) => (o.deleting => Ending')
    BY <2>1, <2>3 DEF AllInv, Inv, ManagedInv, SameResource, Ending
  <2>6. Known(o)'
    BY <1>2, <2>1 DEF Known, Ages
  <2>7. Doomed(o)'
    <3> SUFFICES ASSUME o.deleting, o.iid # None, ~Ending
                 PROVE  inst'[o.iid] = "terminated"
      BY <2>3 DEF Doomed
    <3>1. store.deleting /\ store.iid # None
      BY <2>1 DEF SameResource
    <3>2. inst[store.iid] = "terminated" /\ ~InWork
      BY <1>1, <1>2, <3>1, WorkSees DEF Doomed
    <3> QED
      BY <1>2, <2>1, <3>1, <3>2 DEF Ages
  <2>8. VersionInv'
    BY <2>1, <2>3, <2>4, <2>5, <2>6, <2>7, WorkSees, WriteVersions
  <2> QED
    BY <2>1, <2>2, <2>3, <2>8 DEF SameResource
<1> QED
  BY <1>3, <1>4
-----------------------------------------------------------------------------
(* What a step does to the reconcile.                                      *)

\* The invariant, the versions taken from it.
LEMMA SettledParts ==
    Settled <=> /\ VersionInv /\ IdInv /\ LaunchedInv /\ Known(loc) /\ SeenInv
                /\ pc \in BeforePC => Doomed(loc)
                /\ WorkSeesInv
  BY DEF Settled, VersionInv, KnownInv, DoomedInv

\* A reconcile that returned holds nothing.
LEMMA ReturnSettled ==
    ASSUME VersionInv', Return
    PROVE  Settled'
<1>1. pc' = "idle" /\ locFresh' = FALSE /\ loc'.iid = None /\ launched' = None
  BY DEF Return, NoObject
<1>2. IdInv' /\ LaunchedInv' /\ Known(loc)' /\ SeenInv' /\ pc' \notin BeforePC
  BY <1>1 DEF IdInv, LaunchedInv, Known, SeenInv, BeforePC
<1>3. WorkSeesInv'
  BY <1>1 DEF WorkSeesInv, InWork, WorkPC, SharedPC
<1> QED
  BY <1>1, <1>2, <1>3 DEF Settled, VersionInv, KnownInv, DoomedInv

\* What others do leaves a reconcile where it was, perhaps with an older copy.
LEMMA OthersSettled ==
    ASSUME AllInv, Ages, Lives, VersionInv',
           Ending => Ending' \/ (pc \notin BeforePC /\ ~InWork),
           locFresh' => locFresh /\ store' = store /\ Versions' \subseteq Versions,
           \A v \in Versions' : v \in Versions \/ (v.deleting /\ InWork => Ending'),
           UNCHANGED <<pc, loc, launched>>,
           \A i \in Instance : inst[i] = "terminated" => inst'[i] = "terminated"
    PROVE  Settled'
<1>1. /\ IdInv /\ LaunchedInv /\ Known(loc) /\ SeenInv /\ WorkSeesInv
      /\ pc \in BeforePC => Doomed(loc)
  BY DEF AllInv, Settled, KnownInv, DoomedInv
<1>2. /\ loc.iid \in Instance \cup {None} /\ launched \in Instance \cup {None}
      /\ \A v \in Versions : v.iid \in Instance \cup {None}
  BY VersionsAt DEF AllInv, TypeInv, CtlType, ApiInv, Object
<1>3. IdInv'
  BY <1>1 DEF IdInv
<1>4. LaunchedInv'
  BY <1>1, <1>2 DEF LaunchedInv, Lives
<1>5. Known(loc)'
  BY <1>1, <1>2 DEF Known, Ages
<1>6. SeenInv'
  BY <1>1, <1>2 DEF SeenInv, InDelete
<1>7. pc' \in BeforePC => Doomed(loc)'
  BY <1>1, <1>2 DEF Doomed
<1>8. WorkSeesInv'
  BY <1>1 DEF WorkSeesInv, InWork
<1> QED
  BY <1>3, <1>4, <1>5, <1>6, <1>7, <1>8 DEF Settled, VersionInv, KnownInv, DoomedInv

\* A reconcile goes on working on its resource.
LEMMA WorkSettled ==
    ASSUME AllInv, InWork, InWork', Ages, UNCHANGED apiVars \/ Marks,
           LaunchedInv', Known(loc)',
           locFresh' /\ pc' \in WorkPC => loc'.iid = store'.iid
    PROVE  Settled'
<1>1. VersionInv' /\ Ending' = Ending /\ Versions' \subseteq Versions \cup {store'}
  BY MarkVersions DEF Quiet
<1>2. pc' \notin BeforePC \cup {"addFinalizer"} /\ ~InDelete'
  BY DEF InWork, InDelete, BeforePC, WorkPC, SharedPC, DeletePC
<1>3. IdInv' /\ SeenInv'
  BY <1>2 DEF IdInv, SeenInv
<1>4. store.exists
  BY DEF AllInv, Inv, WorkInv
<1>5. store'.deleting => Ending'
  <2>1. CASE UNCHANGED apiVars
    BY <1>4, <2>1 DEF apiVars, Ending
  <2>2. CASE Marks
    <3>1. store'.exists
      BY <1>4, <2>2, WriteFacts DEF Marks, SameResource, AllInv, TypeInv, ApiInv
    <3> QED
      BY <3>1 DEF Ending
  <2> QED
    BY <2>1, <2>2
<1>6. WorkSeesInv'
  BY <1>1, <1>5 DEF WorkSeesInv, AllInv, Settled
<1> QED
  BY <1>1, <1>2, <1>3, <1>6 DEF Settled, VersionInv, KnownInv, DoomedInv

\* A reconcile goes on deleting its resource.
LEMMA DeleteSettled ==
    ASSUME AllInv, InDelete, InDelete', VersionInv', Known(loc)', SeenInv',
           UNCHANGED launched,
           pc' \in BeforePC => Doomed(loc)'
    PROVE  Settled'
<1>1. /\ pc' \notin WorkPC \cup {"addFinalizer", "record", "persist"}
      /\ ~InWork' /\ pc \notin {"record", "persist"}
  BY DEF InDelete, InWork, WorkPC, SharedPC, DeletePC
<1>2. IdInv' /\ LaunchedInv' /\ WorkSeesInv'
  BY <1>1 DEF AllInv, Settled, IdInv, LaunchedInv, WorkSeesInv
<1> QED
  BY <1>2 DEF Settled, VersionInv, KnownInv, DoomedInv
-----------------------------------------------------------------------------
(* What a step shows of the lifecycle.                                     *)

Shown == [Lifecycle!LifecycleNext]_<<ResourceState, store.iid, MachineState>>

\* A progress marker shows nothing, or that the resource is now protected.
LEMMA MarksShown ==
    ASSUME AllInv, Quiet \/ Marks, UNCHANGED MachineState
    PROVE  Shown
<1>1. CASE Quiet
  <2>1. store' = store
    BY <1>1, ReadOrder DEF Quiet, AllInv, TypeInv, Settled
  <2> QED
    BY <2>1 DEF Shown, ResourceState
<1>2. CASE Marks
  <2>1. PICK o \in Object : Write(o) /\ SameResource(o) /\ o.iid = store.iid
    BY <1>2 DEF Marks
  <2>2. store' = o
    BY <2>1, WriteFacts DEF AllInv, TypeInv, ApiInv
  <2>3. CASE o.finalizer = store.finalizer
    BY <2>1, <2>2, <2>3 DEF Shown, ResourceState, SameResource
  <2>4. CASE o.finalizer /\ ~store.finalizer /\ ~store.deleting
    <3>1. CASE store.exists
      <4>1. ResourceState = "new" /\ ResourceState' = "managed"
        BY <2>1, <2>2, <2>4, <3>1 DEF ResourceState, SameResource
      <4>2. Lifecycle!Protect
        BY <2>1, <2>2, <4>1 DEF Lifecycle!Protect
      <4> QED
        BY <4>2 DEF Shown, Lifecycle!LifecycleNext
    <3>2. CASE ~store.exists
      BY <2>1, <2>2, <3>2 DEF Shown, ResourceState, SameResource
    <3> QED
      BY <3>1, <3>2
  <2>5. o.finalizer \in BOOLEAN /\ store.finalizer \in BOOLEAN
    BY DEF AllInv, TypeInv, ApiInv, ApiType, Object
  <2> QED
    BY <2>1, <2>3, <2>4, <2>5 DEF SameResource
<1> QED
  BY <1>1, <1>2

\* The world's own steps on the instances.
LEMMA SameMachines == UNCHANGED inst => UNCHANGED MachineState
  BY DEF MachineState

\* A copy that is written back by a reconcile, or lost.
LEMMA CommitMarks ==
    ASSUME AllInv, pc \in WorkPC \cup {"addFinalizer", "delete"}, NEW o \in Object,
           Commit(o) \/ Lost,
           o.exists = loc.exists, o.deleting = loc.deleting, o.iid = loc.iid,
           o.finalizer = loc.finalizer \/ (o.finalizer /\ ~loc.deleting)
    PROVE  UNCHANGED apiVars \/ (Marks /\ locFresh /\ store' = o)
<1>1. CASE Lost
  BY <1>1 DEF Lost
<1>2. CASE Commit(o)
  <2>1. locFresh /\ Write(o) /\ store' = o
    BY <1>2, WriteFacts DEF Commit, AllInv, TypeInv, ApiInv
  <2>2. /\ loc.exists = store.exists /\ loc.finalizer = store.finalizer
        /\ loc.deleting = store.deleting /\ loc.iid = store.iid
    BY <2>1 DEF AllInv, Inv, FreshInv, Settled, IdInv
  <2>3. SameResource(o) /\ o.iid = store.iid
    BY <2>2 DEF SameResource
  <2> QED
    BY <2>1, <2>3 DEF Marks
<1> QED
  BY <1>1, <1>2

\* A reconcile that marks its progress, if that, and returns.
LEMMA MarkAndReturn ==
    ASSUME AllInv, UNCHANGED apiVars \/ Marks \/ Relist, Return, UNCHANGED inst
    PROVE  Settled' /\ Shown
<1>1. Quiet \/ Marks
  BY DEF Quiet
<1>2. VersionInv'
  BY <1>1, MarkVersions, SameInstAges
<1> QED
  BY <1>1, <1>2, ReturnSettled, MarksShown, SameMachines

LEMMA CommittingSettled ==
    ASSUME AllInv,
           \/ AddFinalizer \/ AdvanceToWaiting \/ Fail \/ AwaitNode \/ MarkReady
           \/ ResetAfterFailure \/ PollInstance \/ RecordJoin
    PROVE  Settled' /\ Shown
<1>1. /\ Return /\ UNCHANGED inst
      /\ pc \in WorkPC \cup {"addFinalizer"}
  BY DEF AddFinalizer, AdvanceToWaiting, Fail, AwaitNode, MarkReady, ResetAfterFailure,
    PollInstance, RecordJoin, worldVars, cloudVars, WorkPC, PC, SharedPC, DeletePC
<1>2. ASSUME NEW phase \in Phase, NEW ip \in IP \cup {None}
      PROVE  LET o == [loc EXCEPT !.phase = phase]
                 q == [loc EXCEPT !.phase = phase, !.vpnIP = ip]
             IN  /\ o \in Object /\ o.exists = loc.exists /\ o.deleting = loc.deleting
                 /\ o.iid = loc.iid /\ o.finalizer = loc.finalizer
                 /\ q \in Object /\ q.exists = loc.exists /\ q.deleting = loc.deleting
                 /\ q.iid = loc.iid /\ q.finalizer = loc.finalizer
  BY DEF AllInv, TypeInv, CtlType, Object
<1>3. ASSUME NEW phase \in Phase, Commit([loc EXCEPT !.phase = phase]) \/ Lost
      PROVE  UNCHANGED apiVars \/ Marks
  BY <1>1, <1>2, <1>3, CommitMarks
<1>4. CASE AddFinalizer
  <2> DEFINE o == [loc EXCEPT !.finalizer = TRUE]
  <2>1. /\ o \in Object /\ o.exists = loc.exists /\ o.deleting = loc.deleting
        /\ o.iid = loc.iid /\ o.finalizer
    BY DEF AllInv, TypeInv, CtlType, Object
  <2>2. ~loc.deleting
    BY <1>4 DEF AddFinalizer, AllInv, Settled, IdInv
  <2>3. Commit(o) \/ Lost
    BY <1>4 DEF AddFinalizer
  <2>4. UNCHANGED apiVars \/ Marks
    BY <1>1, <2>1, <2>2, <2>3, CommitMarks
  <2> QED
    BY <1>1, <2>4, MarkAndReturn
<1>5. CASE AdvanceToWaiting \/ Fail \/ AwaitNode \/ MarkReady
  <2>1. UNCHANGED apiVars \/ Marks
    BY <1>3, <1>5 DEF AdvanceToWaiting, Fail, AwaitNode, MarkReady, Phase
  <2> QED
    BY <1>1, <2>1, MarkAndReturn
<1>6. CASE PollInstance
  <2>1. UNCHANGED apiVars \/ Marks
    BY <1>3, <1>6 DEF PollInstance, Phase
  <2> QED
    BY <1>1, <2>1, MarkAndReturn
<1>7. CASE ResetAfterFailure
  <2> DEFINE o == [loc EXCEPT !.phase = "Empty", !.vpnIP = None]
  <2>1. /\ o \in Object /\ o.exists = loc.exists /\ o.deleting = loc.deleting
        /\ o.iid = loc.iid /\ o.finalizer = loc.finalizer
    BY <1>2 DEF Phase
  <2>2. Commit(o) \/ Lost
    BY <1>7 DEF ResetAfterFailure
  <2>3. UNCHANGED apiVars \/ Marks
    BY <1>1, <2>1, <2>2, CommitMarks
  <2> QED
    BY <1>1, <2>3, MarkAndReturn
<1>8. CASE RecordJoin
  <2>1. CASE Commit([loc EXCEPT !.phase = PhaseAfterJoin]) \/ Lost
    <3>1. PhaseAfterJoin \in Phase
      BY DEF PhaseAfterJoin, Phase
    <3>2. UNCHANGED apiVars \/ Marks
      BY <1>3, <2>1, <3>1
    <3> QED
      BY <1>1, <3>2, MarkAndReturn
  <2>2. CASE locFresh /\ Write([loc EXCEPT !.phase = "Ready"])
    <3> DEFINE o == [loc EXCEPT !.phase = "Ready"]
    <3>1. /\ o \in Object /\ o.exists = loc.exists /\ o.deleting = loc.deleting
          /\ o.iid = loc.iid /\ o.finalizer = loc.finalizer
      BY <1>2 DEF Phase
    <3>2. /\ loc.exists = store.exists /\ loc.finalizer = store.finalizer
          /\ loc.deleting = store.deleting
      BY <2>2 DEF AllInv, Inv, FreshInv
    <3>3. loc.iid = store.iid
      BY <1>1, <2>2 DEF AllInv, Settled, IdInv
    <3>4. SameResource(o) /\ o.iid = store.iid /\ Write(o)
      BY <2>2, <3>1, <3>2, <3>3 DEF SameResource
    <3>5. Marks
      BY <3>1, <3>4 DEF Marks
    <3> QED
      BY <1>1, <3>5, MarkAndReturn
  <2> QED
    BY <1>8, <2>1, <2>2 DEF RecordJoin
<1> QED
  BY <1>4, <1>5, <1>6, <1>7, <1>8
-----------------------------------------------------------------------------
(* Start, and the steps of a reconcile that provisions.                    *)

LEMMA StartSettled == AllInv /\ Start => Settled' /\ Shown
<1> SUFFICES ASSUME AllInv, Start PROVE Settled' /\ Shown
  OBVIOUS
<1>1. /\ UNCHANGED apiVars /\ UNCHANGED inst /\ UNCHANGED launched
      /\ pc = "idle" /\ store' = store /\ Versions' = Versions /\ Quiet
  BY DEF Start, apiVars, cloudVars, Versions, Quiet
<1>2. Shown /\ VersionInv' /\ Ending' = Ending
  BY <1>1, SameInstAges, SameMachines, MarksShown, MarkVersions
<1>3. CASE pc' = "idle"
  <2>1. loc' = loc /\ locFresh' = locFresh /\ pc' = pc
    BY <1>1, <1>3 DEF Start
  <2>2. /\ Ages /\ Lives
        /\ \A i \in Instance : inst[i] = "terminated" => inst'[i] = "terminated"
        /\ UNCHANGED <<pc, loc, launched>>
        /\ locFresh' => locFresh /\ store' = store /\ Versions' \subseteq Versions
        /\ \A v \in Versions' : v \in Versions
    BY <1>1, <2>1, SameInstAges
  <2>3. Ending => Ending'
    BY <1>1 DEF Ending
  <2>4. Settled'
    BY <1>2, <2>2, <2>3, OthersSettled
  <2> QED
    BY <1>2, <2>4
<1>4. CASE pc' # "idle"
  <2>1. Read /\ loc' = cached /\ cached.exists /\ cached \in Versions
    BY <1>4 DEF Start, Read, Versions
  <2>2. pc' = Dispatch(cached)
    BY DEF Start
  <2>3. /\ pc' \in {"delete", "addFinalizer", "advance", "resolve", "poll", "join",
                    "prepull", "cleanup"}
        /\ pc' = "delete" => cached.deleting
        /\ pc' = "addFinalizer" => ~cached.deleting
        /\ pc' \in {"advance", "resolve", "poll", "join", "prepull", "cleanup"}
              => Managed(cached)
    BY <1>4, <2>2 DEF Dispatch, Managed
  <2>4. locFresh' => cached = store /\ Versions = {store}
    <3>1. locFresh' => CacheCurrent
      BY <2>1 DEF Read
    <3>2. CacheCurrent => cached = store
      BY DEF CacheCurrent, AllInv, TypeInv, ApiInv, CacheCoherent
    <3> QED
      BY <3>1, <3>2, StoreSeen DEF AllInv, TypeInv
  <2>5. IdInv'
    BY <1>1, <2>1, <2>3, <2>4 DEF IdInv
  <2>6. LaunchedInv'
    BY <1>1, <2>3 DEF LaunchedInv, AllInv, Settled
  <2>7. Known(loc)' /\ Doomed(loc)'
    BY <1>1, <1>2, <2>1 DEF VersionInv
  <2>8. SeenInv'
    <3>1. CASE pc' = "delete"
      BY <1>1, <2>1, <2>4, <3>1 DEF SeenInv, BeforePC
    <3>2. CASE pc' # "delete"
      <4>1. ~InDelete'
        BY <2>1, <2>3, <3>2 DEF InDelete, DeletePC, SharedPC, Managed
      <4> QED
        BY <4>1 DEF SeenInv
    <3> QED
      BY <3>1, <3>2
  <2>9. WorkSeesInv'
    <3>1. CASE pc' \in {"delete", "addFinalizer"}
      <4>1. ~InWork'
        BY <3>1 DEF InWork, WorkPC, DeletePC, SharedPC
      <4> QED
        BY <4>1 DEF WorkSeesInv
    <3>2. CASE pc' \notin {"delete", "addFinalizer"}
      <4>1. Managed(cached)
        BY <2>3, <3>2
      <4>2. ASSUME NEW v \in Versions, v.deleting PROVE Ending
        <5>1. ApiType /\ Len(stream) \in Nat
          BY DEF AllInv, TypeInv, ApiInv, ApiType
        <5>2. PICK k \in 0..Len(stream) : v = At(k)
          BY <5>1, VersionsAt
        <5>3. At(0) = cached /\ 0 \in 0..Len(stream)
          BY <5>1 DEF At
        <5>4. k # 0
          BY <4>1, <4>2, <5>2, <5>3 DEF Managed
        <5>5. 0 < k
          BY <5>1, <5>4
        <5> QED
          BY <2>1, <4>1, <4>2, <5>2, <5>3, <5>5 DEF OrderInv, AllInv, Settled
      <4> QED
        BY <1>1, <1>2, <4>2 DEF WorkSeesInv
    <3> QED
      BY <3>1, <3>2
  <2> QED
    BY <1>2, <2>5, <2>6, <2>7, <2>8, <2>9 DEF Settled, VersionInv, KnownInv, DoomedInv
<1> QED
  BY <1>2, <1>3, <1>4

\* The instance is recorded: the resource answers for a running machine.
LEMMA PersistSettled == AllInv /\ PersistInstanceID => Settled' /\ Shown
<1> SUFFICES ASSUME AllInv, PersistInstanceID PROVE Settled' /\ Shown
  OBVIOUS
<1>2. PICK o \in Object :
        /\ o = [loc EXCEPT !.phase = "WaitingForInstance", !.iid = launched,
                           !.vpnIP = alloc]
        /\ o.exists = loc.exists /\ o.finalizer = loc.finalizer
        /\ o.deleting = loc.deleting /\ o.iid = launched
  <2> DEFINE q == [loc EXCEPT !.phase = "WaitingForInstance", !.iid = launched,
                              !.vpnIP = alloc]
  <2>1. /\ q \in Object /\ q.exists = loc.exists /\ q.finalizer = loc.finalizer
        /\ q.deleting = loc.deleting /\ q.iid = launched
    BY DEF AllInv, TypeInv, CtlType, Object, Phase
  <2> QED
    BY <2>1
<1>1. /\ pc = "persist" /\ Return /\ UNCHANGED inst
      /\ Commit(o) \/ Lost
  BY <1>2 DEF PersistInstanceID, worldVars, cloudVars
<1>3. InWork /\ store.exists /\ store.finalizer
  BY <1>1 DEF InWork, WorkPC, PC, SharedPC, DeletePC, AllInv, Inv, WorkInv
<1>4. CASE Lost
  BY <1>1, <1>4, MarkAndReturn DEF Lost
<1>5. CASE Commit(o)
  <2>1. locFresh /\ Write(o) /\ store' = o
    BY <1>2, <1>5, WriteFacts DEF Commit, AllInv, TypeInv, ApiInv
  <2>2. /\ o.exists = store.exists /\ o.finalizer = store.finalizer
        /\ o.deleting = store.deleting
    BY <1>2, <2>1 DEF AllInv, Inv, FreshInv
  <2>3. launched \in Instance /\ inst[launched] \in Running
    BY <1>1 DEF AllInv, TypeInv, CtlType, Settled, LaunchedInv
  <2>4. Ending' = Ending /\ (o.deleting => Ending') /\ EndingInv'
    BY <1>3, <2>1, <2>2 DEF Ending, EndingInv
  <2>5. Known(o)' /\ Doomed(o)'
    BY <1>1, <1>2, <2>3, <2>4 DEF Known, Doomed, Running
  <2>6. VersionInv'
    BY <1>1, <1>2, <2>1, <2>4, <2>5, WorkSees, WriteVersions, SameInstAges
  <2>7. Shown
    <3>1. ResourceState' = ResourceState /\ ResourceState \in {"managed", "deleting"}
      BY <1>3, <2>1, <2>2 DEF ResourceState
    <3>2. MachineState[launched] = "on"
      BY <2>3 DEF MachineState, Running
    <3>3. Lifecycle!Hold(launched)
      BY <1>1, <1>2, <2>1, <3>1, <3>2, SameMachines DEF Lifecycle!Hold, Lifecycle!Protected
    <3> QED
      BY <2>3, <3>3 DEF Shown, Lifecycle!LifecycleNext
  <2> QED
    BY <1>1, <2>6, <2>7, ReturnSettled
<1> QED
  BY <1>1, <1>4, <1>5

\* A marker whose write is lost goes on with what the cache holds.
LEMMA MarkerSettled ==
    ASSUME AllInv, NEW phase \in Phase,
           NEW next \in {"configureVPN", "connectVPN", "register"},
           ProgressMarker(phase, next), UNCHANGED inst,
           pc \in {"validating", "configureVPN", "connectVPN"}
    PROVE  Settled' /\ Shown
<1> DEFINE o == [loc EXCEPT !.phase = phase]
<1>1. /\ o \in Object /\ o.exists = loc.exists /\ o.finalizer = loc.finalizer
      /\ o.deleting = loc.deleting /\ o.iid = loc.iid
      /\ loc.iid \in Instance \cup {None}
  BY DEF AllInv, TypeInv, CtlType, Object
<1>2. InWork /\ pc \in WorkPC /\ Known(loc) /\ launched = None
  BY DEF InWork, WorkPC, PC, SharedPC, DeletePC, AllInv, Settled, KnownInv, LaunchedInv
<1>3. CASE Commit(o) /\ loc' = o /\ Goto(next)
  <2>1. UNCHANGED apiVars \/ (Marks /\ store' = o)
    BY <1>1, <1>2, <1>3, CommitMarks
  <2>2. locFresh
    BY <1>3 DEF Commit
  <2>3. InWork' /\ LaunchedInv'
    BY <1>2, <1>3 DEF Goto, InWork, WorkPC, PC, SharedPC, DeletePC, LaunchedInv
  <2>4. Known(loc)'
    BY <1>1, <1>2, <1>3 DEF Known
  <2>5. loc'.iid = store'.iid
    <3>1. loc.iid = store.iid
      BY <1>2, <2>2 DEF AllInv, Settled, IdInv
    <3> QED
      BY <1>1, <1>3, <2>1, <3>1 DEF apiVars
  <2> QED
    BY <1>2, <2>1, <2>3, <2>4, <2>5, SameInstAges, WorkSettled, MarksShown, SameMachines
      DEF Quiet
<1>4. CASE Lost /\ Read /\ Goto(next)
  <2>1. UNCHANGED apiVars /\ Quiet
    BY <1>4 DEF Lost, Quiet
  <2>2. InWork' /\ LaunchedInv'
    BY <1>2, <1>4 DEF Goto, InWork, WorkPC, PC, SharedPC, DeletePC, LaunchedInv
  <2>3. loc' = cached /\ cached \in Versions
    BY <1>4 DEF Read, Versions
  <2>4. Known(loc)'
    BY <2>3 DEF AllInv, Settled, KnownInv, Known
  <2>5. locFresh' => loc'.iid = store'.iid
    BY <1>4, <2>1 DEF Read, CacheCurrent, apiVars, AllInv, TypeInv, ApiInv, CacheCoherent
  <2> QED
    BY <1>2, <2>1, <2>2, <2>4, <2>5, SameInstAges, WorkSettled, MarksShown, SameMachines
<1>5. CASE Lost /\ Return
  BY <1>5, MarkAndReturn DEF Lost
<1> QED
  BY <1>3, <1>4, <1>5 DEF ProgressMarker

LEMMA MarkersSettled ==
    AllInv /\ (MarkValidating \/ MarkConfiguringVPN \/ ConnectVPN) => Settled' /\ Shown
<1>1. ASSUME AllInv, MarkValidating PROVE Settled' /\ Shown
  BY <1>1, MarkerSettled DEF MarkValidating, Phase, WorkPC, PC, SharedPC, DeletePC,
    worldVars, cloudVars
<1>2. ASSUME AllInv, MarkConfiguringVPN PROVE Settled' /\ Shown
  BY <1>2, MarkerSettled, MarkAndReturn DEF MarkConfiguringVPN, Phase, WorkPC, PC, SharedPC,
    DeletePC, worldVars, cloudVars
<1>3. ASSUME AllInv, ConnectVPN PROVE Settled' /\ Shown
  BY <1>3, MarkerSettled, MarkAndReturn DEF ConnectVPN, Phase, WorkPC, PC, SharedPC, DeletePC,
    worldVars, cloudVars
<1> QED
  BY <1>1, <1>2, <1>3
\* A working reconcile that writes nothing keeps its copy, or reads another.
LEMMA KeepWorking ==
    ASSUME AllInv, pc \in WorkPC, UNCHANGED apiVars, Ages, LaunchedInv',
           pc' \in WorkPC, (UNCHANGED locFresh /\ loc'.iid = loc.iid) \/ Read
    PROVE  Settled'
<1>1. InWork /\ InWork'
  BY DEF InWork
<1>2. cached \in Versions /\ loc.iid \in Instance \cup {None}
      /\ cached.iid \in Instance \cup {None}
  BY DEF Versions, AllInv, TypeInv, CtlType, ApiInv, ApiType, Object
<1>3. Known(loc) /\ Known(cached)
  BY <1>2 DEF AllInv, Settled, KnownInv
<1>4. CASE UNCHANGED locFresh /\ loc'.iid = loc.iid
  <2>1. Known(loc)'
    BY <1>2, <1>3, <1>4 DEF Known, Ages
  <2>2. locFresh' => loc'.iid = store'.iid
    BY <1>4 DEF apiVars, AllInv, Settled, IdInv
  <2> QED
    BY <1>1, <2>1, <2>2, WorkSettled
<1>5. CASE Read
  <2>1. loc' = cached
    BY <1>5 DEF Read
  <2>2. Known(loc)'
    BY <1>2, <1>3, <2>1 DEF Known, Ages
  <2>3. locFresh' => loc'.iid = store'.iid
    BY <1>5, <2>1 DEF Read, CacheCurrent, apiVars, AllInv, TypeInv, ApiInv, CacheCoherent
  <2> QED
    BY <1>1, <2>2, <2>3, WorkSettled
<1> QED
  BY <1>4, <1>5

\* A machine is started where the resource is protected.
LEMMA LaunchSettled == AllInv /\ LaunchInstance => Settled' /\ Shown
<1> SUFFICES ASSUME AllInv, LaunchInstance PROVE Settled' /\ Shown
  OBVIOUS
<1>1. /\ pc = "launch" /\ pc' = "record" /\ UNCHANGED apiVars /\ store' = store
      /\ loc' = loc /\ locFresh' = locFresh
      /\ pc \in WorkPC /\ pc' \in WorkPC /\ InWork
  BY DEF LaunchInstance, apiVars, Keep, WorkPC, PC, SharedPC, DeletePC, InWork
<1>2. /\ store.exists /\ store.finalizer /\ launched = None
      /\ inst \in [Instance -> {"none", "pending", "running", "joined", "terminated"}]
  BY <1>1 DEF AllInv, Inv, WorkInv, Settled, LaunchedInv, TypeInv, WorldType
<1>3. CASE UNCHANGED <<inst, launched>>
  <2>1. LaunchedInv' /\ Ages
    BY <1>1, <1>2, <1>3, SameInstAges DEF LaunchedInv
  <2>2. Settled'
    BY <1>1, <2>1, KeepWorking
  <2> QED
    BY <1>1, <1>3, <2>2, MarksShown, SameMachines DEF Quiet
<1>4. ASSUME NEW i \in Instance, Launchable(i),
             inst' = [inst EXCEPT ![i] = "pending"], launched' = i
      PROVE  Settled' /\ Shown
  <2>1. Ages
    BY <1>1, <1>2, <1>4 DEF Ages
  <2>2. LaunchedInv'
    BY <1>1, <1>2, <1>4 DEF LaunchedInv, Running
  <2>3. Settled'
    BY <1>1, <2>1, <2>2, KeepWorking
  <2>4. MachineState' = [MachineState EXCEPT ![i] = "on"] /\ MachineState[i] # "on"
    BY <1>2, <1>4 DEF MachineState, Launchable
  <2>5. ResourceState' = ResourceState /\ ResourceState \in {"managed", "deleting"}
    BY <1>1, <1>2 DEF ResourceState
  <2>6. Lifecycle!StartMachine(i)
    BY <1>1, <2>4, <2>5 DEF Lifecycle!StartMachine, Lifecycle!Protected
  <2> QED
    BY <2>3, <2>6 DEF Shown, Lifecycle!LifecycleNext
<1> QED
  BY <1>3, <1>4 DEF LaunchInstance

LEMMA LaunchingSettled ==
    AllInv /\ (ResolveDefaults \/ RegisterPeer \/ RecordAllocation) => Settled' /\ Shown
<1> SUFFICES ASSUME AllInv, ResolveDefaults \/ RegisterPeer \/ RecordAllocation
             PROVE  Settled' /\ Shown
  OBVIOUS
<1>1. /\ pc \in WorkPC /\ UNCHANGED inst /\ Ages /\ InWork
  BY SameInstAges DEF ResolveDefaults, RegisterPeer, RecordAllocation, worldVars, cloudVars,
    InWork, WorkPC, PC, SharedPC, DeletePC
<1>2. CASE ResolveDefaults
  <2>1. launched = None
    BY <1>2 DEF ResolveDefaults, AllInv, Settled, LaunchedInv
  <2>2. CASE Write([store EXCEPT !.resolved = TRUE]) /\ Return
    <3> DEFINE o == [store EXCEPT !.resolved = TRUE]
    <3>1. /\ o \in Object /\ o.exists = store.exists /\ o.deleting = store.deleting
          /\ o.finalizer = store.finalizer /\ o.iid = store.iid
      BY DEF AllInv, TypeInv, ApiInv, ApiType, Object
    <3>2. Marks
      BY <2>2, <3>1 DEF Marks, SameResource
    <3> QED
      BY <1>1, <2>2, <3>2, MarkAndReturn
  <2>3. CASE (Goto("validating") \/ Goto("fail")) /\ Keep /\ UNCHANGED apiVars
    <3>1. /\ pc' \in WorkPC /\ UNCHANGED <<loc, locFresh>> /\ LaunchedInv'
      BY <2>1, <2>3 DEF Goto, Keep, WorkPC, PC, SharedPC, DeletePC, LaunchedInv
    <3>2. Settled'
      BY <1>1, <2>3, <3>1, KeepWorking
    <3> QED
      BY <1>1, <2>3, <3>2, MarksShown, SameMachines DEF Quiet
  <2> QED
    BY <1>2, <2>2, <2>3 DEF ResolveDefaults
<1>3. CASE RegisterPeer
  <2>1. /\ pc' \in {"launch", "fail"} /\ UNCHANGED apiVars
        /\ UNCHANGED <<loc, locFresh, launched>> /\ launched = None
    BY <1>3 DEF RegisterPeer, Keep, AllInv, Settled, LaunchedInv
  <2>2. pc' \in WorkPC /\ LaunchedInv'
    BY <2>1 DEF WorkPC, PC, SharedPC, DeletePC, LaunchedInv
  <2>3. Settled'
    BY <1>1, <2>1, <2>2, KeepWorking
  <2> QED
    BY <1>1, <2>1, <2>3, MarksShown, SameMachines DEF Quiet
<1>4. CASE RecordAllocation
  <2>1. UNCHANGED apiVars
    BY <1>4 DEF RecordAllocation
  <2>2. CASE launched = None /\ loc' = [loc EXCEPT !.vpnIP = alloc]
             /\ UNCHANGED locFresh /\ Goto("fail")
    <3>1. loc'.iid = loc.iid
      BY <2>2 DEF AllInv, TypeInv, CtlType, Object
    <3>2. pc' \in WorkPC /\ LaunchedInv'
      BY <2>2 DEF Goto, WorkPC, PC, SharedPC, DeletePC, LaunchedInv
    <3>3. Settled'
      BY <1>1, <2>1, <2>2, <3>1, <3>2, KeepWorking
    <3> QED
      BY <1>1, <2>1, <3>3, MarksShown, SameMachines DEF Quiet
  <2>3. CASE launched # None /\ Read /\ Goto("persist")
    <3>1. pc' \in WorkPC /\ LaunchedInv'
      BY <1>1, <2>3 DEF Goto, WorkPC, PC, SharedPC, DeletePC, LaunchedInv, AllInv, Settled
    <3>2. Settled'
      BY <1>1, <2>1, <2>3, <3>1, KeepWorking
    <3> QED
      BY <1>1, <2>1, <3>2, MarksShown, SameMachines DEF Quiet
  <2>4. CASE Return
    BY <1>1, <2>1, <2>4, MarkAndReturn
  <2> QED
    BY <1>4, <2>2, <2>3, <2>4 DEF RecordAllocation
<1> QED
  BY <1>2, <1>3, <1>4

LEMMA JoiningSettled == AllInv /\ (StampNode \/ PrepullImages) => Settled' /\ Shown
<1> SUFFICES ASSUME AllInv, StampNode \/ PrepullImages PROVE Settled' /\ Shown
  OBVIOUS
<1>1. /\ pc \in {"join", "prepull"} /\ UNCHANGED apiVars /\ UNCHANGED inst /\ Ages
      /\ pc \in WorkPC
  BY SameInstAges DEF StampNode, PrepullImages, cloudVars, WorkPC, PC, SharedPC, DeletePC
<1>2. launched = None /\ Shown
  BY <1>1, MarksShown, SameMachines DEF AllInv, Settled, LaunchedInv, Quiet
<1>3. CASE Return
  BY <1>1, <1>3, MarkAndReturn
<1>4. CASE loc' = [loc EXCEPT !.named = TRUE] /\ UNCHANGED locFresh /\ Goto("joined")
  <2>1. loc'.iid = loc.iid
    BY <1>4 DEF AllInv, TypeInv, CtlType, Object
  <2>2. pc' \in WorkPC /\ LaunchedInv'
    BY <1>2, <1>4 DEF Goto, WorkPC, PC, SharedPC, DeletePC, LaunchedInv
  <2> QED
    BY <1>1, <1>2, <1>4, <2>1, <2>2, KeepWorking
<1>5. CASE Read /\ Goto("markReady")
  <2>1. pc' \in WorkPC /\ LaunchedInv'
    BY <1>2, <1>5 DEF Goto, WorkPC, PC, SharedPC, DeletePC, LaunchedInv
  <2> QED
    BY <1>1, <1>2, <1>5, <2>1, KeepWorking
<1> QED
  BY <1>3, <1>4, <1>5 DEF StampNode, PrepullImages, BeginMarkReady
-----------------------------------------------------------------------------
(* The steps of a reconcile that deletes, and of the clean-up both share.  *)

\* A deletion that goes on, past termination, with the copy it holds.
LEMMA KeepDeleting ==
    ASSUME AllInv, InDelete, InDelete', UNCHANGED <<loc, locFresh, launched>>,
           UNCHANGED apiVars, UNCHANGED inst, pc' \notin BeforePC,
           pc \notin BeforePC \/ loc.iid = None
    PROVE  Settled' /\ Shown
<1>1. VersionInv' /\ Shown
  BY MarkVersions, SameInstAges, MarksShown, SameMachines DEF Quiet
<1>2. Known(loc)'
  BY DEF AllInv, Settled, KnownInv, Known
<1>3. Versions' = Versions
  BY DEF apiVars, Versions
<1>4. SeenInv'
  BY <1>3 DEF AllInv, Settled, SeenInv
<1> QED
  BY <1>1, <1>2, <1>4, DeleteSettled

LEMMA CleanupSettled == AllInv /\ (CleanupServer \/ CleanupNetConfig) => Settled' /\ Shown
<1> SUFFICES ASSUME AllInv, CleanupServer \/ CleanupNetConfig PROVE Settled' /\ Shown
  OBVIOUS
<1>1. /\ pc \in SharedPC /\ UNCHANGED apiVars /\ UNCHANGED inst /\ Ages
      /\ pc \notin BeforePC
  BY SameInstAges DEF CleanupServer, CleanupNetConfig, cloudVars, SharedPC, BeforePC
<1>2. Shown /\ launched = None /\ Known(loc) /\ loc.deleting \in BOOLEAN
  BY <1>1, MarksShown, SameMachines
    DEF AllInv, Settled, LaunchedInv, KnownInv, Quiet, SharedPC, TypeInv, CtlType, Object
<1>3. CASE pc' = "release" /\ UNCHANGED launched /\ Keep
  <2>1. CASE loc.deleting
    <3>1. InDelete /\ InDelete' /\ pc' \notin BeforePC
      BY <1>1, <1>3, <2>1 DEF InDelete, SharedPC, Keep, BeforePC
    <3> QED
      BY <1>1, <1>3, <3>1, KeepDeleting DEF Keep
  <2>2. CASE ~loc.deleting
    <3>1. InWork /\ InWork' /\ pc' \notin WorkPC /\ LaunchedInv'
      BY <1>1, <1>2, <1>3, <2>2 DEF InWork, SharedPC, WorkPC, Keep, LaunchedInv
    <3>2. Known(loc)'
      BY <1>1, <1>2, <1>3 DEF Known, Keep
    <3> QED
      BY <1>1, <1>2, <3>1, <3>2, WorkSettled
  <2> QED
    BY <1>2, <2>1, <2>2
<1>4. CASE loc.deleting /\ Goto("unfinalize") /\ Keep
  <2>1. InDelete /\ InDelete' /\ pc' \notin BeforePC
    BY <1>1, <1>4 DEF InDelete, DeletePC, Goto, BeforePC
  <2> QED
    BY <1>1, <1>4, <2>1, KeepDeleting DEF Goto, Keep
<1>5. CASE ~loc.deleting /\ Read /\ Goto("retry")
  <2>1. InWork /\ InWork' /\ LaunchedInv'
    BY <1>1, <1>2, <1>5
      DEF InWork, WorkPC, PC, SharedPC, DeletePC, Goto, LaunchedInv
  <2>2. loc' = cached /\ cached \in Versions
    BY <1>5 DEF Read, Versions
  <2>3. Known(loc)'
    BY <1>1, <2>2 DEF AllInv, Settled, KnownInv, Known
  <2>4. locFresh' => loc'.iid = store'.iid
    BY <1>1, <1>5 DEF Read, CacheCurrent, apiVars, AllInv, TypeInv, ApiInv, CacheCoherent
  <2> QED
    BY <1>1, <1>2, <2>1, <2>3, <2>4, WorkSettled
<1>6. CASE Return
  BY <1>1, <1>6, MarkAndReturn
<1> QED
  BY <1>2, <1>3, <1>4, <1>5, <1>6 DEF CleanupServer, CleanupNetConfig, AfterCleanup

LEMMA BeginDeleteSettled == AllInv /\ BeginDelete => Settled' /\ Shown
<1> SUFFICES ASSUME AllInv, BeginDelete PROVE Settled' /\ Shown
  OBVIOUS
<1>1. PICK o \in Object :
        /\ o = [loc EXCEPT !.phase = "Deleting"]
        /\ o.exists = loc.exists /\ o.finalizer = loc.finalizer
        /\ o.deleting = loc.deleting /\ o.iid = loc.iid
  <2> DEFINE q == [loc EXCEPT !.phase = "Deleting"]
  <2>1. /\ q \in Object /\ q.exists = loc.exists /\ q.finalizer = loc.finalizer
        /\ q.deleting = loc.deleting /\ q.iid = loc.iid
    BY DEF AllInv, TypeInv, CtlType, Object, Phase
  <2> QED
    BY <2>1
<1>2. /\ pc = "delete" /\ pc' = "deleteNode" /\ UNCHANGED <<launched, inst>>
      /\ loc' = o /\ ((Commit(o) /\ locFresh' = TRUE) \/ (Lost /\ UNCHANGED locFresh))
  BY <1>1 DEF BeginDelete, Goto, worldVars, cloudVars
<1>3. UNCHANGED apiVars \/ (Marks /\ locFresh /\ store' = o)
  BY <1>1, <1>2, CommitMarks
<1>4. /\ VersionInv' /\ Ending' = Ending /\ Shown
      /\ Versions' \subseteq Versions \cup {store'}
  BY <1>2, <1>3, MarkVersions, SameInstAges, MarksShown, SameMachines DEF Quiet
<1>5. InDelete /\ InDelete' /\ pc \in BeforePC /\ pc' \in BeforePC
  BY <1>2 DEF InDelete, DeletePC, BeforePC
<1>6. Known(loc) /\ Doomed(loc) /\ SeenInv
  BY <1>5 DEF AllInv, Settled, KnownInv, DoomedInv
<1>7. Known(loc)'
  BY <1>1, <1>2, <1>6 DEF Known
<1>8. Doomed(loc)'
  BY <1>1, <1>2, <1>4, <1>6 DEF Doomed
<1>9. SeenInv'
  <2>1. CASE UNCHANGED apiVars
    <3>1. Versions' = Versions
      BY <2>1 DEF apiVars, Versions
    <3>2. locFresh' => locFresh
      BY <1>2 DEF Commit
    <3> QED
      BY <1>1, <1>2, <1>5, <1>6, <3>1, <3>2 DEF SeenInv
  <2>2. CASE locFresh /\ store' = o
    BY <1>1, <1>2, <1>4, <1>5, <1>6, <2>2 DEF SeenInv
  <2> QED
    BY <1>3, <2>1, <2>2
<1>10. Settled'
  BY <1>2, <1>4, <1>5, <1>7, <1>8, <1>9, DeleteSettled
<1> QED
  BY <1>4, <1>10

LEMMA DeleteNodeSettled ==
    AllInv /\ (DeleteNode \/ ConfirmNodeGone) => Settled' /\ Shown
<1> SUFFICES ASSUME AllInv, DeleteNode \/ ConfirmNodeGone PROVE Settled' /\ Shown
  OBVIOUS
<1>1. UNCHANGED apiVars /\ UNCHANGED inst /\ pc = "deleteNode"
  BY DEF DeleteNode, ConfirmNodeGone, worldVars, cloudVars
<1>2. CASE DeleteNode
  BY <1>1, <1>2, MarkAndReturn DEF DeleteNode
<1>3. CASE ConfirmNodeGone
  <2>1. /\ UNCHANGED <<loc, locFresh, launched>>
        /\ pc' = IF loc.iid = None THEN "cleanup" ELSE "terminate"
        /\ loc.deleting
    BY <1>1, <1>3 DEF ConfirmNodeGone, Goto, Keep, DeletePC, AllInv, TypeInv, CtlType, LocalsInv
  <2>2. InDelete /\ InDelete' /\ pc \in BeforePC
    BY <1>1, <2>1 DEF InDelete, DeletePC, SharedPC, BeforePC
  <2>3. CASE loc.iid = None
    <3>1. pc' \notin BeforePC
      BY <2>1, <2>3 DEF BeforePC
    <3> QED
      BY <1>1, <2>1, <2>2, <2>3, <3>1, KeepDeleting
  <2>4. CASE loc.iid # None
    <3>1. pc' \in BeforePC
      BY <2>1, <2>4 DEF BeforePC
    <3>2. VersionInv' /\ Ending' = Ending /\ Shown
      BY <1>1, MarkVersions, SameInstAges, MarksShown, SameMachines DEF Quiet
    <3>3. Known(loc)' /\ Doomed(loc)'
      BY <1>1, <2>1, <2>2, <3>2 DEF AllInv, Settled, KnownInv, DoomedInv, Known, Doomed
    <3>4. Versions' = Versions
      BY <1>1 DEF apiVars, Versions
    <3>5. SeenInv'
      BY <2>1, <2>2, <3>1, <3>4 DEF AllInv, Settled, SeenInv
    <3>6. Settled'
      BY <2>1, <2>2, <3>2, <3>3, <3>5, DeleteSettled
    <3> QED
      BY <3>2, <3>6
  <2> QED
    BY <2>3, <2>4
<1> QED
  BY <1>2, <1>3

\* An instance that a copy names is stopped: the resource is being deleted, or the
\* instance is gone already.
LEMMA TerminateSettled == AllInv /\ TerminateInstance => Settled' /\ Shown
<1> SUFFICES ASSUME AllInv, TerminateInstance PROVE Settled' /\ Shown
  OBVIOUS
<1>1. UNCHANGED apiVars /\ pc = "terminate" /\ store' = store /\ Versions' = Versions
  BY DEF TerminateInstance, apiVars, Versions
<1>2. CASE Return /\ UNCHANGED inst
  BY <1>1, <1>2, MarkAndReturn
<1>3. CASE /\ inst' = [inst EXCEPT ![loc.iid] = "terminated"]
           /\ loc' = [loc EXCEPT !.iid = None]
           /\ UNCHANGED locFresh /\ Goto("clearIID")
  <2>1. PICK i \in Instance : i = loc.iid /\ loc.iid # None
    BY <1>1 DEF AllInv, TypeInv, CtlType, LocalsInv, Object
  <2>2. inst \in [Instance -> {"none", "pending", "running", "joined", "terminated"}]
    BY DEF AllInv, TypeInv, WorldType
  <2>3. /\ InDelete /\ InDelete' /\ pc \in BeforePC /\ pc' \notin BeforePC
        /\ UNCHANGED launched
    BY <1>1, <1>3 DEF InDelete, DeletePC, BeforePC, Goto
  <2>4. Known(loc) /\ Doomed(loc) /\ SeenInv /\ EndingInv /\ loc.deleting
    BY <1>1, <2>3 DEF AllInv, Settled, KnownInv, DoomedInv, TypeInv, CtlType, LocalsInv, DeletePC
  <2>5. Ages
    BY <1>3, <2>1, <2>2 DEF Ages
  <2>6. VersionInv'
    BY <1>1, <2>5, MarkVersions DEF Quiet
  <2>7. loc'.iid = None
    BY <1>3 DEF AllInv, TypeInv, CtlType, Object
  <2>8. Known(loc)'
    BY <2>7 DEF Known
  <2>9. SeenInv'
    BY <1>1, <1>3, <2>1, <2>2, <2>3, <2>4 DEF SeenInv
  <2>10. Settled'
    BY <2>3, <2>6, <2>8, <2>9, DeleteSettled
  <2>11. ResourceState' = ResourceState
    BY <1>1 DEF ResourceState
  <2>12. CASE inst[i] = "terminated"
    <3>1. inst' = inst
      BY <1>3, <2>1, <2>2, <2>12
    <3> QED
      BY <1>1, <2>10, <3>1, MarksShown, SameMachines DEF Quiet
  <2>13. CASE inst[i] # "terminated"
    <3>1. Ending /\ ResourceState = "deleting"
      BY <2>1, <2>4, <2>13 DEF Doomed, Ending, EndingInv, ResourceState
    <3>2. inst[i] # "none"
      BY <2>1, <2>4 DEF Known
    <3>3. MachineState[i] = "on" /\ MachineState' = [MachineState EXCEPT ![i] = "gone"]
      BY <1>3, <2>1, <2>2, <2>13, <3>2 DEF MachineState
    <3>4. Lifecycle!StopMachine(i)
      BY <1>1, <2>11, <3>1, <3>3 DEF Lifecycle!StopMachine
    <3> QED
      BY <2>10, <3>4 DEF Shown, Lifecycle!LifecycleNext
  <2> QED
    BY <2>12, <2>13
<1> QED
  BY <1>2, <1>3 DEF TerminateInstance, TerminateError

\* The resource answers for no instance any more, or never did.
LEMMA ClearSettled == AllInv /\ ClearInstanceID => Settled' /\ Shown
<1> SUFFICES ASSUME AllInv, ClearInstanceID PROVE Settled' /\ Shown
  OBVIOUS
<1>1. PICK o \in Object : o = loc
  BY DEF AllInv, TypeInv, CtlType
<1>2. /\ pc = "clearIID" /\ pc' = "cleanup" /\ UNCHANGED <<loc, launched, inst>>
      /\ (Commit(o) /\ locFresh' = TRUE) \/ (Lost /\ UNCHANGED locFresh)
  BY <1>1 DEF ClearInstanceID, Goto, worldVars, cloudVars
<1>3. /\ InDelete /\ InDelete' /\ pc' \notin BeforePC /\ pc \notin BeforePC
      /\ loc.exists /\ loc.finalizer /\ loc.deleting /\ loc.iid = None
  BY <1>2 DEF InDelete, DeletePC, SharedPC, BeforePC, AllInv, TypeInv, CtlType, LocalsInv
<1>4. CASE Lost /\ UNCHANGED locFresh
  BY <1>2, <1>3, <1>4, KeepDeleting DEF Lost
<1>5. CASE Commit(o)
  <2>1. locFresh /\ Write(o) /\ store' = o /\ Versions' \subseteq Versions \cup {o}
    BY <1>5, WriteFacts DEF Commit, AllInv, TypeInv, ApiInv
  <2>2. store.exists /\ store.finalizer /\ store.deleting
    BY <1>3, <2>1 DEF AllInv, Inv, FreshInv
  <2>3. Ending /\ Ending' /\ EndingInv' /\ ~InWork
    BY <1>1, <1>2, <1>3, <2>1, <2>2
      DEF Ending, EndingInv, InWork, WorkPC, SharedPC, DeletePC
  <2>4. Known(o)' /\ Doomed(o)' /\ Known(loc)'
    BY <1>1, <1>2, <1>3 DEF Known, Doomed
  <2>5. VersionInv'
    BY <1>2, <2>1, <2>3, <2>4, WriteVersions, SameInstAges
  <2>6. SeenInv /\ \A v \in Versions : v.iid # None => inst[v.iid] = "terminated"
    BY <1>3, <2>1 DEF AllInv, Settled, SeenInv
  <2>7. SeenInv'
    BY <1>1, <1>2, <1>3, <2>1, <2>6 DEF SeenInv
  <2>8. Settled'
    BY <1>2, <1>3, <2>4, <2>5, <2>7, DeleteSettled
  <2>9. Shown
    <3>1. ResourceState = "deleting" /\ ResourceState' = "deleting"
      BY <1>1, <1>3, <2>1, <2>2 DEF ResourceState
    <3>2. store'.iid = None /\ MachineState' = MachineState
      BY <1>1, <1>2, <1>3, <2>1, SameMachines
    <3>3. CASE store.iid = None
      BY <3>1, <3>2, <3>3 DEF Shown
    <3>4. CASE store.iid # None
      <4>1. store.iid \in Instance /\ inst[store.iid] = "terminated"
        BY <2>6, <3>4, StoreSeen DEF AllInv, TypeInv, ApiInv, ApiType, Object
      <4>2. MachineState[store.iid] = "gone"
        BY <4>1 DEF MachineState
      <4>3. Lifecycle!LetGo
        BY <3>1, <3>2, <3>4, <4>2 DEF Lifecycle!LetGo, Lifecycle!Released
      <4> QED
        BY <4>3 DEF Shown, Lifecycle!LifecycleNext
    <3> QED
      BY <3>3, <3>4
  <2> QED
    BY <2>8, <2>9
<1> QED
  BY <1>2, <1>4, <1>5

\* The resource goes, and nothing it answered for is left.
LEMMA RemoveSettled == AllInv /\ RemoveFinalizer => Settled' /\ Shown
<1> SUFFICES ASSUME AllInv, RemoveFinalizer PROVE Settled' /\ Shown
  OBVIOUS
<1>1. PICK o \in Object :
        /\ o = [store EXCEPT !.finalizer = FALSE, !.exists = FALSE]
        /\ ~o.exists /\ o.deleting = store.deleting /\ o.iid = store.iid
  <2> DEFINE q == [store EXCEPT !.finalizer = FALSE, !.exists = FALSE]
  <2>1. q \in Object /\ ~q.exists /\ q.deleting = store.deleting /\ q.iid = store.iid
    BY DEF AllInv, TypeInv, ApiInv, ApiType, Object
  <2> QED
    BY <2>1
<1>2. pc = "unfinalize" /\ Return /\ UNCHANGED inst /\ (Commit(o) \/ Lost)
  BY <1>1 DEF RemoveFinalizer, cloudVars
<1>3. CASE Lost
  BY <1>2, <1>3, MarkAndReturn DEF Lost
<1>4. CASE Commit(o)
  <2>1. locFresh /\ Write(o) /\ store' = o
    BY <1>4, WriteFacts DEF Commit, AllInv, TypeInv, ApiInv
  <2>2. /\ InDelete /\ ~InWork /\ pc \notin BeforePC
        /\ loc.exists /\ loc.finalizer /\ loc.deleting
    BY <1>2 DEF InDelete, InWork, DeletePC, SharedPC, WorkPC, BeforePC, AllInv, TypeInv,
      CtlType, LocalsInv
  <2>3. store.exists /\ store.finalizer /\ store.deleting
    BY <2>1, <2>2 DEF AllInv, Inv, FreshInv
  <2>4. \A v \in Versions : v.iid # None => inst[v.iid] = "terminated"
    BY <2>1, <2>2 DEF AllInv, Settled, SeenInv
  <2>5. ~(\E v \in Versions : v.exists /\ Managed(v))
    BY <2>1, <2>2 DEF AllInv, Inv, DeleteInv
  <2>6. Ending /\ ~Ending' /\ EndingInv'
    BY <1>1, <2>1, <2>3 DEF Ending, EndingInv
  <2>7. Known(o)' /\ Doomed(o)'
    BY <1>1, <1>2, <2>4, StoreSeen DEF Known, Doomed, AllInv, TypeInv
  <2>8. VersionInv'
    BY <1>2, <2>1, <2>2, <2>4, <2>5, <2>6, <2>7, WriteVersions, SameInstAges
  <2>9. Shown
    <3>1. ResourceState = "deleting" /\ ResourceState' = "absent"
      BY <1>1, <2>1, <2>3 DEF ResourceState
    <3>2. store'.iid = store.iid /\ MachineState' = MachineState
      BY <1>1, <1>2, <2>1, SameMachines
    <3>3. store.iid # None => MachineState[store.iid] = "gone"
      BY <2>4, StoreSeen DEF MachineState, AllInv, TypeInv, ApiInv, ApiType, Object
    <3>4. Lifecycle!Disappear
      BY <3>1, <3>2, <3>3 DEF Lifecycle!Disappear, Lifecycle!Released
    <3> QED
      BY <3>4 DEF Shown, Lifecycle!LifecycleNext
  <2> QED
    BY <1>2, <2>8, <2>9, ReturnSettled
<1> QED
  BY <1>2, <1>3, <1>4
-----------------------------------------------------------------------------
(* Users, the cloud, the cache and crashes.                                *)

LEMMA UserCreatesSettled == AllInv /\ UserCreates => Settled' /\ Shown
<1> SUFFICES ASSUME AllInv, UserCreates PROVE Settled' /\ Shown
  OBVIOUS
<1>1. PICK full \in BOOLEAN :
        WriteByOther([NoObject EXCEPT !.exists = TRUE, !.resolved = full])
  BY DEF UserCreates
<1>2. PICK o \in Object :
        /\ o = [NoObject EXCEPT !.exists = TRUE, !.resolved = full]
        /\ o.exists /\ ~o.finalizer /\ ~o.deleting /\ o.iid = None
  <2> DEFINE q == [NoObject EXCEPT !.exists = TRUE, !.resolved = full]
  <2>1. q \in Object /\ q.exists /\ ~q.finalizer /\ ~q.deleting /\ q.iid = None
    BY DEF NoObject, Object, Phase
  <2> QED
    BY <2>1
<1>3. /\ Write(o) /\ locFresh' = FALSE /\ UNCHANGED <<pc, loc, launched, inst>>
      /\ ~store.exists
  BY <1>1, <1>2 DEF UserCreates, WriteByOther, worldVars, cloudVars
<1>4. store' = o /\ Versions' \subseteq Versions \cup {o}
  BY <1>3, WriteFacts DEF AllInv, TypeInv, ApiInv
<1>5. /\ ~Ending /\ ~InWork /\ ~(\E v \in Versions : v.exists /\ Managed(v))
      /\ ~Ending' /\ EndingInv'
  BY <1>2, <1>3, <1>4 DEF Ending, EndingInv, AllInv, Inv, WorkInv, ManagedInv
<1>6. Known(o)' /\ Doomed(o)' /\ Ages /\ Lives
  BY <1>2, <1>3, SameInstAges DEF Known, Doomed
<1>7. VersionInv'
  BY <1>3, <1>5, <1>6, WriteVersions
<1>8. Settled'
  BY <1>2, <1>3, <1>4, <1>5, <1>6, <1>7, OthersSettled
<1>9. Shown
  <2>1. ResourceState = "absent" /\ ResourceState' = "new" /\ store'.iid = None
    BY <1>2, <1>3, <1>4 DEF ResourceState
  <2>2. Lifecycle!Create
    BY <1>3, <2>1, SameMachines DEF Lifecycle!Create
  <2> QED
    BY <2>2 DEF Shown, Lifecycle!LifecycleNext
<1> QED
  BY <1>8, <1>9

LEMMA UserDeletesSettled == AllInv /\ UserDeletes => Settled' /\ Shown
<1> SUFFICES ASSUME AllInv, UserDeletes PROVE Settled' /\ Shown
  OBVIOUS
<1>1. /\ store.exists /\ ~store.deleting /\ store \in Object /\ store \in Versions
      /\ ~Ending
  BY StoreSeen DEF UserDeletes, AllInv, TypeInv, ApiInv, ApiType, Ending
<1>2. CASE store.finalizer
  <2>1. PICK o \in Object :
          /\ o = [store EXCEPT !.deleting = TRUE]
          /\ o.exists = store.exists /\ o.deleting /\ o.finalizer = store.finalizer
          /\ o.iid = store.iid
    <3> DEFINE q == [store EXCEPT !.deleting = TRUE]
    <3>1. /\ q \in Object /\ q.exists = store.exists /\ q.deleting
          /\ q.finalizer = store.finalizer /\ q.iid = store.iid
      BY <1>1 DEF Object
    <3> QED
      BY <3>1
  <2>2. Write(o) /\ locFresh' = FALSE /\ UNCHANGED <<pc, loc, launched, inst>>
    BY <1>2, <2>1 DEF UserDeletes, WriteByOther, worldVars, cloudVars
  <2>3. store' = o /\ Versions' \subseteq Versions \cup {o}
    BY <2>2, WriteFacts DEF AllInv, TypeInv, ApiInv
  <2>4. Ending' /\ EndingInv'
    BY <1>1, <1>2, <2>1, <2>3 DEF Ending, EndingInv
  <2>5. Known(o)' /\ Doomed(o)' /\ Ages /\ Lives
    BY <1>1, <2>1, <2>2, <2>4, SameInstAges DEF Known, Doomed, AllInv, Settled, KnownInv
  <2>6. VersionInv'
    BY <1>1, <2>2, <2>4, <2>5, WorkSees, WriteVersions
  <2>7. Settled'
    BY <1>1, <2>2, <2>4, <2>5, <2>6, OthersSettled
  <2>8. Shown
    <3>1. ResourceState = "managed" /\ ResourceState' = "deleting"
      BY <1>1, <1>2, <2>1, <2>3 DEF ResourceState
    <3>2. Lifecycle!RequestDeletion
      BY <2>1, <2>2, <2>3, <3>1, SameMachines DEF Lifecycle!RequestDeletion
    <3> QED
      BY <3>2 DEF Shown, Lifecycle!LifecycleNext
  <2> QED
    BY <2>7, <2>8
<1>3. CASE ~store.finalizer
  <2>1. PICK o \in Object :
          /\ o = [store EXCEPT !.deleting = TRUE, !.exists = FALSE]
          /\ ~o.exists /\ o.deleting /\ o.iid = store.iid
    <3> DEFINE q == [store EXCEPT !.deleting = TRUE, !.exists = FALSE]
    <3>1. q \in Object /\ ~q.exists /\ q.deleting /\ q.iid = store.iid
      BY <1>1 DEF Object
    <3> QED
      BY <3>1
  <2>2. Write(o) /\ locFresh' = FALSE /\ UNCHANGED <<pc, loc, launched, inst>>
    BY <1>3, <2>1 DEF UserDeletes, WriteByOther, worldVars, cloudVars
  <2>3. store' = o /\ Versions' \subseteq Versions \cup {o}
    BY <2>2, WriteFacts DEF AllInv, TypeInv, ApiInv
  <2>4. /\ ~Ending' /\ EndingInv' /\ ~InWork /\ store.iid = None
        /\ ~(\E v \in Versions : v.exists /\ Managed(v))
    BY <1>1, <1>3, <2>1, <2>3
      DEF Ending, EndingInv, AllInv, Inv, WorkInv, ManagedInv, FinalizerInv
  <2>5. Known(o)' /\ Doomed(o)' /\ Ages /\ Lives
    BY <2>1, <2>2, <2>4, SameInstAges DEF Known, Doomed
  <2>6. VersionInv'
    BY <1>1, <2>2, <2>4, <2>5, WriteVersions
  <2>7. Settled'
    BY <1>1, <2>2, <2>3, <2>4, <2>5, <2>6, OthersSettled
  <2>8. Shown
    <3>1. ResourceState = "new" /\ ResourceState' = "absent" /\ store'.iid = store.iid
      BY <1>1, <1>3, <2>1, <2>3 DEF ResourceState
    <3>2. Lifecycle!Disappear
      BY <2>2, <2>4, <3>1, SameMachines DEF Lifecycle!Disappear, Lifecycle!Released
    <3> QED
      BY <3>2 DEF Shown, Lifecycle!LifecycleNext
  <2> QED
    BY <2>7, <2>8
<1> QED
  BY <1>2, <1>3

\* Steps of the world that leave the resource and the reconcile as they are.
LEMMA WorldSettled ==
    ASSUME AllInv, UNCHANGED apiVars \/ Deliver, UNCHANGED ctlVars, UNCHANGED MachineState,
           Lives, \A i \in Instance : /\ inst[i] # "none" => inst'[i] # "none"
                                      /\ inst[i] = "terminated" => inst'[i] = "terminated"
    PROVE  Settled' /\ Shown
<1>1. Ages /\ Quiet
  BY DEF Ages, Quiet
<1>2. VersionInv' /\ Ending' = Ending /\ Shown
  BY <1>1, MarkVersions, MarksShown
<1>3. store' = store /\ Versions' \subseteq Versions
  BY <1>1, ReadOrder DEF Quiet, AllInv, TypeInv, Settled
<1>4. /\ UNCHANGED <<pc, loc, launched>>
      /\ locFresh' => locFresh /\ store' = store /\ Versions' \subseteq Versions
      /\ \A v \in Versions' : v \in Versions
  BY <1>3 DEF ctlVars
<1>5. Ending => Ending'
  BY <1>3 DEF Ending
<1>6. Settled'
  BY <1>1, <1>2, <1>4, <1>5, OthersSettled
<1> QED
  BY <1>2, <1>6

LEMMA UserSettled == AllInv /\ User => Settled' /\ Shown
<1>1. ASSUME AllInv, UserEdits PROVE Settled' /\ Shown
  <2>1. /\ Write(store) /\ locFresh' = FALSE /\ UNCHANGED <<pc, loc, launched, inst>>
        /\ store \in Object /\ store \in Versions
    BY <1>1, StoreSeen DEF UserEdits, WriteByOther, worldVars, cloudVars, AllInv, TypeInv,
      ApiInv, ApiType
  <2>2. Marks /\ Ages /\ Lives
    BY <2>1, SameInstAges DEF Marks, SameResource
  <2>3. VersionInv' /\ Ending' = Ending /\ Shown
    BY <1>1, <2>1, <2>2, MarkVersions, MarksShown, SameMachines
  <2>4. store' = store /\ Versions' \subseteq Versions
    BY <1>1, <2>1, WriteFacts DEF AllInv, TypeInv, ApiInv
  <2>5. (Ending => Ending') /\ \A v \in Versions' : v \in Versions
    BY <2>4 DEF Ending
  <2>6. Settled'
    BY <1>1, <2>1, <2>2, <2>3, <2>5, OthersSettled
  <2> QED
    BY <2>3, <2>6
<1>2. ASSUME AllInv, UserDeletesSecret \/ UserDeletesNode PROVE Settled' /\ Shown
  <2>1. UNCHANGED apiVars /\ UNCHANGED ctlVars /\ UNCHANGED inst
    BY <1>2 DEF UserDeletesSecret, UserDeletesNode, cloudVars
  <2> QED
    BY <1>2, <2>1, SameInstAges, SameMachines, WorldSettled
<1> QED
  BY <1>1, <1>2, UserCreatesSettled, UserDeletesSettled DEF User

LEMMA CloudSettled == AllInv /\ (CacheDelivers \/ Crash \/ Cloud) => Settled' /\ Shown
<1>1. ASSUME AllInv, CacheDelivers PROVE Settled' /\ Shown
  <2>1. Deliver /\ UNCHANGED ctlVars /\ UNCHANGED inst
    BY <1>1 DEF CacheDelivers, worldVars, cloudVars
  <2> QED
    BY <1>1, <2>1, SameInstAges, SameMachines, WorldSettled
<1>2. ASSUME AllInv, Crash PROVE Settled' /\ Shown
  BY <1>2, MarkAndReturn DEF Crash, worldVars, cloudVars
<1>3. ASSUME AllInv, JobFinishes \/ JobExpires PROVE Settled' /\ Shown
  <2>1. UNCHANGED apiVars /\ UNCHANGED ctlVars /\ UNCHANGED inst
    BY <1>3 DEF JobFinishes, JobExpires, cloudVars
  <2> QED
    BY <1>3, <2>1, SameInstAges, SameMachines, WorldSettled
<1>4. ASSUME AllInv, NEW i \in Instance, InstanceBoots(i) \/ NodeRegisters(i)
      PROVE  Settled' /\ Shown
  <2>1. /\ UNCHANGED apiVars /\ UNCHANGED ctlVars
        /\ inst[i] \in {"pending", "running"}
        /\ \E s \in {"running", "joined"} : inst' = [inst EXCEPT ![i] = s]
    BY <1>4 DEF InstanceBoots, NodeRegisters
  <2>2. inst \in [Instance -> {"none", "pending", "running", "joined", "terminated"}]
    BY <1>4 DEF AllInv, TypeInv, WorldType
  <2>3. MachineState' = MachineState
    BY <2>1, <2>2 DEF MachineState
  <2>4. /\ Lives
        /\ \A j \in Instance : /\ inst[j] # "none" => inst'[j] # "none"
                               /\ inst[j] = "terminated" => inst'[j] = "terminated"
    BY <2>1, <2>2 DEF Lives, Running
  <2> QED
    BY <1>4, <2>1, <2>3, <2>4, WorldSettled
<1> QED
  BY <1>1, <1>2, <1>3, <1>4 DEF Cloud
-----------------------------------------------------------------------------
(* The theorems.                                                           *)

LEMMA SettledInit == Init => Settled /\ Lifecycle!LifecycleInit
<1> SUFFICES ASSUME Init PROVE Settled /\ Lifecycle!LifecycleInit
  OBVIOUS
<1>1. /\ store = NoObject /\ cached = NoObject /\ stream = <<>> /\ loc = NoObject
      /\ pc = "idle" /\ locFresh = FALSE /\ launched = None
      /\ inst = [i \in Instance |-> "none"]
  BY DEF Init
<1>2. Versions = {NoObject} /\ 0..Len(stream) = {0}
  <2>1. Len(stream) = 0 /\ 1..Len(stream) = {}
    BY <1>1
  <2> QED
    BY <1>1, <2>1 DEF Versions
<1>3. /\ NoObject.iid = None /\ NoObject.exists = FALSE
      /\ NoObject.deleting = FALSE /\ NoObject.finalizer = FALSE
  BY DEF NoObject
<1>4. EndingInv /\ IdInv /\ LaunchedInv /\ SeenInv
  BY <1>1, <1>3 DEF EndingInv, Ending, IdInv, LaunchedInv, SeenInv
<1>5. KnownInv /\ DoomedInv
  BY <1>1, <1>2, <1>3 DEF KnownInv, Known, DoomedInv, Doomed, BeforePC
<1>6. OrderInv
  BY <1>2 DEF OrderInv
<1>7. WorkSeesInv
  BY <1>1 DEF WorkSeesInv, InWork, WorkPC, SharedPC
<1>8. Lifecycle!LifecycleInit
  BY <1>1, <1>3 DEF Lifecycle!LifecycleInit, ResourceState, MachineState
<1> QED
  BY <1>4, <1>5, <1>6, <1>7, <1>8 DEF Settled

LEMMA SettledStep == AllInv /\ [Next]_vars => AllInv' /\ Shown
<1> SUFFICES ASSUME AllInv, [Next]_vars PROVE AllInv' /\ Shown
  OBVIOUS
<1>1. TypeInv' /\ Inv'
  BY TypeStep, StepInv DEF AllInv
<1>2. CASE UNCHANGED vars
  <2>1. UNCHANGED apiVars /\ UNCHANGED ctlVars /\ UNCHANGED inst
    BY <1>2 DEF vars, worldVars, cloudVars
  <2> QED
    BY <1>1, <2>1, SameInstAges, SameMachines, WorldSettled DEF AllInv
<1>3. CASE Next
  <2>1. CASE Reconcile
    <3>1. ASSUME Start \/ AddFinalizer \/ AdvanceToWaiting PROVE Settled' /\ Shown
      BY <3>1, StartSettled, CommittingSettled
    <3>2. ASSUME Provisioning PROVE Settled' /\ Shown
      BY <3>2, LaunchingSettled, LaunchSettled, MarkersSettled, PersistSettled,
        CommittingSettled DEF Provisioning
    <3>3. ASSUME Joining PROVE Settled' /\ Shown
      BY <3>3, CommittingSettled, JoiningSettled DEF Joining
    <3>4. ASSUME Releasing PROVE Settled' /\ Shown
      BY <3>4, CleanupSettled, CommittingSettled DEF Releasing
    <3>5. ASSUME Deleting PROVE Settled' /\ Shown
      BY <3>5, BeginDeleteSettled, DeleteNodeSettled, TerminateSettled, ClearSettled,
        RemoveSettled DEF Deleting
    <3>6. Settled' /\ Shown
      BY <2>1, <3>1, <3>2, <3>3, <3>4, <3>5 DEF Reconcile
    <3> QED
      BY <1>1, <3>6 DEF AllInv
  <2>2. CASE User \/ CacheDelivers \/ Crash \/ Cloud
    <3>1. Settled' /\ Shown
      BY <2>2, UserSettled, CloudSettled
    <3> QED
      BY <1>1, <3>1 DEF AllInv
  <2> QED
    BY <1>3, <2>1, <2>2 DEF Next
<1> QED
  BY <1>2, <1>3

\* The controller implements the lifecycle: what its user and the cloud see of any
\* behaviour, with its stale copies, lost writes, failures and crashes, is a
\* behaviour of NodeLifecycle (Reconcile, handleDelete).
THEOREM LifecycleImplemented == Spec => ImplementsLifecycle
<1>1. Init => AllInv /\ Lifecycle!LifecycleInit
  BY TypeInit, InitInv, SettledInit DEF AllInv
<1>2. AllInv /\ [Next]_vars =>
        AllInv' /\ [Lifecycle!LifecycleNext]_<<ResourceState, store.iid, MachineState>>
  BY SettledStep DEF Shown
<1> QED
  BY <1>1, <1>2, PTL
    DEF Spec, ImplementsLifecycle, Lifecycle!LifecycleSpec, Lifecycle!lifecycleVars

\* A step that shows a termination shows it of a resource being deleted.
LEMMA StopIsOfDeleted ==
    ASSUME AllInv, Shown, NEW i \in Instance,
           inst[i] # "terminated", inst'[i] = "terminated"
    PROVE  store.exists /\ store.deleting
<1>1. MachineState[i] # "gone" /\ MachineState'[i] = "gone"
  BY DEF MachineState
<1>2. PICK j \in Instance : Lifecycle!StartMachine(j) \/ Lifecycle!StopMachine(j)
  BY <1>1 DEF Shown, Lifecycle!LifecycleNext, Lifecycle!Create, Lifecycle!Protect,
    Lifecycle!RequestDeletion, Lifecycle!LetGo, Lifecycle!Disappear, Lifecycle!Hold
<1>3. ~Lifecycle!StartMachine(j)
  <2> SUFFICES ASSUME MachineState' = [MachineState EXCEPT ![j] = "on"] PROVE FALSE
    BY DEF Lifecycle!StartMachine
  <2>1. MachineState'[i] \in {"on", MachineState[i]}
    BY DEF MachineState
  <2> QED
    BY <1>1, <2>1
<1>4. ResourceState = "deleting"
  BY <1>2, <1>3 DEF Lifecycle!StopMachine
<1> QED
  BY <1>4 DEF ResourceState

\* An instance is terminated only for a resource that is being deleted, never for one
\* that is gone or was created anew (handleDelete, which terminates through the
\* provider of the copy it read).
THEOREM OnlyDeletedTerminates == Spec => TerminatesOnlyDeleted
<1>1. Init => AllInv
  BY TypeInit, InitInv, SettledInit DEF AllInv
<1>2. AllInv /\ [Next]_vars => AllInv'
  BY SettledStep
<1>3. AllInv /\ [Next]_vars =>
        [\A i \in Instance : inst[i] # "terminated" /\ inst'[i] = "terminated"
            => store.exists /\ store.deleting]_vars
  BY SettledStep, StopIsOfDeleted
<1> QED
  BY <1>1, <1>2, <1>3, PTL DEF Spec, TerminatesOnlyDeleted
=============================================================================
