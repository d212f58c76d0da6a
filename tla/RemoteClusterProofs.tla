------------------------ MODULE RemoteClusterProofs ------------------------
(***************************************************************************)
(* Proofs about RemoteCluster, for every number of workers and phases and  *)
(* every bound on failures and edits: types, and that neither a repeated,  *)
(* refused, lost or interrupted step lets the resources promise more than  *)
(* is on the machines.                                                     *)
(***************************************************************************)
EXTENDS RemoteCluster, TLAPS

-----------------------------------------------------------------------------
(* The inductive invariant.                                                *)

Live(n) == api[n].exists /\ ~api[n].deleting

\* What only the resource's own reconcile, or its deletion, changes.
Same(a, b) ==
    /\ a.exists = b.exists /\ a.deleting = b.deleting
    /\ a.jc = b.jc /\ a.last = b.last /\ a.cache = b.cache /\ a.joined = b.joined

\* Up to these places a reconcile has annotated nothing.
Early == {"finalizer", "protect", "provision", "init", "connect", "sync", "prepare"}

DeletePC == {"reset", "unpeer", "release", "unfinalize"}

CompletePC == {"stamp", "repo", "netconfig", "netstamp", "publish"}

ReadyPC == {"token", "netjoin", "tokenstamp", "packages", "pkgstamp"}

\* A resource that is gone has nothing; only live ones are worked for.
Gone(n) ==
    /\ ~api[n].exists => api[n] = NoObject
    /\ pc[n] \in DeletePC => ~Live(n)
    /\ n = CP => ~api[n].joined
    /\ n # CP => api[n].jc = "none"

\* A copy that would be accepted, or has just been read, says what is stored.
CopyCurrent(n) ==
    /\ pc[n] = "idle" => ~fresh[n]
    /\ fresh[n] /\ api[n].exists => Same(loc[n], api[n])
    /\ pc[n] \in Early /\ Live(n) => Same(loc[n], api[n])
    /\ pc[n] \in {"finalizer", "protect"} /\ api[n].exists => loc[n].phase = api[n].phase

\* A worker's phases run only before it is marked joined.
Joining(w) ==
    Live(w) =>
        /\ pc[w] = "join" => 0..(at[w] - 1) \subseteq host[w]
        /\ pc[w] = "join" /\ at[w] = 0 => api[w].last = -1
        /\ pc[w] \in {"prepare", "join"} => ~api[w].joined
        /\ pc[w] = "mark" \/ api[w].joined => LastWorker \in host[w]

ResourceInv(n) ==
    /\ Gone(n) /\ CopyCurrent(n)
    /\ n # CP => Joining(n)
    /\ Live(n) => 0..api[n].last \subseteq host[n]

\* The goroutine runs only before anything that follows it, and has done what
\* comes before the phase it is at.
JobOnly ==
    /\ host[CP] \subseteq Phases(CP)
    /\ job.st = "none" => prog = -1
    /\ Live(CP) =>
        /\ 0..prog \subseteq host[CP]
        /\ job.st # "none" => /\ api[CP].cache = "none" /\ api[CP].jc = "none"
                              /\ api[CP].phase # "Ready"
                              /\ pc[CP] \notin CompletePC \cup ReadyPC \cup {"clear"}
        /\ job.st = "running" => 0..(job.at - 1) \subseteq host[CP]
        /\ job.st = "running" /\ job.at = 0 => api[CP].last = -1 /\ prog = -1
        /\ job.st = "ok" => host[CP] = Phases(CP)

\* What follows the goroutine follows a machine with every phase on it.
Completion ==
    Live(CP) =>
        /\ api[CP].cache # "none" => host[CP] = Phases(CP)
        /\ api[CP].phase = "Ready" \/ api[CP].jc # "none"
              => host[CP] = Phases(CP) /\ netcfg.exists
        /\ pc[CP] \in {"provision", "init"} => api[CP].phase # "Ready"
        /\ pc[CP] \in CompletePC => host[CP] = Phases(CP)
        /\ pc[CP] \in {"netstamp", "publish"} => netcfg.exists
        /\ pc[CP] \in ReadyPC => api[CP].phase = "Ready"
        /\ pc[CP] \in CompletePC \cup {"init"} /\ loc[CP].phase = "Ready"
              => api[CP].phase = "Ready"

Inv == (\A n \in Node : ResourceInv(n)) /\ JobOnly /\ Completion

-----------------------------------------------------------------------------
(* Types.                                                                  *)

CtlType ==
    /\ queue \in [Node -> BOOLEAN] /\ pc \in [Node -> PC] /\ loc \in [Node -> Object]
    /\ fresh \in [Node -> BOOLEAN] /\ tok \in [Node -> Token]
    /\ at \in [Node -> 0..LastCP + LastWorker + 1]

\* What every write needs: the fields the controller sets keep a resource one.
LEMMA ObjectFields ==
    ASSUME NEW o \in Object
    PROVE  /\ \A b \in BOOLEAN :
                /\ [o EXCEPT !.finalizer = b] \in Object
                /\ [o EXCEPT !.deleting = b] \in Object
                /\ [o EXCEPT !.netDone = b] \in Object
                /\ [o EXCEPT !.pkgs = b] \in Object
                /\ [o EXCEPT !.joined = b] \in Object
                /\ [o EXCEPT !.vpnRef = b] \in Object
           /\ \A p \in {"", "Provisioning", "Ready", "Failed"} : [o EXCEPT !.phase = p] \in Object
           /\ \A t \in Token : [o EXCEPT !.jc = t] \in Object /\ [o EXCEPT !.cache = t] \in Object
           /\ \A s \in {"none", "recent", "due"} : [o EXCEPT !.stamp = s] \in Object
           /\ \A i \in -1..LastCP + LastWorker : [o EXCEPT !.last = i] \in Object
<1>1. \A b \in BOOLEAN :
        /\ [o EXCEPT !.finalizer = b] \in Object /\ [o EXCEPT !.deleting = b] \in Object
        /\ [o EXCEPT !.netDone = b] \in Object
  BY DEF Object
<1>2. \A b \in BOOLEAN :
        /\ [o EXCEPT !.pkgs = b] \in Object /\ [o EXCEPT !.joined = b] \in Object
        /\ [o EXCEPT !.vpnRef = b] \in Object
  BY DEF Object
<1>3. \A p \in {"", "Provisioning", "Ready", "Failed"} : [o EXCEPT !.phase = p] \in Object
  BY DEF Object
<1>4. \A t \in Token : [o EXCEPT !.jc = t] \in Object /\ [o EXCEPT !.cache = t] \in Object
  BY DEF Object
<1>5. \A s \in {"none", "recent", "due"} : [o EXCEPT !.stamp = s] \in Object
  BY DEF Object
<1>6. \A i \in -1..LastCP + LastWorker : [o EXCEPT !.last = i] \in Object
  BY DEF Object
<1> QED
  BY <1>1, <1>2, <1>3, <1>4, <1>5, <1>6

LEMMA NoObjectType == NoObject \in Object
BY ClusterAssumption DEF NoObject, Object, Token

LEMMA FaultType ==
    ASSUME TypeOK, Fault \/ NoFault
    PROVE  faults' \in 0..MaxFaults
BY ClusterAssumption DEF TypeOK, Fault, NoFault

LEMMA FailsType ==
    ASSUME TypeOK, NEW able, FailsUnless(able)
    PROVE  faults' \in 0..MaxFaults
BY FaultType DEF FailsUnless

LEMMA CommitType ==
    ASSUME TypeOK, NEW n \in Node, NEW o \in Object, Commit(n, o) \/ Lost(n)
    PROVE  api' \in [Node -> Object] /\ faults' \in 0..MaxFaults
BY FaultType DEF TypeOK, Commit, Lost

LEMMA AnnotateType ==
    ASSUME TypeOK, NEW n \in Node, NEW o \in Object, Annotate(n, o) \/ AnnotateLost(n)
    PROVE  /\ api' \in [Node -> Object] /\ fresh' \in [Node -> BOOLEAN]
           /\ faults' \in 0..MaxFaults
<1>1. faults' \in 0..MaxFaults /\ api' \in [Node -> Object]
  BY FaultType DEF TypeOK, Annotate, AnnotateLost
<1>2. fresh' \in [Node -> BOOLEAN]
  BY Zenon DEF TypeOK, Annotate, AnnotateLost
<1> QED
  BY <1>1, <1>2

LEMMA RefetchType ==
    ASSUME TypeOK, NEW n \in Node, NEW o \in Object, Refetched(n, o) \/ RefetchFails(n)
    PROVE  api' \in [Node -> Object] /\ faults' \in 0..MaxFaults
BY FaultType DEF TypeOK, Refetched, RefetchFails

LEMMA GotoType ==
    ASSUME TypeOK, NEW n \in Node, NEW label \in PC, Goto(n, label)
    PROVE  pc' \in [Node -> PC]
BY DEF TypeOK, Goto

LEMMA ReturnType ==
    ASSUME TypeOK, NEW n \in Node, NEW r \in BOOLEAN, Return(n, r)
    PROVE  CtlType'
BY NoObjectType, ClusterAssumption DEF TypeOK, CtlType, Return, Goto, PC, Token

LEMMA ContinueType ==
    ASSUME TypeOK, NEW n \in Node, NEW label \in PC, Continue(n, label)
    PROVE  CtlType'
BY DEF TypeOK, CtlType, Continue, Goto

LEMMA ContinueWithType ==
    ASSUME TypeOK, NEW n \in Node, NEW label \in PC, NEW o \in Object, ContinueWith(n, label, o)
    PROVE  CtlType'
BY DEF TypeOK, CtlType, ContinueWith, Goto
\* The steps of Reconcile that either kind of resource takes.
LEMMA CommonType ==
    ASSUME TypeOK, NEW n \in Node,
           \/ Start(n) \/ AddFinalizer(n) \/ ProtectSecrets(n) \/ MarkProvisioning(n) \/ Fail(n)
           \/ ResetHost(n) \/ RemovePeer(n) \/ ReleaseSecrets(n) \/ RemoveFinalizer(n)
    PROVE  TypeOK'
<1> USE DEF jobVars, remoteVars, secretVars
<1>0. api[n] \in Object /\ loc[n] \in Object
  BY DEF TypeOK
<1>1. CASE Start(n)
  <2>1. Dispatch(api[n]) \in PC
    BY DEF Dispatch, PC
  <2>2. loc' \in [Node -> Object] /\ fresh' \in [Node -> BOOLEAN] /\ pc' \in [Node -> PC]
    <3>1. CASE api[n].exists /\ Dispatch(api[n]) # "idle"
      <4>1. /\ loc' = [loc EXCEPT ![n] = api[n]] /\ fresh' = [fresh EXCEPT ![n] = TRUE]
            /\ Goto(n, Dispatch(api[n]))
        BY <1>1, <3>1 DEF Start
      <4> QED
        BY <1>0, <2>1, <4>1, GotoType DEF TypeOK
    <3>2. CASE ~(api[n].exists /\ Dispatch(api[n]) # "idle")
      BY <1>1, <3>2 DEF TypeOK, Start
    <3> QED
      BY <3>1, <3>2
  <2> QED
    BY <1>1, <2>2 DEF TypeOK, Start
<1>2. CASE AddFinalizer(n)
  <2>1. CtlType'
    BY <1>2, ReturnType DEF AddFinalizer
  <2>2. api' \in [Node -> Object] /\ faults' \in 0..MaxFaults
    BY <1>0, <1>2, CommitType, ObjectFields DEF AddFinalizer
  <2> QED
    BY <1>2, <2>1, <2>2 DEF TypeOK, CtlType, AddFinalizer
<1>3. CASE ProtectSecrets(n)
  <2>1. AfterProtect(n) \in PC
    BY DEF AfterProtect, PC
  <2>2. CtlType'
    BY <1>3, <2>1, ReturnType, ContinueType DEF ProtectSecrets
  <2>3. /\ auth' \in [Node -> SecretState] /\ copy' \in [Node -> BOOLEAN] /\ vpn' \in SecretState
        /\ faults' \in 0..MaxFaults
    <3>1. PICK done \in SUBSET {"auth", "copy", "vpn"} :
            /\ IF done = {"auth", "copy", "vpn"} THEN NoFault ELSE Fault
            /\ auth' = IF "auth" \in done THEN [auth EXCEPT ![n] = Held(@)] ELSE auth
            /\ copy' = IF "copy" \in done /\ auth[n] # "gone" /\ api[n].exists
                       THEN [copy EXCEPT ![n] = TRUE] ELSE copy
            /\ vpn' = IF "vpn" \in done /\ loc[n].vpnRef THEN Held(vpn) ELSE vpn
      BY <1>3 DEF ProtectSecrets
    <3> QED
      BY <3>1, FaultType DEF TypeOK, Held, SecretState
  <2> QED
    BY <1>3, <2>2, <2>3 DEF TypeOK, CtlType, ProtectSecrets
<1>4. CASE MarkProvisioning(n)
  <2>1. api' \in [Node -> Object] /\ faults' \in 0..MaxFaults
    BY <1>0, <1>4, CommitType, ObjectFields DEF MarkProvisioning
  <2>2. loc' \in [Node -> Object]
    BY <1>0, <1>4, ObjectFields DEF TypeOK, MarkProvisioning
  <2>3. pc' \in [Node -> PC]
    BY <1>4, GotoType DEF MarkProvisioning, PC
  <2> QED
    BY <1>4, <2>1, <2>2, <2>3 DEF TypeOK, MarkProvisioning
<1>5. CASE Fail(n)
  <2>1. CtlType'
    BY <1>5, ReturnType DEF Fail
  <2>2. api' \in [Node -> Object] /\ faults' \in 0..MaxFaults
    BY <1>0, <1>5, CommitType, ObjectFields DEF Fail
  <2> QED
    BY <1>5, <2>1, <2>2 DEF TypeOK, CtlType, Fail
<1>6. CASE ResetHost(n)
  <2>1. CtlType'
    BY <1>6, ContinueType DEF ResetHost, PC
  <2>2. faults' \in 0..MaxFaults
    BY <1>6, FaultType, FailsType DEF ResetHost, Unreachable
  <2>3. /\ host' \in [Node -> SUBSET (0..LastCP + LastWorker)]
        /\ netcfg' \in [exists: BOOLEAN, jc: Token, used: SUBSET Node]
        /\ teardown' \subseteq Node
    <3>1. netcfg' \in [exists: BOOLEAN, jc: Token, used: SUBSET Node]
      <4>1. NoNetConfig \in [exists: BOOLEAN, jc: Token, used: SUBSET Node]
        BY DEF NoNetConfig, Token
      <4> QED
        BY <1>6, <4>1 DEF TypeOK, ResetHost
    <3>2. host' \in [Node -> SUBSET (0..LastCP + LastWorker)] /\ teardown' \subseteq Node
      BY <1>6 DEF TypeOK, ResetHost
    <3> QED
      BY <3>1, <3>2
  <2> QED
    BY <1>6, <2>1, <2>2, <2>3 DEF TypeOK, CtlType, ResetHost
<1>7. CASE RemovePeer(n)
  <2>1. loc' \in [Node -> Object]
    <3> DEFINE ref == loc[n].vpnRef \/ (n # CP /\ api[CP].exists /\ api[CP].vpnRef)
    <3>1. ref \in BOOLEAN
      BY <1>0 DEF Object
    <3>2. loc' = [loc EXCEPT ![n].vpnRef = ref]
      BY <1>7 DEF RemovePeer
    <3>3. [loc[n] EXCEPT !.vpnRef = ref] \in Object
      BY <1>0, <3>1, ObjectFields
    <3> HIDE DEF ref
    <3> QED
      BY <3>2, <3>3 DEF TypeOK
  <2>2. pc' \in [Node -> PC]
    BY <1>7, GotoType DEF RemovePeer, PC
  <2>3. faults' \in 0..MaxFaults
    BY <1>7, FaultType DEF RemovePeer
  <2>4. tunnel' \subseteq Node /\ repo' \in BOOLEAN
    BY <1>7 DEF TypeOK, RemovePeer
  <2> QED
    BY <1>7, <2>1, <2>2, <2>3, <2>4 DEF TypeOK, RemovePeer
<1>8. CASE ReleaseSecrets(n)
  <2>1. CtlType'
    BY <1>8, ContinueType DEF ReleaseSecrets, PC
  <2>2. /\ auth' \in [Node -> SecretState] /\ vpn' \in SecretState
        /\ faults' \in 0..MaxFaults
    <3>1. PICK done \in SUBSET {"auth", "vpn"} :
            /\ IF done = {"auth", "vpn"} THEN NoFault ELSE Fault
            /\ auth' = IF "auth" \in done THEN [auth EXCEPT ![n] = Released(@)] ELSE auth
            /\ vpn' = IF "vpn" \in done /\ loc[n].vpnRef THEN Released(vpn) ELSE vpn
      BY <1>8 DEF ReleaseSecrets
    <3> QED
      BY <3>1, FaultType DEF TypeOK, Released, SecretState
  <2> QED
    BY <1>8, <2>1, <2>2 DEF TypeOK, CtlType, ReleaseSecrets
<1>9. CASE RemoveFinalizer(n)
  <2>1. CtlType'
    BY <1>9, ReturnType DEF RemoveFinalizer
  <2>2. api' \in [Node -> Object] /\ faults' \in 0..MaxFaults
    BY <1>9, CommitType, NoObjectType DEF RemoveFinalizer
  <2>3. copy' \in [Node -> BOOLEAN]
    BY <1>9 DEF TypeOK, RemoveFinalizer
  <2> QED
    BY <1>9, <2>1, <2>2, <2>3 DEF TypeOK, CtlType, RemoveFinalizer
<1> QED
  BY <1>1, <1>2, <1>3, <1>4, <1>5, <1>6, <1>7, <1>8, <1>9

\* The steps of reconcileControlPlane and of the Ready control plane.
LEMMA ControlPlaneType ==
    ASSUME TypeOK, ReconcileCP
    PROVE  TypeOK'
<1> USE DEF jobVars, remoteVars, secretVars
<1>0. CP \in Node /\ api[CP] \in Object /\ loc[CP] \in Object /\ prog \in -1..LastCP + LastWorker
  BY ClusterAssumption DEF TypeOK, Node
<1>1. CASE AlreadyInitialised
  <2>1. CtlType'
    BY <1>0, <1>1, ReturnType DEF AlreadyInitialised
  <2> QED
    BY <1>1, <2>1 DEF TypeOK, CtlType, AlreadyInitialised
<1>2. CASE ResumeCompletion
  <2>1. tok' \in [Node -> Token]
    BY <1>0, <1>2 DEF TypeOK, ResumeCompletion, Object
  <2>2. pc' \in [Node -> PC]
    BY <1>0, <1>2, GotoType DEF ResumeCompletion, PC
  <2> QED
    BY <1>2, <2>1, <2>2 DEF TypeOK, ResumeCompletion
<1>3. CASE StartJob
  <2>1. CtlType' /\ faults' \in 0..MaxFaults
    BY <1>0, <1>3, ReturnType, ContinueType, FaultType, FailsType DEF StartJob, Unreachable, PC
  <2>2. StartPhase(loc[CP]) \in 0..LastCP + LastWorker + 1
    <3>1. loc[CP].last \in -1..LastCP + LastWorker
      BY <1>0 DEF Object
    <3> QED
      BY <3>1, ClusterAssumption DEF StartPhase
  <2>3. job' \in [st: {"none", "running", "ok", "err"}, at: 0..LastCP + LastWorker + 1]
    <3>1. job' = job \/ job' = [st |-> "running", at |-> StartPhase(loc[CP])]
      BY <1>3 DEF StartJob
    <3> QED
      BY <2>2, <3>1 DEF TypeOK
  <2> QED
    BY <1>3, <2>1, <2>3 DEF TypeOK, CtlType, StartJob
<1>4. CASE FlushProgress
  <2>1. CtlType' /\ faults' \in 0..MaxFaults
    BY <1>0, <1>4, ReturnType, FaultType DEF FlushProgress
  <2>2. api' \in [Node -> Object]
    <3>1. [api[CP] EXCEPT !.last = prog] \in Object
      BY <1>0, ObjectFields
    <3>2. api' = api \/ api' = [api EXCEPT ![CP] = [api[CP] EXCEPT !.last = prog]]
      BY <1>0, <1>4 DEF TypeOK, FlushProgress
    <3> QED
      BY <3>1, <3>2 DEF TypeOK
  <2> QED
    BY <1>4, <2>1, <2>2 DEF TypeOK, CtlType, FlushProgress
<1>5. CASE TakeResult
  <2>1. [api[CP] EXCEPT !.last = prog] \in Object
    BY <1>0, ObjectFields
  <2>2. api' \in [Node -> Object] /\ fresh' \in [Node -> BOOLEAN] /\ faults' \in 0..MaxFaults
    BY <1>0, <1>5, <2>1, AnnotateType, FaultType DEF TypeOK, TakeResult
  <2>3. tok' \in [Node -> Token]
    BY <1>0, <1>5 DEF TypeOK, TakeResult, Token
  <2>4. pc' \in [Node -> PC]
    <3>1. (IF job.st = "ok" THEN "stamp" ELSE "fail") \in PC
      BY DEF PC
    <3> QED
      BY <1>0, <1>5, <3>1, GotoType DEF TakeResult
  <2>5. NoJob \in [st: {"none", "running", "ok", "err"}, at: 0..LastCP + LastWorker + 1]
    BY ClusterAssumption DEF NoJob
  <2>6. job' = NoJob /\ prog' \in -1..LastCP
    BY <1>5, ClusterAssumption DEF TakeResult
  <2> QED
    BY <1>5, <2>2, <2>3, <2>4, <2>5, <2>6 DEF TypeOK, TakeResult
<1>6. CASE MarkInitComplete
  <2>1. [api[CP] EXCEPT !.last = -1, !.cache = tok[CP]] \in Object
    <3>1. -1 \in -1..LastCP + LastWorker /\ tok[CP] \in Token
      BY <1>0, ClusterAssumption DEF TypeOK
    <3>2. [api[CP] EXCEPT !.last = -1] \in Object
      BY <1>0, <3>1, ObjectFields
    <3>3. [[api[CP] EXCEPT !.last = -1] EXCEPT !.cache = tok[CP]] \in Object
      BY <3>1, <3>2, ObjectFields
    <3> QED
      BY <3>3
  <2>2. api' \in [Node -> Object] /\ fresh' \in [Node -> BOOLEAN] /\ faults' \in 0..MaxFaults
    BY <1>0, <1>6, <2>1, AnnotateType DEF MarkInitComplete
  <2>3. pc' \in [Node -> PC]
    BY <1>0, <1>6, GotoType DEF MarkInitComplete, PC
  <2> QED
    BY <1>6, <2>2, <2>3 DEF TypeOK, MarkInitComplete
<1>7. CASE EnsureRepo
  <2>1. CtlType' /\ faults' \in 0..MaxFaults
    BY <1>0, <1>7, ContinueType, FaultType, FailsType DEF EnsureRepo, Unreachable, PC
  <2>2. repo' \in BOOLEAN
    BY <1>7 DEF TypeOK, EnsureRepo
  <2> QED
    BY <1>7, <2>1, <2>2 DEF TypeOK, CtlType, EnsureRepo
<1>8. CASE CreateNetConfig
  <2>1. CtlType' /\ faults' \in 0..MaxFaults
    BY <1>0, <1>8, ContinueType, FaultType DEF CreateNetConfig, PC
  <2>2. [exists |-> TRUE, jc |-> loc[CP].jc, used |-> {CP}]
           \in [exists: BOOLEAN, jc: Token, used: SUBSET Node]
    BY <1>0 DEF Object
  <2>3. [netcfg EXCEPT !.exists = TRUE] \in [exists: BOOLEAN, jc: Token, used: SUBSET Node]
    BY DEF TypeOK
  <2>4. netcfg' \in [exists: BOOLEAN, jc: Token, used: SUBSET Node]
    BY <1>8, <2>2, <2>3 DEF TypeOK, CreateNetConfig
  <2> QED
    BY <1>8, <2>1, <2>4 DEF TypeOK, CtlType, CreateNetConfig
<1>9. CASE StampNetConfig
  <2>1. api' \in [Node -> Object] /\ fresh' \in [Node -> BOOLEAN] /\ faults' \in 0..MaxFaults
    BY <1>0, <1>9, ObjectFields, AnnotateType DEF StampNetConfig
  <2>2. (IF loc[CP].phase = "Ready" THEN "token" ELSE "publish") \in PC
    BY DEF PC
  <2>3. pc' \in [Node -> PC]
    BY <1>0, <1>9, <2>2, GotoType DEF StampNetConfig
  <2> QED
    BY <1>9, <2>1, <2>3 DEF TypeOK, StampNetConfig
<1>10. CASE PublishJoin
  <2> DEFINE o == [api[CP] EXCEPT !.phase = "Ready", !.jc = tok[CP]]
  <2>1. o \in Object
    <3>1. tok[CP] \in Token
      BY <1>0 DEF TypeOK
    <3>2. [api[CP] EXCEPT !.phase = "Ready"] \in Object
      BY <1>0, ObjectFields
    <3>3. [[api[CP] EXCEPT !.phase = "Ready"] EXCEPT !.jc = tok[CP]] \in Object
      BY <3>1, <3>2, ObjectFields
    <3> QED
      BY <3>3
  <2>2. \/ Refetched(CP, o) /\ ContinueWith(CP, "clear", o)
        \/ RefetchFails(CP) /\ Return(CP, TRUE)
    BY <1>10 DEF PublishJoin
  <2> HIDE DEF o
  <2>3. CtlType'
    BY <1>0, <2>1, <2>2, ContinueWithType, ReturnType DEF PC
  <2>4. api' \in [Node -> Object] /\ faults' \in 0..MaxFaults
    BY <1>0, <2>1, <2>2, RefetchType
  <2> QED
    BY <1>10, <2>3, <2>4 DEF TypeOK, CtlType, PublishJoin
<1>11. CASE ClearInit
  <2>1. CtlType'
    BY <1>0, <1>11, ReturnType DEF ClearInit
  <2>2. [api[CP] EXCEPT !.cache = "none"] \in Object
    BY <1>0, ObjectFields DEF Token
  <2>3. api' \in [Node -> Object] /\ faults' \in 0..MaxFaults
    BY <1>11, <2>2, FaultType DEF TypeOK, ClearInit, RefetchFails
  <2> QED
    BY <1>11, <2>1, <2>3 DEF TypeOK, CtlType, ClearInit
<1>12. CASE SkipRefresh
  <2>1. CtlType'
    BY <1>0, <1>12, ContinueType DEF SkipRefresh, PC
  <2> QED
    BY <1>12, <2>1 DEF TypeOK, CtlType, SkipRefresh
<1>13. CASE RefreshToken
  <2>1. [api[CP] EXCEPT !.jc = "temp"] \in Object
    BY <1>0, ObjectFields DEF Token
  <2>2. CtlType'
    BY <1>0, <1>13, <2>1, ContinueWithType, ContinueType DEF RefreshToken, PC
  <2>3. api' \in [Node -> Object] /\ faults' \in 0..MaxFaults
    BY <1>0, <1>13, <2>1, RefetchType, FaultType DEF TypeOK, RefreshToken
  <2> QED
    BY <1>13, <2>2, <2>3 DEF TypeOK, CtlType, RefreshToken
<1>14. CASE PatchNetJoin
  <2>1. CtlType' /\ faults' \in 0..MaxFaults
    BY <1>0, <1>14, ContinueType, FaultType DEF PatchNetJoin, PC
  <2>2. netcfg' \in [exists: BOOLEAN, jc: Token, used: SUBSET Node]
    BY <1>14 DEF TypeOK, PatchNetJoin, Token
  <2> QED
    BY <1>14, <2>1, <2>2 DEF TypeOK, CtlType, PatchNetJoin
<1>15. CASE StampRefresh
  <2>1. api' \in [Node -> Object] /\ fresh' \in [Node -> BOOLEAN] /\ faults' \in 0..MaxFaults
    BY <1>0, <1>15, ObjectFields, AnnotateType DEF StampRefresh
  <2>2. pc' \in [Node -> PC]
    BY <1>0, <1>15, GotoType DEF StampRefresh, PC
  <2> QED
    BY <1>15, <2>1, <2>2 DEF TypeOK, StampRefresh
<1>16. CASE Packages
  <2>1. CtlType' /\ faults' \in 0..MaxFaults
    BY <1>0, <1>16, ReturnType, ContinueType, FaultType DEF Packages, PC
  <2> QED
    BY <1>16, <2>1 DEF TypeOK, CtlType, Packages
<1>17. CASE MarkPackages
  <2>1. CtlType'
    BY <1>0, <1>17, ReturnType DEF MarkPackages
  <2>2. api' \in [Node -> Object] /\ faults' \in 0..MaxFaults
    BY <1>0, <1>17, ObjectFields, RefetchType DEF MarkPackages
  <2> QED
    BY <1>17, <2>1, <2>2 DEF TypeOK, CtlType, MarkPackages
<1> QED
  BY <1>1, <1>2, <1>3, <1>4, <1>5, <1>6, <1>7, <1>8, <1>9, <1>10, <1>11, <1>12, <1>13,
     <1>14, <1>15, <1>16, <1>17 DEF ReconcileCP

\* The steps of reconcileWorker.
LEMMA WorkerType ==
    ASSUME TypeOK, NEW w \in Worker, ReconcileWorker(w)
    PROVE  TypeOK'
<1> USE DEF jobVars, remoteVars, secretVars
<1>0. w \in Node /\ CP \in Node /\ api[w] \in Object /\ loc[w] \in Object /\ api[CP] \in Object
  BY DEF TypeOK, Node
<1>1. CASE Connect(w)
  <2>1. CtlType' /\ faults' \in 0..MaxFaults
    BY <1>0, <1>1, ContinueType, FailsType, FaultType DEF Connect, Unreachable, PC
  <2> QED
    BY <1>1, <2>1 DEF TypeOK, CtlType, Connect
<1>2. CASE SyncVPN(w)
  <2> DEFINE o == [api[w] EXCEPT !.vpnRef = TRUE]
  <2>1. o \in Object
    BY <1>0, ObjectFields
  <2>2. \/ UNCHANGED api /\ (NoFault \/ Fault) /\ AfterSync(w, loc[w], fresh[w])
        \/ Refetched(w, o) /\ AfterSync(w, o, TRUE)
        \/ UNCHANGED api /\ (NoFault \/ Fault) /\ Return(w, TRUE)
    BY <1>2 DEF SyncVPN
  <2> HIDE DEF o
  <2>3. api' \in [Node -> Object] /\ faults' \in 0..MaxFaults
    BY <1>0, <2>1, <2>2, RefetchType, FaultType DEF TypeOK
  <2>4. ASSUME NEW v \in Object, NEW b \in BOOLEAN, AfterSync(w, v, b)
        PROVE  CtlType'
    <3>1. CASE Return(w, FALSE) \/ Return(w, TRUE)
      BY <1>0, <3>1, ReturnType
    <3>2. CASE ~(Return(w, FALSE) \/ Return(w, TRUE))
      <4> DEFINE cmd == IF api[CP].exists /\ api[CP].phase = "Ready" THEN api[CP].jc ELSE "none"
      <4>1. cmd \in Token
        BY <1>0 DEF Object, Token
      <4>2. /\ Goto(w, "prepare") /\ UNCHANGED <<queue, at>>
            /\ loc' = [loc EXCEPT ![w] = v] /\ tok' = [tok EXCEPT ![w] = cmd]
            /\ fresh' = [fresh EXCEPT ![w] = b]
        BY <2>4, <3>2 DEF AfterSync
      <4> HIDE DEF cmd
      <4>3. pc' \in [Node -> PC]
        BY <1>0, <4>2, GotoType DEF PC
      <4> QED
        BY <4>1, <4>2, <4>3 DEF TypeOK, CtlType
    <3> QED
      BY <3>1, <3>2
  <2>5. fresh[w] \in BOOLEAN
    BY <1>0 DEF TypeOK
  <2>6. CtlType'
    BY <1>0, <2>1, <2>2, <2>4, <2>5, ReturnType
  <2> QED
    BY <1>2, <2>3, <2>6 DEF TypeOK, CtlType, SyncVPN
<1>3. CASE PrepareJoin(w)
  <2>1. StartPhase(loc[w]) \in 0..LastCP + LastWorker + 1
    <3>1. loc[w].last \in -1..LastCP + LastWorker
      BY <1>0 DEF Object
    <3> QED
      BY <3>1, ClusterAssumption DEF StartPhase
  <2>2. CtlType' /\ faults' \in 0..MaxFaults
    <3>1. CASE Continue(w, "fail") /\ FailsUnless(Reachable(CP) /\ w \in tunnel)
      BY <1>0, <3>1, ContinueType, FailsType DEF PC
    <3>2. CASE ~(Continue(w, "fail") /\ FailsUnless(Reachable(CP) /\ w \in tunnel))
      <4>1. /\ NoFault /\ Goto(w, "join") /\ at' = [at EXCEPT ![w] = StartPhase(loc[w])]
            /\ UNCHANGED <<queue, loc, fresh, tok>>
        BY <1>3, <3>2 DEF PrepareJoin
      <4>2. pc' \in [Node -> PC]
        BY <1>0, <4>1, GotoType DEF PC
      <4> QED
        BY <2>1, <4>1, <4>2, FaultType DEF TypeOK, CtlType
    <3> QED
      BY <3>1, <3>2
  <2> QED
    BY <1>3, <2>2 DEF TypeOK, CtlType, PrepareJoin
<1>4. CASE JoinPhase(w)
  <2>1. at[w] \in 0..LastWorker
    BY <1>0, <1>4, ClusterAssumption DEF TypeOK, JoinPhase
  <2>2. host' \in [Node -> SUBSET (0..LastCP + LastWorker)]
    <3>1. Effect(host[w], at[w]) \in SUBSET (0..LastCP + LastWorker)
      BY <1>0, <2>1, ClusterAssumption DEF TypeOK, Effect
    <3>2. Lands(w, at[w]) \in [Node -> SUBSET (0..LastCP + LastWorker)]
      BY <1>0, <3>1 DEF TypeOK, Lands
    <3> QED
      BY <1>4, <3>2 DEF TypeOK, JoinPhase
  <2>3. at[w] \in -1..LastCP + LastWorker
    BY <2>1, ClusterAssumption
  <2>4. [api[w] EXCEPT !.last = at[w]] \in Object
    BY <1>0, <2>3, ObjectFields
  <2>5. /\ api' \in [Node -> Object] /\ fresh' \in [Node -> BOOLEAN]
        /\ faults' \in 0..MaxFaults
    BY <1>0, <1>4, <2>4, AnnotateType, FaultType DEF TypeOK, JoinPhase
  <2>6. at' \in [Node -> 0..LastCP + LastWorker + 1]
    <3>1. at[w] + 1 \in 0..LastCP + LastWorker + 1
      BY <2>1, ClusterAssumption
    <3>2. at' = at \/ at' = [at EXCEPT ![w] = at[w] + 1]
      BY <1>4 DEF JoinPhase
    <3> QED
      BY <3>1, <3>2 DEF TypeOK
  <2>7. pc' \in [Node -> PC]
    <3>1. pc' = pc \/ Goto(w, "fail")
      BY <1>4 DEF JoinPhase
    <3> QED
      BY <1>0, <3>1, GotoType DEF TypeOK, PC
  <2> QED
    BY <1>4, <2>2, <2>5, <2>6, <2>7 DEF TypeOK, JoinPhase
<1>5. CASE NameNode(w)
  <2>1. CtlType' /\ faults' \in 0..MaxFaults
    BY <1>0, <1>5, ContinueType, FailsType, FaultType DEF NameNode, PC
  <2> QED
    BY <1>5, <2>1 DEF TypeOK, CtlType, NameNode
<1>6. CASE MarkJoined(w)
  <2> DEFINE o == [api[w] EXCEPT !.joined = TRUE, !.last = -1]
  <2>1. o \in Object
    <3>1. [api[w] EXCEPT !.joined = TRUE] \in Object
      BY <1>0, ObjectFields
    <3>2. -1 \in -1..LastCP + LastWorker
      BY ClusterAssumption
    <3>3. [[api[w] EXCEPT !.joined = TRUE] EXCEPT !.last = -1] \in Object
      BY <3>1, <3>2, ObjectFields
    <3> QED
      BY <3>3
  <2>2. \/ Refetched(w, o) /\ ContinueWith(w, "ready", o)
        \/ RefetchFails(w) /\ Return(w, TRUE)
    BY <1>6 DEF MarkJoined
  <2> HIDE DEF o
  <2>3. CtlType'
    BY <1>0, <2>1, <2>2, ContinueWithType, ReturnType DEF PC
  <2>4. api' \in [Node -> Object] /\ faults' \in 0..MaxFaults
    BY <1>0, <2>1, <2>2, RefetchType
  <2> QED
    BY <1>6, <2>3, <2>4 DEF TypeOK, CtlType, MarkJoined
<1>7. CASE WorkerReady(w)
  <2>1. [loc[w] EXCEPT !.phase = "Ready"] \in Object
    BY <1>0, ObjectFields
  <2>2. CtlType'
    BY <1>0, <1>7, <2>1, ContinueWithType, ReturnType DEF WorkerReady, PC
  <2>3. api' \in [Node -> Object] /\ faults' \in 0..MaxFaults
    BY <1>0, <1>7, <2>1, CommitType DEF WorkerReady
  <2> QED
    BY <1>7, <2>2, <2>3 DEF TypeOK, CtlType, WorkerReady
<1>8. CASE RecordAddress(w)
  <2>1. CtlType' /\ faults' \in 0..MaxFaults
    BY <1>0, <1>8, ReturnType, ContinueType, FailsType, FaultType DEF RecordAddress, PC
  <2>2. netcfg' \in [exists: BOOLEAN, jc: Token, used: SUBSET Node]
    <3>1. netcfg' = netcfg \/ netcfg' = [netcfg EXCEPT !.used = netcfg.used \cup {w}]
      BY <1>8 DEF RecordAddress
    <3>2. netcfg.used \cup {w} \in SUBSET Node
      BY <1>0 DEF TypeOK
    <3> QED
      BY <3>1, <3>2 DEF TypeOK
  <2> QED
    BY <1>8, <2>1, <2>2 DEF TypeOK, CtlType, RecordAddress
<1> QED
  BY <1>1, <1>2, <1>3, <1>4, <1>5, <1>6, <1>7, <1>8 DEF ReconcileWorker

LEMMA PhaseLandsType ==
    ASSUME TypeOK, NEW i \in 0..LastCP, CPPhaseLands(i)
    PROVE  /\ host' \in [Node -> SUBSET (0..LastCP + LastWorker)]
           /\ netcfg' \in [exists: BOOLEAN, jc: Token, used: SUBSET Node]
<1>1. Effect(host[CP], i) \in SUBSET (0..LastCP + LastWorker)
  BY ClusterAssumption DEF TypeOK, Effect, Node
<1>2. NoNetConfig \in [exists: BOOLEAN, jc: Token, used: SUBSET Node]
  BY DEF NoNetConfig, Token
<1>3. host' = [host EXCEPT ![CP] = Effect(host[CP], i)]
  BY DEF CPPhaseLands
<1>4. netcfg' = NoNetConfig \/ netcfg' = netcfg
  BY DEF CPPhaseLands
<1> QED
  BY <1>1, <1>2, <1>3, <1>4 DEF TypeOK

\* The goroutine.
LEMMA JobType ==
    ASSUME TypeOK, Job
    PROVE  TypeOK'
<1> USE DEF ctlVars, secretVars
<1>1. CASE JobPhase
  <2>1. job.at \in 0..LastCP
    BY <1>1, ClusterAssumption DEF TypeOK, JobPhase
  <2>2. /\ host' \in [Node -> SUBSET (0..LastCP + LastWorker)]
        /\ netcfg' \in [exists: BOOLEAN, jc: Token, used: SUBSET Node]
    BY <1>1, <2>1, PhaseLandsType DEF JobPhase
  <2>3. job.at + 1 \in 0..LastCP + LastWorker + 1 /\ job.at \in -1..LastCP
    BY <2>1, ClusterAssumption
  <2>4. /\ job' \in [st: {"none", "running", "ok", "err"}, at: 0..LastCP + LastWorker + 1]
        /\ prog' \in -1..LastCP
    BY <1>1, <2>3 DEF TypeOK, JobPhase
  <2> QED
    BY <1>1, <2>2, <2>4 DEF TypeOK, JobPhase
<1>2. CASE JobEnds
  <2>1. [st |-> "ok", at |-> 0]
           \in [st: {"none", "running", "ok", "err"}, at: 0..LastCP + LastWorker + 1]
    BY ClusterAssumption
  <2> QED
    BY <1>2, <2>1 DEF TypeOK, JobEnds, remoteVars
<1>3. CASE JobFails
  <2>1. [st |-> "err", at |-> 0]
           \in [st: {"none", "running", "ok", "err"}, at: 0..LastCP + LastWorker + 1]
    BY ClusterAssumption
  <2>2. /\ host' \in [Node -> SUBSET (0..LastCP + LastWorker)]
        /\ netcfg' \in [exists: BOOLEAN, jc: Token, used: SUBSET Node]
    <3>1. CASE job.at <= LastCP /\ CPPhaseLands(job.at)
      <4>1. job.at \in 0..LastCP
        BY <3>1, ClusterAssumption DEF TypeOK
      <4> QED
        BY <3>1, <4>1, PhaseLandsType
    <3>2. CASE UNCHANGED <<host, netcfg>>
      BY <3>2 DEF TypeOK
    <3> QED
      BY <1>3, <3>1, <3>2 DEF JobFails
  <2>3. faults' \in 0..MaxFaults
    BY <1>3, FaultType DEF JobFails
  <2> QED
    BY <1>3, <2>1, <2>2, <2>3 DEF TypeOK, JobFails
<1> QED
  BY <1>1, <1>2, <1>3 DEF Job

LEMMA EditType ==
    ASSUME TypeOK, Edit
    PROVE  edits' \in 0..MaxEdits
BY ClusterAssumption DEF TypeOK, Edit

\* Users, crashes and time.
LEMMA EnvironmentType ==
    ASSUME TypeOK, Environment
    PROVE  TypeOK'
<1> USE DEF jobVars, remoteVars, secretVars
<1>1. ASSUME NEW n \in Node, UserEdits(n)
      PROVE  TypeOK'
  <2>1. edits' \in 0..MaxEdits
    BY <1>1, EditType DEF UserEdits
  <2> QED
    BY <1>1, <2>1 DEF TypeOK, UserEdits
<1>2. ASSUME NEW n \in Node, UserDeletes(n)
      PROVE  TypeOK'
  <2>1. edits' \in 0..MaxEdits
    BY <1>2, EditType DEF UserDeletes
  <2>2. api' \in [Node -> Object]
    <3>1. api[n] \in Object
      BY DEF TypeOK
    <3>2. (IF api[n].finalizer THEN [api[n] EXCEPT !.deleting = TRUE] ELSE NoObject) \in Object
      BY <3>1, ObjectFields, NoObjectType
    <3> QED
      BY <1>2, <3>2 DEF TypeOK, UserDeletes
  <2>3. copy' \in [Node -> BOOLEAN]
    <3>1. (copy[n] /\ api[n].finalizer) \in BOOLEAN
      OBVIOUS
    <3>2. copy' = [copy EXCEPT ![n] = copy[n] /\ api[n].finalizer]
      BY <1>2, Zenon DEF UserDeletes
    <3> QED
      BY <3>1, <3>2, Zenon DEF TypeOK
  <2> QED
    BY <1>2, <2>1, <2>2, <2>3 DEF TypeOK, UserDeletes
<1>3. ASSUME NEW n \in Node, TearDown(n)
      PROVE  TypeOK'
  BY <1>3 DEF TypeOK, TearDown, ctlVars
<1>4. CASE UserDeletesSecret
  <2>1. edits' \in 0..MaxEdits
    BY <1>4, EditType DEF UserDeletesSecret
  <2>2. auth' \in [Node -> SecretState] /\ vpn' \in SecretState
    BY <1>4 DEF TypeOK, UserDeletesSecret, Deleted, SecretState
  <2> QED
    BY <1>4, <2>1, <2>2 DEF TypeOK, UserDeletesSecret, ctlVars
<1>5. CASE Crash
  <2>1. faults' \in 0..MaxFaults
    BY <1>5, FaultType DEF Crash
  <2>2. /\ host' \in [Node -> SUBSET (0..LastCP + LastWorker)]
        /\ netcfg' \in [exists: BOOLEAN, jc: Token, used: SUBSET Node]
    <3>1. CASE job.at <= LastCP /\ CPPhaseLands(job.at)
      <4>1. job.at \in 0..LastCP
        BY <3>1, ClusterAssumption DEF TypeOK
      <4> QED
        BY <3>1, <4>1, PhaseLandsType
    <3>2. CASE ~(job.at <= LastCP /\ CPPhaseLands(job.at))
      <4>1. PICK landed \in SUBSET {w \in Worker : pc[w] = "join" /\ at[w] <= LastWorker
                                                    /\ CanRun(w, at[w])} :
              host' = [n \in Node |-> IF n \in landed THEN Effect(host[n], at[n])
                                      ELSE host[n]]
        BY <1>5, <3>2 DEF Crash
      <4>2. ASSUME NEW n \in landed
            PROVE  Effect(host[n], at[n]) \in SUBSET (0..LastCP + LastWorker)
        <5>1. n \in Node /\ at[n] \in 0..LastCP + LastWorker
          BY <4>1, <4>2, ClusterAssumption DEF TypeOK, Node
        <5> QED
          BY <5>1, ClusterAssumption DEF TypeOK, Effect
      <4>3. host' \in [Node -> SUBSET (0..LastCP + LastWorker)]
        BY <4>1, <4>2 DEF TypeOK
      <4> QED
        BY <1>5, <3>2, <4>3 DEF TypeOK, Crash
    <3> QED
      BY <3>1, <3>2
  <2>3. /\ NoJob \in [st: {"none", "running", "ok", "err"}, at: 0..LastCP + LastWorker + 1]
        /\ -1 \in -1..LastCP
    BY ClusterAssumption DEF NoJob
  <2>4. pc' \in [Node -> PC] /\ tok' \in [Node -> Token] /\ fresh' \in [Node -> BOOLEAN]
    BY <1>5 DEF Crash, PC, Token
  <2>5. loc' \in [Node -> Object] /\ at' \in [Node -> 0..LastCP + LastWorker + 1]
    BY <1>5, NoObjectType, ClusterAssumption DEF Crash
  <2>6. queue' \in [Node -> BOOLEAN]
    BY <1>5 DEF TypeOK, Object, Crash
  <2> QED
    BY <1>5, <2>1, <2>2, <2>3, <2>4, <2>5, <2>6 DEF TypeOK, Crash
<1>6. ASSUME NEW from \in {"temp", "old"}, NEW to \in {"old", "expired"}, NEW o \in Object
      PROVE  [o EXCEPT !.jc = Older(@, from, to)] \in Object
  <2>1. Older(o.jc, from, to) \in Token
    BY DEF Older, Object, Token
  <2> QED
    BY <2>1, ObjectFields
<1>7. ASSUME NEW from \in {"temp", "old"}, NEW to \in {"old", "expired"},
             netcfg' = [netcfg EXCEPT !.jc = Older(@, from, to)]
      PROVE  netcfg' \in [exists: BOOLEAN, jc: Token, used: SUBSET Node]
  <2>1. Older(netcfg.jc, from, to) \in Token
    BY DEF TypeOK, Older, Token
  <2> QED
    BY <1>7, <2>1 DEF TypeOK
<1>8. CASE TokenAges
  <2> DEFINE o == [api[CP] EXCEPT !.jc = Older(@, "temp", "old")]
  <2>1. CP \in Node /\ o \in Object
    BY <1>6 DEF TypeOK, Node
  <2>2. [o EXCEPT !.stamp = Older(@, "recent", "due")] \in Object
    <3> HIDE DEF o
    <3>1. Older(o.stamp, "recent", "due") \in {"none", "recent", "due"}
      BY <2>1 DEF Older, Object
    <3> QED
      BY <2>1, <3>1, ObjectFields
  <2>3. api' = [api EXCEPT ![CP] = [o EXCEPT !.stamp = Older(@, "recent", "due")]]
    BY <1>8, <2>1 DEF TypeOK, TokenAges, Object
  <2>4. api' \in [Node -> Object]
    BY <2>2, <2>3 DEF TypeOK
  <2>5. netcfg' \in [exists: BOOLEAN, jc: Token, used: SUBSET Node]
    BY <1>7, <1>8 DEF TokenAges
  <2> QED
    BY <1>8, <2>4, <2>5 DEF TypeOK, TokenAges, ctlVars
<1>9. CASE TokenExpires
  <2>1. [api[CP] EXCEPT !.jc = Older(@, "old", "expired")] \in Object
    BY <1>6 DEF TypeOK, Node
  <2>2. api' \in [Node -> Object]
    BY <1>9, <2>1 DEF TypeOK, TokenExpires
  <2>3. netcfg' \in [exists: BOOLEAN, jc: Token, used: SUBSET Node]
    BY <1>7, <1>9 DEF TokenExpires
  <2> QED
    BY <1>9, <2>2, <2>3 DEF TypeOK, TokenExpires, ctlVars
<1> QED
  BY <1>1, <1>2, <1>3, <1>4, <1>5, <1>8, <1>9 DEF Environment

LEMMA TypeInit == Init => TypeOK
<1> SUFFICES ASSUME Init
             PROVE  TypeOK
  OBVIOUS
<1>0. /\ queue = [n \in Node |-> TRUE] /\ pc = [n \in Node |-> "idle"]
      /\ loc = [n \in Node |-> NoObject] /\ fresh = [n \in Node |-> FALSE]
      /\ tok = [n \in Node |-> "none"] /\ at = [n \in Node |-> 0]
      /\ job = NoJob /\ prog = -1 /\ host = [n \in Node |-> {}]
      /\ tunnel = Node /\ teardown = {} /\ repo = FALSE /\ faults = 0 /\ edits = 0
  BY Zenon DEF Init
<1>1. api \in [Node -> Object]
  <2>1. [NoObject EXCEPT !.exists = TRUE] \in Object
    BY NoObjectType DEF Object
  <2>2. ASSUME NEW n \in Node
        PROVE  [[NoObject EXCEPT !.exists = TRUE] EXCEPT !.vpnRef = (n = CP)] \in Object
    BY <2>1, ObjectFields
  <2>3. api = [n \in Node |-> [NoObject EXCEPT !.exists = TRUE, !.vpnRef = (n = CP)]]
    BY Zenon DEF Init
  <2> QED
    BY <2>2, <2>3
<1>2. loc \in [Node -> Object]
  BY <1>0, NoObjectType
<1>3. /\ queue \in [Node -> BOOLEAN] /\ fresh \in [Node -> BOOLEAN]
      /\ pc \in [Node -> PC] /\ tok \in [Node -> Token]
      /\ at \in [Node -> 0..LastCP + LastWorker + 1]
  BY <1>0, ClusterAssumption DEF PC, Token
<1>4. /\ job \in [st: {"none", "running", "ok", "err"}, at: 0..LastCP + LastWorker + 1]
      /\ prog \in -1..LastCP
  BY <1>0, ClusterAssumption DEF NoJob
<1>5. /\ host \in [Node -> SUBSET (0..LastCP + LastWorker)]
      /\ tunnel \subseteq Node /\ teardown \subseteq Node /\ repo \in BOOLEAN
  BY <1>0
<1>8. faults \in 0..MaxFaults /\ edits \in 0..MaxEdits
  BY <1>0, ClusterAssumption
<1>6. netcfg \in [exists: BOOLEAN, jc: Token, used: SUBSET Node]
  BY DEF Init, NoNetConfig, Token
<1>7. auth \in [Node -> SecretState] /\ copy \in [Node -> BOOLEAN] /\ vpn \in SecretState
  BY DEF Init, SecretState
<1> QED
  BY <1>1, <1>2, <1>3, <1>4, <1>5, <1>6, <1>7, <1>8 DEF TypeOK

LEMMA TypeStep == TypeOK /\ [Next]_vars => TypeOK'
<1> SUFFICES ASSUME TypeOK, [Next]_vars
             PROVE  TypeOK'
  OBVIOUS
<1>1. ASSUME NEW n \in Node, Reconcile(n)
      PROVE  TypeOK'
  BY <1>1, CommonType, ControlPlaneType, WorkerType DEF Reconcile
<1>2. CASE UNCHANGED vars
  BY <1>2 DEF TypeOK, vars, ctlVars, jobVars, remoteVars, secretVars
<1> QED
  BY <1>1, <1>2, JobType, EnvironmentType DEF Next

\* Every variable keeps its type: what the resources, the machines and the secrets
\* are read as in every action of the controller (Reconcile and the goroutine).
THEOREM TypeCorrect == Spec => []TypeOK
<1>1. Init => TypeOK
  BY TypeInit
<1>2. TypeOK /\ [Next]_vars => TypeOK'
  BY TypeStep
<1> QED
  BY <1>1, <1>2, PTL DEF Spec

-----------------------------------------------------------------------------
(* What a step of one reconcile leaves alone.                              *)

\* The other reconciles' places, copies and resources.
OthersKept(n) ==
    \A m \in Node \ {n} :
        /\ api'[m] = api[m] /\ pc'[m] = pc[m] /\ loc'[m] = loc[m]
        /\ fresh'[m] = fresh[m] /\ at'[m] = at[m] /\ host'[m] = host[m]

LEMMA ResourceFrame ==
    ASSUME NEW m \in Node, ResourceInv(m),
           api'[m] = api[m], pc'[m] = pc[m], loc'[m] = loc[m],
           fresh'[m] = fresh[m], at'[m] = at[m], host'[m] = host[m]
    PROVE  ResourceInv(m)'
<1>1. Live(m)' = Live(m)
  BY DEF Live
<1>2. Gone(m)' /\ CopyCurrent(m)'
  BY <1>1 DEF ResourceInv, Gone, CopyCurrent
<1>3. ASSUME m # CP PROVE Joining(m)'
  BY <1>1, <1>3 DEF ResourceInv, Joining
<1> QED
  BY <1>1, <1>2, <1>3 DEF ResourceInv

LEMMA ControlPlaneFrame ==
    ASSUME JobOnly, Completion,
           api'[CP] = api[CP], pc'[CP] = pc[CP], loc'[CP] = loc[CP], host'[CP] = host[CP],
           job' = job, prog' = prog, netcfg'.exists = netcfg.exists
    PROVE  JobOnly' /\ Completion'
<1>1. Live(CP)' = Live(CP)
  BY DEF Live
<1>2. JobOnly'
  BY <1>1 DEF JobOnly
<1>3. Completion'
  BY <1>1 DEF Completion
<1> QED
  BY <1>2, <1>3

\* A step of the reconcile of n keeps the invariant when it keeps the part about n,
\* and, when n is the control plane, the part about the goroutine.
LEMMA OneReconcile ==
    ASSUME Inv, NEW n \in Node, OthersKept(n), ResourceInv(n)',
           n = CP => JobOnly' /\ Completion',
           n # CP => job' = job /\ prog' = prog /\ netcfg'.exists = netcfg.exists
    PROVE  Inv'
<1>1. ASSUME NEW m \in Node PROVE ResourceInv(m)'
  BY <1>1, ResourceFrame DEF Inv, OthersKept
<1>2. CASE n = CP
  BY <1>1, <1>2 DEF Inv
<1>3. CASE n # CP
  BY <1>1, <1>3, ControlPlaneFrame DEF Inv, OthersKept, Node
<1> QED
  BY <1>2, <1>3

\* What a reconcile has after the ways it can go on.
LEMMA GotoFacts ==
    ASSUME TypeOK, NEW n \in Node, NEW label, Goto(n, label)
    PROVE  /\ pc'[n] = label
           /\ \A m \in Node \ {n} : pc'[m] = pc[m]
BY DEF TypeOK, Goto

LEMMA ReturnFacts ==
    ASSUME TypeOK, NEW n \in Node, NEW r, Return(n, r)
    PROVE  /\ pc'[n] = "idle" /\ ~fresh'[n]
           /\ \A m \in Node \ {n} : /\ pc'[m] = pc[m] /\ loc'[m] = loc[m]
                                    /\ fresh'[m] = fresh[m] /\ at'[m] = at[m]
<1>1. /\ pc' = [pc EXCEPT ![n] = "idle"] /\ loc' = [loc EXCEPT ![n] = NoObject]
      /\ fresh' = [fresh EXCEPT ![n] = FALSE] /\ at' = [at EXCEPT ![n] = 0]
  BY DEF Return, Goto
<1> QED
  BY <1>1 DEF TypeOK

LEMMA ContinueFacts ==
    ASSUME TypeOK, NEW n \in Node, NEW label, Continue(n, label)
    PROVE  /\ pc'[n] = label
           /\ \A m \in Node \ {n} : pc'[m] = pc[m]
           /\ loc' = loc /\ fresh' = fresh /\ at' = at
BY GotoFacts DEF Continue

LEMMA ContinueWithFacts ==
    ASSUME TypeOK, NEW n \in Node, NEW label, NEW o, ContinueWith(n, label, o)
    PROVE  /\ pc'[n] = label /\ loc'[n] = o /\ fresh'[n]
           /\ \A m \in Node \ {n} : /\ pc'[m] = pc[m] /\ loc'[m] = loc[m]
                                    /\ fresh'[m] = fresh[m]
           /\ at' = at
<1>1. /\ Goto(n, label) /\ loc' = [loc EXCEPT ![n] = o]
      /\ fresh' = [fresh EXCEPT ![n] = TRUE] /\ at' = at
  BY DEF ContinueWith
<1> QED
  BY <1>1, GotoFacts DEF TypeOK

\* A copy written back is stored, or nothing is.
LEMMA CommitFacts ==
    ASSUME TypeOK, NEW n \in Node, NEW o, Commit(n, o) \/ Lost(n)
    PROVE  \/ /\ fresh[n] /\ api[n].exists /\ api'[n] = o
              /\ \A m \in Node \ {n} : api'[m] = api[m]
           \/ api' = api
BY DEF TypeOK, Commit, Lost

LEMMA AnnotateFacts ==
    ASSUME TypeOK, NEW n \in Node, NEW o, Annotate(n, o) \/ AnnotateLost(n)
    PROVE  /\ \/ api[n].exists /\ api'[n] = o /\ (fresh'[n] => fresh[n] /\ o = api[n])
              \/ api'[n] = api[n] /\ fresh'[n] = fresh[n]
           /\ \A m \in Node \ {n} : api'[m] = api[m] /\ fresh'[m] = fresh[m]
<1>1. CASE Annotate(n, o)
  <2>1. /\ api[n].exists /\ api' = [api EXCEPT ![n] = o]
        /\ fresh' = [fresh EXCEPT ![n] = fresh[n] /\ o = api[n]]
    BY <1>1, Zenon DEF Annotate
  <2>2. /\ fresh'[n] = (fresh[n] /\ o = api[n])
        /\ \A m \in Node \ {n} : fresh'[m] = fresh[m]
    BY <2>1, Zenon DEF TypeOK
  <2> QED
    BY <2>1, <2>2 DEF TypeOK
<1>2. CASE AnnotateLost(n)
  BY <1>2 DEF AnnotateLost
<1> QED
  BY <1>1, <1>2

LEMMA RefetchFacts ==
    ASSUME TypeOK, NEW n \in Node, NEW o, Refetched(n, o) \/ RefetchFails(n)
    PROVE  /\ \/ api[n].exists /\ api'[n] = o
              \/ api'[n] = api[n]
           /\ \A m \in Node \ {n} : api'[m] = api[m]
BY DEF TypeOK, Refetched, RefetchFails

\* What the controller's writes do to the fields the invariant is about.
LEMMA SamePhase ==
    ASSUME NEW o \in Object, NEW p
    PROVE  Same([o EXCEPT !.phase = p], o) /\ [o EXCEPT !.phase = p].phase = p
BY DEF Same, Object

LEMMA SameFinalizer ==
    ASSUME NEW o \in Object, NEW b
    PROVE  Same([o EXCEPT !.finalizer = b], o) /\ [o EXCEPT !.finalizer = b].phase = o.phase
BY DEF Same, Object

LEMMA SameNetDone ==
    ASSUME NEW o \in Object, NEW b
    PROVE  Same([o EXCEPT !.netDone = b], o) /\ [o EXCEPT !.netDone = b].phase = o.phase
BY DEF Same, Object

LEMMA SamePackages ==
    ASSUME NEW o \in Object, NEW b
    PROVE  Same([o EXCEPT !.pkgs = b], o) /\ [o EXCEPT !.pkgs = b].phase = o.phase
BY DEF Same, Object

LEMMA SameVPNRef ==
    ASSUME NEW o \in Object, NEW b
    PROVE  Same([o EXCEPT !.vpnRef = b], o) /\ [o EXCEPT !.vpnRef = b].phase = o.phase
BY DEF Same, Object

LEMMA SameStamp ==
    ASSUME NEW o \in Object, NEW s
    PROVE  Same([o EXCEPT !.stamp = s], o) /\ [o EXCEPT !.stamp = s].phase = o.phase
BY DEF Same, Object

LEMMA NoObjectFields ==
    /\ NoObject.exists = FALSE /\ NoObject.joined = FALSE /\ NoObject.jc = "none"
    /\ NoObject.deleting = FALSE /\ NoObject.phase = ""
BY DEF NoObject

\* A reconcile that stops, or is about to fail, with its resource as it was as far
\* as the invariant goes.
LEMMA QuietStep ==
    ASSUME TypeOK, Inv, NEW n \in Node, OthersKept(n),
           Same(api'[n], api[n]),
           api'[n] = api[n] \/ api[n].exists,
           host'[n] = host[n], job' = job, prog' = prog, netcfg.exists => netcfg'.exists,
           n = CP => api'[n].phase \in {api[n].phase, "Failed"},
           n # CP => netcfg'.exists = netcfg.exists,
           pc'[n] \in {"idle", "fail"},
           pc'[n] = "idle" => ~fresh'[n],
           fresh'[n] => Same(loc'[n], api'[n])
    PROVE  Inv'
<1>1. Live(n)' = Live(n)
  BY DEF Live, Same
<1>2. ResourceInv(n) /\ JobOnly /\ Completion
  BY DEF Inv
<1>3. Gone(n)'
  <2>1. Gone(n)
    BY <1>2 DEF ResourceInv
  <2>2. ~api'[n].exists => api'[n] = NoObject
    BY <2>1 DEF Same, Gone
  <2> QED
    BY <2>1, <2>2 DEF Gone, Same, DeletePC
<1>4. CopyCurrent(n)'
  BY DEF CopyCurrent, Early
<1>5. ASSUME n # CP PROVE Joining(n)'
  BY <1>1, <1>2, <1>5 DEF ResourceInv, Joining, Same
<1>6. Live(n)' => 0..api'[n].last \subseteq host'[n]
  BY <1>1, <1>2 DEF ResourceInv, Same
<1>7. ResourceInv(n)'
  BY <1>3, <1>4, <1>5, <1>6 DEF ResourceInv
<1>8. ASSUME n = CP PROVE JobOnly'
  BY <1>1, <1>2, <1>8 DEF JobOnly, Same, CompletePC, ReadyPC
<1>9. ASSUME n = CP PROVE Completion'
  BY <1>1, <1>2, <1>9 DEF Completion, Same, CompletePC, ReadyPC
<1> QED
  BY <1>7, <1>8, <1>9, OneReconcile

-----------------------------------------------------------------------------
(* The invariant, step by step: the steps either kind of resource takes.   *)

LEMMA StartKeeps ==
    ASSUME TypeOK, Inv, NEW n \in Node, Start(n)
    PROVE  Inv'
<1>0. /\ api' = api /\ host' = host /\ job' = job /\ prog' = prog /\ netcfg' = netcfg /\ at' = at
  BY DEF Start, jobVars, remoteVars
<1>1. ResourceInv(n) /\ JobOnly /\ Completion /\ pc[n] = "idle" /\ ~fresh[n]
  BY DEF Inv, ResourceInv, CopyCurrent, Start
<1>2. CASE api[n].exists /\ Dispatch(api[n]) # "idle"
  <2>1. /\ loc' = [loc EXCEPT ![n] = api[n]] /\ fresh' = [fresh EXCEPT ![n] = TRUE]
        /\ Goto(n, Dispatch(api[n]))
    BY <1>2 DEF Start
  <2>2. /\ loc'[n] = api[n] /\ fresh'[n] /\ pc'[n] = Dispatch(api[n])
        /\ OthersKept(n)
    BY <1>0, <2>1, GotoFacts DEF TypeOK, OthersKept
  <2>3. /\ pc'[n] \in {"reset", "finalizer", "protect"}
        /\ pc'[n] = "reset" => api[n].deleting
    BY <1>2, <2>2 DEF Dispatch
  <2>4. ResourceInv(n)'
    <3>1. Gone(n)' /\ CopyCurrent(n)'
      BY <1>0, <1>1, <2>2, <2>3
         DEF ResourceInv, Gone, CopyCurrent, Live, Same, DeletePC, Early
    <3>2. n # CP => Joining(n)'
      BY <1>0, <1>1, <2>3 DEF ResourceInv, Joining, Live
    <3> QED
      BY <1>0, <1>1, <3>1, <3>2 DEF ResourceInv, Live
  <2>5. ASSUME n = CP PROVE JobOnly' /\ Completion'
    BY <1>0, <1>1, <2>3, <2>5 DEF JobOnly, Completion, Live, CompletePC, ReadyPC
  <2> QED
    BY <1>0, <2>2, <2>4, <2>5, OneReconcile
<1>3. CASE ~(api[n].exists /\ Dispatch(api[n]) # "idle")
  <2>1. loc' = loc /\ fresh' = fresh /\ pc' = pc
    BY <1>3 DEF Start
  <2>2. /\ OthersKept(n) /\ ResourceInv(n)' /\ JobOnly' /\ Completion'
    BY <1>0, <1>1, <2>1, ResourceFrame, ControlPlaneFrame DEF OthersKept
  <2> QED
    BY <1>0, <2>2, OneReconcile
<1> QED
  BY <1>2, <1>3

LEMMA AddFinalizerKeeps ==
    ASSUME TypeOK, Inv, NEW n \in Node, AddFinalizer(n)
    PROVE  Inv'
<1> DEFINE o == [loc[n] EXCEPT !.finalizer = TRUE]
<1>0. /\ host' = host /\ job' = job /\ prog' = prog /\ netcfg' = netcfg
      /\ Commit(n, o) \/ Lost(n)
      /\ Return(n, TRUE)
  BY DEF AddFinalizer, jobVars, remoteVars
<1>1. Same(o, loc[n]) /\ o.phase = loc[n].phase
  BY SameFinalizer DEF TypeOK
<1> HIDE DEF o
<1>2. OthersKept(n) /\ pc'[n] = "idle" /\ ~fresh'[n]
  BY <1>0, CommitFacts, ReturnFacts DEF OthersKept
<1>3. /\ Same(api'[n], api[n]) /\ (api'[n] = api[n] \/ api[n].exists)
      /\ api'[n].phase = api[n].phase
  <2>1. CASE fresh[n] /\ api[n].exists /\ api'[n] = o
    <3>1. Same(loc[n], api[n]) /\ loc[n].phase = api[n].phase
      BY <2>1 DEF Inv, ResourceInv, CopyCurrent, AddFinalizer
    <3> QED
      BY <1>1, <2>1, <3>1 DEF Same
  <2>2. CASE api' = api
    BY <2>2 DEF Same
  <2> QED
    BY <1>0, <2>1, <2>2, CommitFacts
<1> QED
  BY <1>0, <1>2, <1>3, QuietStep

LEMMA ProtectSecretsKeeps ==
    ASSUME TypeOK, Inv, NEW n \in Node, ProtectSecrets(n)
    PROVE  Inv'
<1>0. /\ api' = api /\ host' = host /\ job' = job /\ prog' = prog /\ netcfg' = netcfg
      /\ pc[n] = "protect"
      /\ IF AfterProtect(n) = "idle" THEN Return(n, FALSE) ELSE Continue(n, AfterProtect(n))
  BY DEF ProtectSecrets, jobVars, remoteVars
<1>1. ResourceInv(n) /\ JobOnly /\ Completion
  BY DEF Inv
<1>2. CASE AfterProtect(n) = "idle"
  <2>1. OthersKept(n) /\ pc'[n] = "idle" /\ ~fresh'[n]
    BY <1>0, <1>2, ReturnFacts DEF OthersKept
  <2> QED
    BY <1>0, <2>1, QuietStep DEF Same
<1>3. CASE AfterProtect(n) # "idle"
  <2>1. /\ OthersKept(n) /\ pc'[n] = AfterProtect(n)
        /\ loc' = loc /\ fresh' = fresh /\ at' = at
    BY <1>0, <1>3, ContinueFacts DEF OthersKept
  <2>2. /\ pc'[n] \in {"provision", "token", "netconfig"}
        /\ pc'[n] \in {"token", "netconfig"} => n = CP /\ loc[n].phase = "Ready"
        /\ pc'[n] = "provision" => loc[n].phase # "Ready"
    BY <1>3, <2>1 DEF AfterProtect
  <2>3. Live(n) => Same(loc[n], api[n]) /\ loc[n].phase = api[n].phase
    BY <1>0, <1>1 DEF ResourceInv, CopyCurrent, Early, Live
  <2>4. ResourceInv(n)'
    <3>1. Gone(n)' /\ CopyCurrent(n)'
      BY <1>0, <1>1, <2>1, <2>2, <2>3
         DEF ResourceInv, Gone, CopyCurrent, Live, DeletePC, Early
    <3>2. n # CP => Joining(n)'
      BY <1>0, <1>1, <2>1, <2>2 DEF ResourceInv, Joining, Live
    <3> QED
      BY <1>0, <1>1, <3>1, <3>2 DEF ResourceInv, Live
  <2>5. ASSUME n = CP PROVE JobOnly' /\ Completion'
    <3>1. JobOnly'
      BY <1>0, <1>1, <2>1, <2>2, <2>3, <2>5 DEF JobOnly, Live, CompletePC, ReadyPC
    <3>2. Completion'
      BY <1>0, <1>1, <2>1, <2>2, <2>3, <2>5 DEF Completion, Live, CompletePC, ReadyPC
    <3> QED
      BY <3>1, <3>2
  <2> QED
    BY <1>0, <2>1, <2>4, <2>5, OneReconcile
<1> QED
  BY <1>2, <1>3

LEMMA MarkProvisioningKeeps ==
    ASSUME TypeOK, Inv, NEW n \in Node, MarkProvisioning(n)
    PROVE  Inv'
<1> DEFINE o == [loc[n] EXCEPT !.phase = "Provisioning"]
<1>0. /\ host' = host /\ job' = job /\ prog' = prog /\ netcfg' = netcfg
      /\ fresh' = fresh /\ at' = at /\ pc[n] = "provision"
      /\ Commit(n, o) \/ Lost(n)
      /\ loc' = [loc EXCEPT ![n].phase = "Provisioning"]
      /\ Goto(n, IF n = CP THEN "init" ELSE "connect")
  BY DEF MarkProvisioning, jobVars, remoteVars
<1>1. Same(o, loc[n]) /\ o.phase = "Provisioning"
  BY SamePhase DEF TypeOK
<1>2. loc'[n] = o /\ \A m \in Node \ {n} : loc'[m] = loc[m]
  BY <1>0 DEF TypeOK
<1> HIDE DEF o
<1>3. OthersKept(n) /\ pc'[n] = (IF n = CP THEN "init" ELSE "connect")
  BY <1>0, <1>2, CommitFacts, GotoFacts DEF OthersKept
<1>4. ResourceInv(n) /\ JobOnly /\ Completion
  BY DEF Inv
<1>5. /\ Same(api'[n], api[n]) /\ (api'[n] = api[n] \/ api[n].exists)
      /\ api'[n].phase \in {api[n].phase, "Provisioning"}
      /\ fresh[n] /\ api[n].exists => Same(o, api'[n])
  <2>1. fresh[n] /\ api[n].exists => Same(loc[n], api[n])
    BY <1>4 DEF ResourceInv, CopyCurrent
  <2>2. CASE fresh[n] /\ api[n].exists /\ api'[n] = o
    BY <1>1, <2>1, <2>2 DEF Same
  <2>3. CASE api' = api
    BY <1>1, <2>1, <2>3 DEF Same
  <2> QED
    BY <1>0, <2>2, <2>3, CommitFacts
<1>6. Live(n)' = Live(n)
  BY <1>5 DEF Live, Same
<1>7. ResourceInv(n)'
  <2>1. Gone(n)'
    <3>1. ~api'[n].exists => api'[n] = NoObject
      BY <1>4, <1>5 DEF ResourceInv, Gone, Same
    <3> QED
      BY <1>3, <1>4, <1>5, <3>1 DEF ResourceInv, Gone, Same, DeletePC
  <2>2. CopyCurrent(n)'
    <3>1. Live(n) => Same(o, api'[n])
      BY <1>0, <1>1, <1>4, <1>5 DEF ResourceInv, CopyCurrent, Early, Same
    <3>2. api'[n].exists = api[n].exists
      BY <1>5 DEF Same
    <3> QED
      BY <1>0, <1>2, <1>3, <1>5, <1>6, <3>1, <3>2 DEF CopyCurrent
  <2>3. n # CP => Joining(n)'
    BY <1>0, <1>3, <1>4, <1>5, <1>6 DEF ResourceInv, Joining, Same
  <2> QED
    BY <1>0, <1>4, <1>5, <1>6, <2>1, <2>2, <2>3 DEF ResourceInv, Same
<1>8. ASSUME n = CP PROVE JobOnly' /\ Completion'
  <2>1. JobOnly'
    BY <1>0, <1>3, <1>4, <1>5, <1>6, <1>8 DEF JobOnly, Same, CompletePC, ReadyPC
  <2>2. Completion'
    BY <1>0, <1>1, <1>2, <1>3, <1>4, <1>5, <1>6, <1>8
       DEF Completion, Same, CompletePC, ReadyPC
  <2> QED
    BY <2>1, <2>2
<1> QED
  BY <1>0, <1>3, <1>7, <1>8, OneReconcile

LEMMA FailKeeps ==
    ASSUME TypeOK, Inv, NEW n \in Node, Fail(n)
    PROVE  Inv'
<1> DEFINE o == [loc[n] EXCEPT !.phase = "Failed"]
<1>0. /\ host' = host /\ job' = job /\ prog' = prog /\ netcfg' = netcfg
      /\ Commit(n, o) \/ Lost(n)
      /\ Return(n, TRUE)
  BY DEF Fail, jobVars, remoteVars
<1>1. Same(o, loc[n]) /\ o.phase = "Failed"
  BY SamePhase DEF TypeOK
<1> HIDE DEF o
<1>2. OthersKept(n) /\ pc'[n] = "idle" /\ ~fresh'[n]
  BY <1>0, CommitFacts, ReturnFacts DEF OthersKept
<1>3. /\ Same(api'[n], api[n]) /\ (api'[n] = api[n] \/ api[n].exists)
      /\ api'[n].phase \in {api[n].phase, "Failed"}
  <2>1. CASE fresh[n] /\ api[n].exists /\ api'[n] = o
    <3>1. Same(loc[n], api[n])
      BY <2>1 DEF Inv, ResourceInv, CopyCurrent
    <3> QED
      BY <1>1, <2>1, <3>1 DEF Same
  <2>2. CASE api' = api
    BY <2>2 DEF Same
  <2> QED
    BY <1>0, <2>1, <2>2, CommitFacts
<1> QED
  BY <1>0, <1>2, <1>3, QuietStep

\* The steps of a deletion: the resource is not live any more.
LEMMA DeleteStep ==
    ASSUME TypeOK, Inv, NEW n \in Node, ~Live(n), OthersKept(n),
           api'[n] = api[n] \/ api'[n] = NoObject,
           job' = job, prog' = prog,
           n # CP => netcfg'.exists = netcfg.exists,
           host'[n] \in {host[n], {}},
           pc'[n] = "idle" => ~fresh'[n],
           fresh'[n] /\ api'[n].exists => Same(loc'[n], api'[n]),
           pc'[n] \notin {"finalizer", "protect"}
    PROVE  Inv'
<1>1. ResourceInv(n) /\ JobOnly
  BY DEF Inv
<1>2. ~Live(n)'
  BY NoObjectFields DEF Live
<1>3. Gone(n)' /\ CopyCurrent(n)'
  BY <1>1, <1>2, NoObjectFields DEF ResourceInv, Gone, CopyCurrent
<1>4. ResourceInv(n)'
  BY <1>2, <1>3 DEF ResourceInv, Joining
<1>5. ASSUME n = CP PROVE JobOnly' /\ Completion'
  BY <1>1, <1>2, <1>5 DEF JobOnly, Completion
<1> QED
  BY <1>4, <1>5, OneReconcile

LEMMA DeletionKeeps ==
    ASSUME TypeOK, Inv, NEW n \in Node,
           ResetHost(n) \/ RemovePeer(n) \/ ReleaseSecrets(n) \/ RemoveFinalizer(n)
    PROVE  Inv'
<1> USE DEF jobVars, remoteVars
<1>1. ~Live(n) /\ (fresh[n] /\ api[n].exists => Same(loc[n], api[n]))
  BY DEF Inv, ResourceInv, Gone, CopyCurrent, DeletePC, ResetHost, RemovePeer,
         ReleaseSecrets, RemoveFinalizer
<1>2. CASE ResetHost(n)
  <2>1. /\ Continue(n, "unpeer") /\ api' = api /\ job' = job /\ prog' = prog
        /\ host' = [host EXCEPT ![n] = {}] \/ host' = host
        /\ n # CP => netcfg' = netcfg
    BY <1>2 DEF ResetHost
  <2>2. OthersKept(n) /\ host'[n] \in {host[n], {}}
    BY <2>1, ContinueFacts DEF TypeOK, OthersKept
  <2> QED
    BY <1>1, <2>1, <2>2, ContinueFacts, DeleteStep
<1>3. CASE RemovePeer(n)
  <2> DEFINE ref == loc[n].vpnRef \/ (n # CP /\ api[CP].exists /\ api[CP].vpnRef)
  <2>1. /\ Goto(n, "release") /\ api' = api /\ job' = job /\ prog' = prog
        /\ host' = host /\ netcfg' = netcfg /\ fresh' = fresh /\ at' = at
        /\ loc' = [loc EXCEPT ![n].vpnRef = ref]
    BY <1>3 DEF RemovePeer
  <2>2. ref \in BOOLEAN /\ loc[n] \in Object
    BY DEF TypeOK, Object
  <2> HIDE DEF ref
  <2>3. loc'[n] = [loc[n] EXCEPT !.vpnRef = ref] /\ \A m \in Node \ {n} : loc'[m] = loc[m]
    BY <2>1 DEF TypeOK
  <2>4. Same(loc'[n], loc[n])
    BY <2>2, <2>3, SameVPNRef
  <2>5. OthersKept(n) /\ pc'[n] = "release"
    BY <2>1, <2>3, GotoFacts DEF OthersKept
  <2>6. fresh'[n] /\ api'[n].exists => Same(loc'[n], api'[n])
    BY <1>1, <2>1, <2>4 DEF Same
  <2> QED
    BY <1>1, <2>1, <2>5, <2>6, DeleteStep
<1>4. CASE ReleaseSecrets(n)
  <2>1. /\ Continue(n, "unfinalize") /\ api' = api /\ job' = job /\ prog' = prog
        /\ host' = host /\ netcfg' = netcfg
    BY <1>4 DEF ReleaseSecrets
  <2>2. OthersKept(n)
    BY <2>1, ContinueFacts DEF OthersKept
  <2> QED
    BY <1>1, <2>1, <2>2, ContinueFacts, DeleteStep
<1>5. CASE RemoveFinalizer(n)
  <2>1. /\ Commit(n, NoObject) \/ Lost(n)
        /\ Return(n, FALSE) \/ Return(n, TRUE)
        /\ job' = job /\ prog' = prog /\ host' = host /\ netcfg' = netcfg
    BY <1>5 DEF RemoveFinalizer
  <2>2. OthersKept(n) /\ pc'[n] = "idle" /\ ~fresh'[n]
    BY <2>1, CommitFacts, ReturnFacts DEF OthersKept
  <2>3. api'[n] = api[n] \/ api'[n] = NoObject
    BY <2>1, CommitFacts
  <2> QED
    BY <1>1, <2>1, <2>2, <2>3, DeleteStep
<1> QED
  BY <1>2, <1>3, <1>4, <1>5

-----------------------------------------------------------------------------
(* The control plane's steps, and the goroutine.                           *)

\* The part about the resource, at a place past the early ones.
LEMMA ControlPlaneResource ==
    ASSUME ResourceInv(CP),
           api'[CP].exists = api[CP].exists, api'[CP].deleting = api[CP].deleting,
           api'[CP].joined = api[CP].joined,
           api'[CP] = api[CP] \/ api[CP].exists,
           0..api'[CP].last \subseteq host'[CP] \/ (api'[CP].last = api[CP].last /\ host' = host),
           pc'[CP] \notin Early \cup DeletePC,
           pc'[CP] = "idle" => ~fresh'[CP],
           fresh'[CP] /\ api'[CP].exists => Same(loc'[CP], api'[CP])
    PROVE  ResourceInv(CP)'
<1>1. Live(CP)' = Live(CP)
  BY DEF Live
<1>2. Gone(CP)' /\ CopyCurrent(CP)'
  BY <1>1 DEF ResourceInv, Gone, CopyCurrent, Early
<1> QED
  BY <1>1, <1>2 DEF ResourceInv

\* A step that moves the reconcile on and writes nothing to the resource.
LEMMA ControlPlaneMoves ==
    ASSUME TypeOK, Inv, OthersKept(CP), api' = api, host' = host,
           loc' = loc, fresh' = fresh, job' = job, prog' = prog,
           netcfg.exists => netcfg'.exists,
           Live(CP) /\ job.st # "none" => pc'[CP] \notin CompletePC \cup ReadyPC \cup {"clear"},
           Live(CP) /\ pc'[CP] \in CompletePC => host[CP] = Phases(CP),
           pc'[CP] \in {"netstamp", "publish"} => netcfg'.exists,
           Live(CP) /\ pc'[CP] \in ReadyPC => api[CP].phase = "Ready",
           Live(CP) /\ pc'[CP] \in CompletePC /\ loc[CP].phase = "Ready" => api[CP].phase = "Ready",
           pc'[CP] \in CompletePC \cup ReadyPC \cup {"clear", "fail"}
    PROVE  Inv'
<1>1. ResourceInv(CP) /\ JobOnly /\ Completion /\ CP \in Node
  BY DEF Inv, Node
<1>2. ResourceInv(CP)'
  <2>1. pc'[CP] \notin Early \cup DeletePC \cup {"idle"}
    BY DEF Early, DeletePC, CompletePC, ReadyPC
  <2>2. fresh'[CP] /\ api'[CP].exists => Same(loc'[CP], api'[CP])
    BY <1>1 DEF ResourceInv, CopyCurrent
  <2> QED
    BY <1>1, <2>1, <2>2, ControlPlaneResource
<1>3. JobOnly'
  BY <1>1 DEF JobOnly, Live
<1>4. Completion'
  <2>1. pc'[CP] \notin {"provision", "init"}
    BY DEF CompletePC, ReadyPC
  <2> QED
    BY <1>1, <2>1 DEF Completion, Live
<1> QED
  BY <1>1, <1>2, <1>3, <1>4, OneReconcile

\* What holds where reconcileControlPlane begins.
LEMMA AtInit ==
    ASSUME Inv, pc[CP] = "init", Live(CP)
    PROVE  /\ Same(loc[CP], api[CP])
           /\ loc[CP].phase = "Ready" => api[CP].phase = "Ready"
           /\ api[CP].phase # "Ready"
           /\ 0..api[CP].last \subseteq host[CP]
BY DEF Inv, ResourceInv, CopyCurrent, Early, Completion, Node

LEMMA InitKeeps ==
    ASSUME TypeOK, Inv, AlreadyInitialised \/ ResumeCompletion
    PROVE  Inv'
<1> USE DEF jobVars, remoteVars
<1>0. CP \in Node
  BY DEF Node
<1>1. CASE AlreadyInitialised
  <2>1. /\ Return(CP, TRUE) /\ api' = api /\ job' = job /\ prog' = prog /\ host' = host
        /\ netcfg' = netcfg
    BY <1>1 DEF AlreadyInitialised
  <2>2. OthersKept(CP) /\ pc'[CP] = "idle" /\ ~fresh'[CP]
    BY <1>0, <2>1, ReturnFacts DEF OthersKept
  <2> QED
    BY <1>0, <2>1, <2>2, QuietStep DEF Same
<1>2. CASE ResumeCompletion
  <2>1. /\ pc[CP] = "init" /\ loc[CP].cache # "none" /\ Goto(CP, "repo")
        /\ api' = api /\ job' = job /\ prog' = prog /\ host' = host /\ netcfg' = netcfg
        /\ loc' = loc /\ fresh' = fresh /\ at' = at
    BY <1>2 DEF ResumeCompletion, ToInit
  <2>2. OthersKept(CP) /\ pc'[CP] = "repo"
    BY <1>0, <2>1, GotoFacts DEF OthersKept
  <2>3. Live(CP) => /\ job.st = "none" /\ host[CP] = Phases(CP)
                    /\ loc[CP].phase = "Ready" => api[CP].phase = "Ready"
    BY <2>1, AtInit DEF Inv, JobOnly, Completion, Same
  <2> QED
    BY <1>0, <2>1, <2>2, <2>3, ControlPlaneMoves DEF CompletePC, ReadyPC
<1> QED
  BY <1>1, <1>2

LEMMA StartJobKeeps ==
    ASSUME TypeOK, Inv, StartJob
    PROVE  Inv'
<1> USE DEF jobVars, remoteVars
<1>0. /\ CP \in Node /\ pc[CP] = "init" /\ loc[CP].cache = "none" /\ loc[CP].jc = "none"
      /\ job.st = "none" /\ prog = -1
      /\ api' = api /\ prog' = prog /\ host' = host /\ netcfg' = netcfg
      /\ ResourceInv(CP) /\ JobOnly /\ Completion
  BY DEF StartJob, ToInit, Inv, JobOnly, Node
<1>1. CASE job' = job /\ Continue(CP, "fail")
  <2>1. OthersKept(CP) /\ pc'[CP] = "fail" /\ loc' = loc /\ fresh' = fresh
    BY <1>0, <1>1, ContinueFacts DEF OthersKept
  <2> QED
    BY <1>0, <1>1, <2>1, ControlPlaneMoves DEF CompletePC, ReadyPC
<1>2. CASE job' = [st |-> "running", at |-> StartPhase(loc[CP])] /\ Return(CP, TRUE)
  <2>1. OthersKept(CP) /\ pc'[CP] = "idle" /\ ~fresh'[CP]
    BY <1>0, <1>2, ReturnFacts DEF OthersKept
  <2>2. job'.st = "running" /\ job'.at = StartPhase(loc[CP])
    BY <1>2
  <2>3. ResourceInv(CP)'
    BY <1>0, <2>1, ControlPlaneResource DEF Early, DeletePC
  <2>4. JobOnly'
    <3>1. CASE Live(CP)
      <4>1. /\ api[CP].cache = "none" /\ api[CP].jc = "none" /\ api[CP].phase # "Ready"
            /\ loc[CP].last = api[CP].last /\ 0..api[CP].last \subseteq host[CP]
        BY <1>0, <3>1, AtInit DEF Same
      <4>2. api[CP].last \in -1..LastCP + LastWorker
        BY <1>0 DEF TypeOK, Object
      <4>3. 0..(StartPhase(loc[CP]) - 1) \subseteq host[CP]
        BY <4>1, <4>2, ClusterAssumption DEF StartPhase
      <4>4. StartPhase(loc[CP]) = 0 => api[CP].last = -1
        BY <4>1, <4>2, ClusterAssumption DEF StartPhase
      <4>5. 0..prog' \subseteq host[CP]
        BY <1>0
      <4> QED
        BY <1>0, <2>1, <2>2, <3>1, <4>1, <4>3, <4>4, <4>5
           DEF JobOnly, Live, CompletePC, ReadyPC
    <3>2. CASE ~Live(CP)
      BY <1>0, <2>2, <3>2 DEF JobOnly, Live
    <3> QED
      BY <3>1, <3>2
  <2>5. Completion'
    BY <1>0, <2>1 DEF Completion, Live, CompletePC, ReadyPC
  <2> QED
    BY <1>0, <2>1, <2>3, <2>4, <2>5, OneReconcile
<1> QED
  BY <1>1, <1>2 DEF StartJob

\* What a change of last-completed-phase leaves alone.
LEMMA LastFields ==
    ASSUME NEW o \in Object, NEW i
    PROVE  LET q == [o EXCEPT !.last = i] IN
             /\ q.exists = o.exists /\ q.deleting = o.deleting /\ q.jc = o.jc
             /\ q.cache = o.cache /\ q.joined = o.joined /\ q.phase = o.phase
             /\ q.last = i
BY DEF Object

LEMMA FlushProgressKeeps ==
    ASSUME TypeOK, Inv, FlushProgress
    PROVE  Inv'
<1> USE DEF jobVars, remoteVars
<1> DEFINE o == [api[CP] EXCEPT !.last = prog]
<1>0. /\ CP \in Node /\ job.st = "running" /\ pc[CP] = "init" /\ Return(CP, TRUE)
      /\ job' = job /\ prog' = prog /\ host' = host /\ netcfg' = netcfg
      /\ ResourceInv(CP) /\ JobOnly /\ Completion
      /\ api[CP] \in Object
  BY DEF FlushProgress, ToInit, Inv, Node, TypeOK
<1>1. OthersKept(CP) /\ pc'[CP] = "idle" /\ ~fresh'[CP]
  <2>1. \A m \in Node \ {CP} : api'[m] = api[m]
    BY DEF FlushProgress, TypeOK
  <2> QED
    BY <1>0, <2>1, ReturnFacts DEF OthersKept
<1>2. CASE api' = api
  BY <1>0, <1>1, <1>2, QuietStep DEF Same
<1>3. CASE prog # -1 /\ api[CP].exists /\ api' = [api EXCEPT ![CP] = o]
  <2>1. api'[CP] = o
    BY <1>0, <1>3 DEF TypeOK
  <2>2. /\ api'[CP].exists = api[CP].exists /\ api'[CP].deleting = api[CP].deleting
        /\ api'[CP].jc = api[CP].jc /\ api'[CP].cache = api[CP].cache
        /\ api'[CP].joined = api[CP].joined /\ api'[CP].phase = api[CP].phase
        /\ api'[CP].last = prog
    BY <1>0, <2>1, LastFields
  <2>3. Live(CP)' = Live(CP)
    BY <2>2 DEF Live
  <2>4. Live(CP) => 0..prog \subseteq host[CP]
    BY <1>0 DEF JobOnly
  <2>5. ResourceInv(CP)'
    <3>1. Gone(CP)' /\ CopyCurrent(CP)'
      BY <1>0, <1>1, <1>3, <2>2, <2>3
         DEF ResourceInv, Gone, CopyCurrent, Early, DeletePC
    <3> QED
      BY <1>0, <2>2, <2>3, <2>4, <3>1 DEF ResourceInv
  <2>6. JobOnly'
    BY <1>0, <1>1, <1>3, <2>2, <2>3 DEF JobOnly, CompletePC, ReadyPC
  <2>7. Completion'
    BY <1>0, <1>1, <2>2, <2>3 DEF Completion, CompletePC, ReadyPC
  <2> QED
    BY <1>0, <1>1, <2>5, <2>6, <2>7, OneReconcile
<1>4. api' = api \/ (prog # -1 /\ api[CP].exists /\ api' = [api EXCEPT ![CP] = o])
  <2> HIDE DEF o
  <2>1. \/ /\ prog # -1 /\ api[CP].exists /\ api' = [api EXCEPT ![CP].last = prog]
        \/ api' = api
    BY DEF FlushProgress
  <2> QED
    BY <1>0, <2>1 DEF TypeOK, o
<1> QED
  BY <1>2, <1>3, <1>4

LEMMA TakeResultKeeps ==
    ASSUME TypeOK, Inv, TakeResult
    PROVE  Inv'
<1> USE DEF jobVars, remoteVars
<1> DEFINE o == [api[CP] EXCEPT !.last = prog]
<1>0. /\ CP \in Node /\ pc[CP] = "init" /\ job.st \in {"ok", "err"}
      /\ host' = host /\ netcfg' = netcfg /\ loc' = loc /\ at' = at
      /\ job' = NoJob /\ prog' = -1
      /\ ResourceInv(CP) /\ JobOnly /\ Completion /\ api[CP] \in Object
  BY DEF TakeResult, ToInit, Inv, Node, TypeOK
<1>1. /\ pc'[CP] = (IF job.st = "ok" THEN "stamp" ELSE "fail")
      /\ \A m \in Node \ {CP} : pc'[m] = pc[m]
  <2>1. Goto(CP, IF job.st = "ok" THEN "stamp" ELSE "fail")
    BY DEF TakeResult
  <2> QED
    BY <1>0, <2>1, GotoFacts
<1>2. /\ \/ /\ api[CP].exists /\ api'[CP] = o
            /\ fresh'[CP] => fresh[CP] /\ o = api[CP]
         \/ api'[CP] = api[CP] /\ fresh'[CP] = fresh[CP]
      /\ \A m \in Node \ {CP} : api'[m] = api[m] /\ fresh'[m] = fresh[m]
  <2> HIDE DEF o
  <2>1. \/ Annotate(CP, o) \/ AnnotateLost(CP)
        \/ UNCHANGED <<api, fresh>>
    BY DEF TakeResult, o
  <2> QED
    BY <1>0, <2>1, AnnotateFacts
<1>3. /\ api'[CP].exists = api[CP].exists /\ api'[CP].deleting = api[CP].deleting
      /\ api'[CP].jc = api[CP].jc /\ api'[CP].cache = api[CP].cache
      /\ api'[CP].joined = api[CP].joined /\ api'[CP].phase = api[CP].phase
      /\ api'[CP].last \in {prog, api[CP].last}
  <2>1. /\ o.exists = api[CP].exists /\ o.deleting = api[CP].deleting /\ o.jc = api[CP].jc
        /\ o.cache = api[CP].cache /\ o.joined = api[CP].joined /\ o.phase = api[CP].phase
        /\ o.last = prog
    BY <1>0, LastFields
  <2> HIDE DEF o
  <2> QED
    BY <1>2, <2>1
<1>4. Live(CP)' = Live(CP)
  BY <1>3 DEF Live
<1>5. /\ job'.st = "none" /\ OthersKept(CP)
      /\ fresh'[CP] => fresh[CP] /\ api'[CP] = api[CP]
  BY <1>0, <1>1, <1>2 DEF NoJob, OthersKept
<1>6. Live(CP) => /\ 0..prog \subseteq host[CP] /\ api[CP].phase # "Ready"
                  /\ job.st = "ok" => host[CP] = Phases(CP)
                  /\ loc[CP].phase = "Ready" => api[CP].phase = "Ready"
  BY <1>0, AtInit DEF JobOnly
<1>7. ResourceInv(CP)'
  <2>1. Gone(CP)'
    BY <1>0, <1>1, <1>2, <1>3, <1>4 DEF ResourceInv, Gone, DeletePC
  <2>2. CopyCurrent(CP)'
    BY <1>0, <1>1, <1>3, <1>5 DEF ResourceInv, CopyCurrent, Early
  <2> QED
    BY <1>0, <1>3, <1>4, <1>6, <2>1, <2>2 DEF ResourceInv
<1>8. JobOnly'
  BY <1>0, <1>4, <1>5 DEF JobOnly
<1>9. Completion'
  BY <1>0, <1>1, <1>3, <1>4, <1>6 DEF Completion, CompletePC, ReadyPC
<1> QED
  BY <1>0, <1>5, <1>7, <1>8, <1>9, OneReconcile

LEMMA MarkInitCompleteKeeps ==
    ASSUME TypeOK, Inv, MarkInitComplete
    PROVE  Inv'
<1> USE DEF jobVars, remoteVars
<1> DEFINE o == [api[CP] EXCEPT !.last = -1, !.cache = tok[CP]]
<1>0. /\ CP \in Node /\ pc[CP] = "stamp" /\ Goto(CP, "repo")
      /\ host' = host /\ netcfg' = netcfg /\ loc' = loc /\ at' = at /\ job' = job /\ prog' = prog
      /\ ResourceInv(CP) /\ JobOnly /\ Completion /\ api[CP] \in Object
      /\ Annotate(CP, o) \/ AnnotateLost(CP)
  BY DEF MarkInitComplete, Inv, Node, TypeOK
<1>1. /\ o.exists = api[CP].exists /\ o.deleting = api[CP].deleting /\ o.jc = api[CP].jc
      /\ o.joined = api[CP].joined /\ o.phase = api[CP].phase /\ o.last = -1
  BY <1>0 DEF Object
<1> HIDE DEF o
<1>2. /\ pc'[CP] = "repo" /\ OthersKept(CP)
      /\ fresh'[CP] => fresh[CP] /\ api'[CP] = api[CP]
      /\ api'[CP] = api[CP] \/ (api'[CP] = o /\ api[CP].exists)
  BY <1>0, AnnotateFacts, GotoFacts DEF OthersKept
<1>3. /\ api'[CP].exists = api[CP].exists /\ api'[CP].deleting = api[CP].deleting
      /\ api'[CP].jc = api[CP].jc /\ api'[CP].joined = api[CP].joined
      /\ api'[CP].phase = api[CP].phase /\ api'[CP].last \in {-1, api[CP].last}
  BY <1>1, <1>2
<1>4. Live(CP)' = Live(CP)
  BY <1>3 DEF Live
<1>5. Live(CP) => /\ job.st = "none" /\ host[CP] = Phases(CP)
                  /\ loc[CP].phase = "Ready" => api[CP].phase = "Ready"
  BY <1>0 DEF JobOnly, Completion, CompletePC
<1>6. ResourceInv(CP)'
  <2>1. Gone(CP)' /\ CopyCurrent(CP)'
    BY <1>0, <1>2, <1>3, <1>4 DEF ResourceInv, Gone, CopyCurrent, Early, DeletePC
  <2> QED
    BY <1>0, <1>3, <1>4, <2>1 DEF ResourceInv
<1>7. JobOnly'
  BY <1>0, <1>4, <1>5 DEF JobOnly
<1>8. Completion'
  BY <1>0, <1>2, <1>3, <1>4, <1>5 DEF Completion, CompletePC, ReadyPC
<1> QED
  BY <1>0, <1>2, <1>6, <1>7, <1>8, OneReconcile

\* completeControlPlane up to the NetConfig, and the places of the Ready path that
\* write nothing to the resource.
LEMMA MovesKeep ==
    ASSUME TypeOK, Inv,
           EnsureRepo \/ CreateNetConfig \/ SkipRefresh \/ PatchNetJoin
    PROVE  Inv'
<1> USE DEF jobVars, remoteVars
<1>0. CP \in Node /\ JobOnly /\ Completion
  BY DEF Inv, Node
<1>1. CASE EnsureRepo
  <2>1. /\ pc[CP] = "repo" /\ (Continue(CP, "netconfig") \/ Continue(CP, "fail"))
        /\ api' = api /\ host' = host /\ netcfg' = netcfg /\ job' = job /\ prog' = prog
    BY <1>1 DEF EnsureRepo
  <2>2. /\ OthersKept(CP) /\ pc'[CP] \in {"netconfig", "fail"} /\ loc' = loc /\ fresh' = fresh
    BY <1>0, <2>1, ContinueFacts DEF OthersKept
  <2> QED
    BY <1>0, <2>1, <2>2, ControlPlaneMoves DEF JobOnly, Completion, CompletePC, ReadyPC
<1>2. CASE CreateNetConfig
  <2>1. /\ pc[CP] = "netconfig"
        /\ \/ Continue(CP, "netstamp") /\ netcfg'.exists
           \/ Continue(CP, "fail")
        /\ api' = api /\ host' = host /\ job' = job /\ prog' = prog
    BY <1>2 DEF CreateNetConfig
  <2>2. netcfg.exists => netcfg'.exists
    <3>1. \/ netcfg' = [exists |-> TRUE, jc |-> loc[CP].jc, used |-> {CP}]
          \/ netcfg' = [netcfg EXCEPT !.exists = TRUE]
          \/ netcfg' = netcfg
      BY <1>2 DEF CreateNetConfig
    <3> QED
      BY <3>1 DEF TypeOK
  <2>3. /\ OthersKept(CP) /\ pc'[CP] \in {"netstamp", "fail"} /\ loc' = loc /\ fresh' = fresh
        /\ pc'[CP] = "netstamp" => netcfg'.exists
    BY <1>0, <2>1, ContinueFacts DEF OthersKept
  <2> QED
    BY <1>0, <2>1, <2>2, <2>3, ControlPlaneMoves DEF JobOnly, Completion, CompletePC, ReadyPC
<1>3. CASE SkipRefresh
  <2>1. /\ pc[CP] = "token" /\ Continue(CP, "packages")
        /\ api' = api /\ host' = host /\ netcfg' = netcfg /\ job' = job /\ prog' = prog
    BY <1>3 DEF SkipRefresh
  <2>2. /\ OthersKept(CP) /\ pc'[CP] = "packages" /\ loc' = loc /\ fresh' = fresh
    BY <1>0, <2>1, ContinueFacts DEF OthersKept
  <2> QED
    BY <1>0, <2>1, <2>2, ControlPlaneMoves DEF JobOnly, Completion, CompletePC, ReadyPC
<1>4. CASE PatchNetJoin
  <2>1. /\ pc[CP] = "netjoin" /\ Continue(CP, "tokenstamp")
        /\ api' = api /\ host' = host /\ job' = job /\ prog' = prog
        /\ netcfg' = netcfg \/ netcfg' = [netcfg EXCEPT !.jc = "temp"]
    BY <1>4 DEF PatchNetJoin
  <2>2. netcfg'.exists = netcfg.exists
    BY <2>1 DEF TypeOK
  <2>3. /\ OthersKept(CP) /\ pc'[CP] = "tokenstamp" /\ loc' = loc /\ fresh' = fresh
    BY <1>0, <2>1, ContinueFacts DEF OthersKept
  <2> QED
    BY <1>0, <2>1, <2>2, <2>3, ControlPlaneMoves DEF JobOnly, Completion, CompletePC, ReadyPC
<1> QED
  BY <1>1, <1>2, <1>3, <1>4

\* An annotation the invariant says nothing about.
LEMMA StampsKeep ==
    ASSUME TypeOK, Inv, StampNetConfig \/ StampRefresh
    PROVE  Inv'
<1> USE DEF jobVars, remoteVars
<1>0. /\ CP \in Node /\ ResourceInv(CP) /\ JobOnly /\ Completion /\ api[CP] \in Object
      /\ host' = host /\ netcfg' = netcfg /\ loc' = loc /\ at' = at /\ job' = job /\ prog' = prog
  BY DEF StampNetConfig, StampRefresh, Inv, Node, TypeOK
<1>1. ASSUME NEW o, Same(o, api[CP]), o.phase = api[CP].phase,
             Annotate(CP, o) \/ AnnotateLost(CP)
      PROVE  /\ Same(api'[CP], api[CP]) /\ api'[CP].phase = api[CP].phase
             /\ api'[CP] = api[CP] \/ api[CP].exists
             /\ fresh'[CP] => fresh[CP]
             /\ \A m \in Node \ {CP} : api'[m] = api[m] /\ fresh'[m] = fresh[m]
  BY <1>0, <1>1, AnnotateFacts DEF Same
<1>2. /\ Same(api'[CP], api[CP]) /\ api'[CP].phase = api[CP].phase
      /\ api'[CP] = api[CP] \/ api[CP].exists
      /\ fresh'[CP] => fresh[CP]
      /\ \A m \in Node \ {CP} : api'[m] = api[m] /\ fresh'[m] = fresh[m]
  <2>1. CASE StampNetConfig
    BY <1>0, <1>1, <2>1, SameNetDone DEF StampNetConfig
  <2>2. CASE StampRefresh
    BY <1>0, <1>1, <2>2, SameStamp DEF StampRefresh
  <2> QED
    BY <2>1, <2>2
<1>3. /\ \A m \in Node \ {CP} : pc'[m] = pc[m]
      /\ \/ /\ pc[CP] = "netstamp"
            /\ pc'[CP] = (IF loc[CP].phase = "Ready" THEN "token" ELSE "publish")
         \/ pc[CP] = "tokenstamp" /\ pc'[CP] = "packages"
  <2>1. CASE StampNetConfig
    <3>1. pc[CP] = "netstamp" /\ Goto(CP, IF loc[CP].phase = "Ready" THEN "token" ELSE "publish")
      BY <2>1 DEF StampNetConfig
    <3> QED
      BY <1>0, <3>1, GotoFacts
  <2>2. CASE StampRefresh
    BY <1>0, <2>2, GotoFacts DEF StampRefresh
  <2> QED
    BY <2>1, <2>2
<1>4. Live(CP)' = Live(CP)
  BY <1>2 DEF Live, Same
<1>5. OthersKept(CP)
  BY <1>0, <1>2, <1>3 DEF OthersKept
<1>6. ResourceInv(CP)'
  <2>1. fresh'[CP] /\ api'[CP].exists => Same(loc'[CP], api'[CP])
    BY <1>0, <1>2 DEF ResourceInv, CopyCurrent, Same
  <2> QED
    BY <1>0, <1>2, <1>3, <2>1, ControlPlaneResource DEF Same, Early, DeletePC
<1>7. JobOnly'
  BY <1>0, <1>2, <1>3, <1>4 DEF JobOnly, Same, CompletePC, ReadyPC
<1>8. Completion'
  BY <1>0, <1>2, <1>3, <1>4 DEF Completion, Same, CompletePC, ReadyPC
<1> QED
  BY <1>0, <1>5, <1>6, <1>7, <1>8, OneReconcile

LEMMA PublishJoinKeeps ==
    ASSUME TypeOK, Inv, PublishJoin
    PROVE  Inv'
<1> USE DEF jobVars, remoteVars
<1> DEFINE o == [api[CP] EXCEPT !.phase = "Ready", !.jc = tok[CP]]
<1>0. /\ CP \in Node /\ ResourceInv(CP) /\ JobOnly /\ Completion /\ api[CP] \in Object
      /\ pc[CP] = "publish"
      /\ host' = host /\ netcfg' = netcfg /\ job' = job /\ prog' = prog
      /\ \/ Refetched(CP, o) /\ ContinueWith(CP, "clear", o)
         \/ RefetchFails(CP) /\ Return(CP, TRUE)
  BY DEF PublishJoin, Inv, Node, TypeOK
<1>1. /\ o.exists = api[CP].exists /\ o.deleting = api[CP].deleting /\ o.last = api[CP].last
      /\ o.joined = api[CP].joined /\ o.cache = api[CP].cache
  BY <1>0 DEF Object
<1> HIDE DEF o
<1>2. CASE RefetchFails(CP) /\ Return(CP, TRUE)
  <2>1. api' = api
    BY <1>2 DEF RefetchFails
  <2>2. OthersKept(CP) /\ pc'[CP] = "idle" /\ ~fresh'[CP]
    BY <1>0, <1>2, <2>1, ReturnFacts DEF OthersKept
  <2> QED
    BY <1>0, <2>1, <2>2, QuietStep DEF Same
<1>3. CASE Refetched(CP, o) /\ ContinueWith(CP, "clear", o)
  <2>1. /\ api[CP].exists /\ api'[CP] = o /\ OthersKept(CP)
        /\ pc'[CP] = "clear" /\ loc'[CP] = o
    <3>1. api[CP].exists /\ api' = [api EXCEPT ![CP] = o]
      BY <1>3 DEF Refetched
    <3> QED
      BY <1>0, <1>3, <3>1, ContinueWithFacts DEF OthersKept, TypeOK
  <2>2. Live(CP)' = Live(CP)
    BY <1>1, <2>1 DEF Live
  <2>3. ResourceInv(CP)'
    BY <1>0, <1>1, <2>1, ControlPlaneResource DEF Same, Early, DeletePC
  <2>4. Live(CP) => job.st = "none" /\ host[CP] = Phases(CP) /\ netcfg.exists
    BY <1>0 DEF JobOnly, Completion, CompletePC
  <2>5. JobOnly'
    BY <1>0, <2>2, <2>4 DEF JobOnly
  <2>6. Completion'
    BY <1>0, <2>1, <2>2, <2>4 DEF Completion, CompletePC, ReadyPC
  <2> QED
    BY <1>0, <2>1, <2>3, <2>5, <2>6, OneReconcile
<1> QED
  BY <1>0, <1>2, <1>3

LEMMA ClearInitKeeps ==
    ASSUME TypeOK, Inv, ClearInit
    PROVE  Inv'
<1> USE DEF jobVars, remoteVars
<1> DEFINE o == [api[CP] EXCEPT !.cache = "none"]
<1>0. /\ CP \in Node /\ ResourceInv(CP) /\ JobOnly /\ Completion /\ api[CP] \in Object
      /\ host' = host /\ netcfg' = netcfg /\ job' = job /\ prog' = prog
      /\ Return(CP, TRUE)
      /\ (api[CP].exists /\ api' = [api EXCEPT ![CP] = o]) \/ api' = api
  BY DEF ClearInit, RefetchFails, Inv, Node, TypeOK
<1>1. /\ o.exists = api[CP].exists /\ o.deleting = api[CP].deleting /\ o.last = api[CP].last
      /\ o.joined = api[CP].joined /\ o.jc = api[CP].jc /\ o.phase = api[CP].phase
      /\ o.cache = "none"
  BY <1>0 DEF Object
<1> HIDE DEF o
<1>2. OthersKept(CP) /\ pc'[CP] = "idle" /\ ~fresh'[CP]
  BY <1>0, ReturnFacts DEF OthersKept, TypeOK
<1>3. api'[CP] = api[CP] \/ (api'[CP] = o /\ api[CP].exists)
  BY <1>0 DEF TypeOK
<1>4. Live(CP)' = Live(CP)
  BY <1>1, <1>3 DEF Live
<1>5. ResourceInv(CP)'
  BY <1>0, <1>1, <1>2, <1>3, ControlPlaneResource DEF Early, DeletePC
<1>6. JobOnly'
  BY <1>0, <1>1, <1>2, <1>3, <1>4 DEF JobOnly, CompletePC, ReadyPC
<1>7. Completion'
  BY <1>0, <1>1, <1>2, <1>3, <1>4 DEF Completion, CompletePC, ReadyPC
<1> QED
  BY <1>0, <1>2, <1>5, <1>6, <1>7, OneReconcile

LEMMA RefreshTokenKeeps ==
    ASSUME TypeOK, Inv, RefreshToken
    PROVE  Inv'
<1> USE DEF jobVars, remoteVars
<1> DEFINE o == [api[CP] EXCEPT !.jc = "temp"]
<1>0. /\ CP \in Node /\ ResourceInv(CP) /\ JobOnly /\ Completion /\ api[CP] \in Object
      /\ pc[CP] = "token"
      /\ host' = host /\ netcfg' = netcfg /\ job' = job /\ prog' = prog
      /\ \/ Refetched(CP, o) /\ ContinueWith(CP, "netjoin", o)
         \/ api' = api /\ Continue(CP, "packages")
  BY DEF RefreshToken, RefetchFails, Inv, Node, TypeOK
<1>1. /\ o.exists = api[CP].exists /\ o.deleting = api[CP].deleting /\ o.last = api[CP].last
      /\ o.joined = api[CP].joined /\ o.cache = api[CP].cache /\ o.phase = api[CP].phase
  BY <1>0 DEF Object
<1> HIDE DEF o
<1>2. CASE api' = api /\ Continue(CP, "packages")
  <2>1. OthersKept(CP) /\ pc'[CP] = "packages" /\ loc' = loc /\ fresh' = fresh
    BY <1>0, <1>2, ContinueFacts DEF OthersKept
  <2> QED
    BY <1>0, <1>2, <2>1, ControlPlaneMoves DEF JobOnly, Completion, CompletePC, ReadyPC
<1>3. CASE Refetched(CP, o) /\ ContinueWith(CP, "netjoin", o)
  <2>1. /\ api[CP].exists /\ api'[CP] = o /\ OthersKept(CP)
        /\ pc'[CP] = "netjoin" /\ loc'[CP] = o
    <3>1. api[CP].exists /\ api' = [api EXCEPT ![CP] = o]
      BY <1>3 DEF Refetched
    <3> QED
      BY <1>0, <1>3, <3>1, ContinueWithFacts DEF OthersKept, TypeOK
  <2>2. Live(CP)' = Live(CP)
    BY <1>1, <2>1 DEF Live
  <2>3. ResourceInv(CP)'
    BY <1>0, <1>1, <2>1, ControlPlaneResource DEF Same, Early, DeletePC
  <2>4. Live(CP) => /\ job.st = "none" /\ api[CP].phase = "Ready"
                    /\ host[CP] = Phases(CP) /\ netcfg.exists
    BY <1>0 DEF JobOnly, Completion, ReadyPC
  <2>5. JobOnly'
    BY <1>0, <2>2, <2>4 DEF JobOnly
  <2>6. Completion'
    BY <1>0, <1>1, <2>1, <2>2, <2>4 DEF Completion, CompletePC, ReadyPC
  <2> QED
    BY <1>0, <2>1, <2>3, <2>5, <2>6, OneReconcile
<1> QED
  BY <1>0, <1>2, <1>3

LEMMA PackagesKeep ==
    ASSUME TypeOK, Inv, Packages \/ MarkPackages
    PROVE  Inv'
<1> USE DEF jobVars, remoteVars
<1>0. /\ CP \in Node /\ JobOnly /\ Completion /\ api[CP] \in Object
      /\ host' = host /\ netcfg' = netcfg /\ job' = job /\ prog' = prog
  BY DEF Packages, MarkPackages, Inv, Node, TypeOK
<1>1. CASE Packages
  <2>1. /\ pc[CP] = "packages" /\ api' = api
        /\ Return(CP, TRUE) \/ Continue(CP, "pkgstamp") \/ Continue(CP, "fail")
    BY <1>1 DEF Packages
  <2>2. CASE Return(CP, TRUE)
    <3>1. OthersKept(CP) /\ pc'[CP] = "idle" /\ ~fresh'[CP]
      BY <1>0, <2>1, <2>2, ReturnFacts DEF OthersKept
    <3> QED
      BY <1>0, <2>1, <3>1, QuietStep DEF Same
  <2>3. CASE Continue(CP, "pkgstamp") \/ Continue(CP, "fail")
    <3>1. /\ OthersKept(CP) /\ pc'[CP] \in {"pkgstamp", "fail"} /\ loc' = loc /\ fresh' = fresh
      BY <1>0, <2>1, <2>3, ContinueFacts DEF OthersKept
    <3> QED
      BY <1>0, <2>1, <3>1, ControlPlaneMoves DEF JobOnly, Completion, CompletePC, ReadyPC
  <2> QED
    BY <2>1, <2>2, <2>3
<1>2. CASE MarkPackages
  <2> DEFINE o == [api[CP] EXCEPT !.pkgs = TRUE]
  <2>1. /\ Refetched(CP, o) \/ RefetchFails(CP)
        /\ Return(CP, FALSE) \/ Return(CP, TRUE)
    BY <1>2 DEF MarkPackages
  <2>2. Same(o, api[CP]) /\ o.phase = api[CP].phase
    BY <1>0, SamePackages
  <2> HIDE DEF o
  <2>3. OthersKept(CP) /\ pc'[CP] = "idle" /\ ~fresh'[CP]
    BY <1>0, <2>1, RefetchFacts, ReturnFacts DEF OthersKept
  <2>4. /\ Same(api'[CP], api[CP]) /\ api'[CP].phase = api[CP].phase
        /\ api'[CP] = api[CP] \/ api[CP].exists
    BY <1>0, <2>1, <2>2, RefetchFacts DEF Same
  <2> QED
    BY <1>0, <2>3, <2>4, QuietStep
<1> QED
  BY <1>1, <1>2

\* A phase of the goroutine, done in full, or done with its answer lost.
LEMMA PhaseLands ==
    ASSUME TypeOK, Inv, job.st = "running", job.at <= LastCP, CPPhaseLands(job.at)
    PROVE  /\ \A m \in Node \ {CP} : host'[m] = host[m]
           /\ host'[CP] \subseteq Phases(CP)
           /\ Live(CP) => /\ 0..job.at \subseteq host'[CP]
                          /\ api[CP].jc = "none" /\ api[CP].cache = "none"
                          /\ api[CP].phase # "Ready"
                          /\ 0..api[CP].last \subseteq host'[CP]
                          /\ 0..prog \subseteq host'[CP]
<1>1. /\ JobOnly /\ ResourceInv(CP) /\ CP \in Node /\ job.at \in 0..LastCP
  BY ClusterAssumption DEF Inv, Node, TypeOK
<1>2. /\ host'[CP] = Effect(host[CP], job.at)
      /\ \A m \in Node \ {CP} : host'[m] = host[m]
  BY <1>1 DEF CPPhaseLands, TypeOK
<1>3. host'[CP] \subseteq Phases(CP)
  BY <1>1, <1>2 DEF Effect, JobOnly, Phases, Last
<1>4. ASSUME Live(CP)
      PROVE  /\ 0..job.at \subseteq host'[CP] /\ 0..api[CP].last \subseteq host'[CP]
             /\ 0..prog \subseteq host'[CP]
  <2>1. /\ 0..(job.at - 1) \subseteq host[CP] /\ 0..api[CP].last \subseteq host[CP]
        /\ 0..prog \subseteq host[CP]
        /\ job.at = 0 => api[CP].last = -1 /\ prog = -1
    BY <1>1, <1>4 DEF JobOnly, ResourceInv
  <2>2. CASE job.at = 0
    BY <1>2, <2>1, <2>2 DEF Effect
  <2>3. CASE job.at # 0
    <3>1. host'[CP] = host[CP] \cup {job.at}
      BY <1>2, <2>3 DEF Effect
    <3> QED
      BY <1>1, <2>1, <3>1
  <2> QED
    BY <2>2, <2>3
<1> QED
  BY <1>1, <1>2, <1>3, <1>4 DEF JobOnly

LEMMA JobKeeps ==
    ASSUME TypeOK, Inv, Job
    PROVE  Inv'
<1> USE DEF ctlVars
<1>0. /\ CP \in Node /\ ResourceInv(CP) /\ JobOnly /\ Completion /\ job.st = "running"
      /\ api' = api /\ pc' = pc /\ loc' = loc /\ fresh' = fresh /\ at' = at
      /\ Live(CP)' = Live(CP)
  BY DEF Job, JobPhase, JobEnds, JobFails, Inv, Node, Live
<1>1. ASSUME 0..api[CP].last \subseteq host'[CP] \/ ~Live(CP)
      PROVE  ResourceInv(CP)'
  <2>1. Gone(CP)' /\ CopyCurrent(CP)'
    BY <1>0 DEF ResourceInv, Gone, CopyCurrent
  <2> QED
    BY <1>0, <1>1, <2>1 DEF ResourceInv
<1>2. ASSUME Live(CP)
      PROVE  /\ api[CP].jc = "none" /\ api[CP].cache = "none" /\ api[CP].phase # "Ready"
             /\ pc[CP] \notin CompletePC \cup ReadyPC \cup {"clear"}
  BY <1>0, <1>2 DEF JobOnly
<1>3. Completion'
  BY <1>0, <1>2 DEF Completion, CompletePC, ReadyPC
<1>4. CASE JobPhase
  <2>1. /\ CPPhaseLands(job.at) /\ job.at <= LastCP /\ prog' = job.at
        /\ job' = [job EXCEPT !.at = job.at + 1] /\ job.at \in Nat
    BY <1>4 DEF JobPhase, TypeOK
  <2>2. job'.st = "running" /\ job'.at = job.at + 1
    BY <1>0, <2>1 DEF TypeOK
  <2>3. OthersKept(CP)
    BY <1>0, <2>1, PhaseLands DEF OthersKept
  <2>4. ResourceInv(CP)'
    BY <1>0, <1>1, <2>1, PhaseLands
  <2>5. JobOnly'
    <3>1. /\ host'[CP] \subseteq Phases(CP)
          /\ Live(CP) => 0..job.at \subseteq host'[CP]
      BY <1>0, <2>1, PhaseLands
    <3>2. job'.at # 0 /\ job'.at - 1 = job.at
      BY <2>1, <2>2
    <3> QED
      BY <1>0, <1>2, <2>1, <2>2, <3>1, <3>2 DEF JobOnly, Phases, Last
  <2> QED
    BY <1>0, <1>3, <2>3, <2>4, <2>5, OneReconcile
<1>5. CASE JobEnds
  <2>1. /\ job.at > LastCP /\ host' = host /\ prog' = prog /\ netcfg' = netcfg
        /\ job'.st = "ok"
    BY <1>5 DEF JobEnds, remoteVars
  <2>2. Live(CP) => host[CP] = Phases(CP)
    <3>1. Live(CP) => 0..LastCP \subseteq host[CP]
      <4>1. Live(CP) => 0..(job.at - 1) \subseteq host[CP]
        BY <1>0 DEF JobOnly
      <4>2. job.at \in Int /\ 0..LastCP \subseteq 0..(job.at - 1)
        BY <2>1, ClusterAssumption DEF TypeOK
      <4> QED
        BY <4>1, <4>2
    <3> QED
      BY <1>0, <3>1 DEF JobOnly, Phases, Last
  <2>3. OthersKept(CP)
    BY <1>0, <2>1 DEF OthersKept
  <2>4. ResourceInv(CP)'
    BY <1>0, <1>1, <2>1 DEF ResourceInv
  <2>5. JobOnly'
    BY <1>0, <1>2, <2>1, <2>2 DEF JobOnly, Phases, Last
  <2> QED
    BY <1>0, <1>3, <2>3, <2>4, <2>5, OneReconcile
<1>6. CASE JobFails
  <2>1. /\ prog' = prog /\ job'.st = "err"
        /\ \/ host' = host /\ netcfg' = netcfg
           \/ job.at <= LastCP /\ CPPhaseLands(job.at)
    BY <1>6 DEF JobFails
  <2>2. /\ OthersKept(CP) /\ host'[CP] \subseteq Phases(CP)
        /\ Live(CP) => /\ 0..api[CP].last \subseteq host'[CP]
                       /\ 0..prog \subseteq host'[CP]
    <3>1. CASE host' = host
      BY <1>0, <3>1 DEF OthersKept, JobOnly, ResourceInv
    <3>2. CASE job.at <= LastCP /\ CPPhaseLands(job.at)
      BY <1>0, <3>2, PhaseLands DEF OthersKept
    <3> QED
      BY <2>1, <3>1, <3>2
  <2>3. ResourceInv(CP)'
    BY <1>1, <2>2
  <2>4. JobOnly'
    BY <1>0, <1>2, <2>1, <2>2 DEF JobOnly, Phases, Last
  <2> QED
    BY <1>0, <1>3, <2>2, <2>3, <2>4, OneReconcile
<1> QED
  BY <1>4, <1>5, <1>6 DEF Job

-----------------------------------------------------------------------------
(* The workers' steps.                                                     *)

\* The part about a worker's resource when the step writes nothing to it.
LEMMA WorkerMoves ==
    ASSUME TypeOK, Inv, NEW w \in Worker, OthersKept(w), api' = api, host' = host,
           loc' = loc, fresh' = fresh, job' = job, prog' = prog, netcfg' = netcfg,
           pc'[w] \in {"sync", "join", "mark", "fail"},
           pc'[w] = "sync" => pc[w] = "connect",
           pc'[w] = "join" /\ Live(w) => /\ 0..(at'[w] - 1) \subseteq host[w]
                                         /\ at'[w] = 0 => api[w].last = -1
                                         /\ ~api[w].joined,
           pc'[w] = "mark" => LastWorker \in host[w]
    PROVE  Inv'
<1>1. w \in Node /\ w # CP /\ ResourceInv(w) /\ Live(w)' = Live(w)
  BY ClusterAssumption DEF Inv, Node, Live
<1>2. Gone(w)' /\ CopyCurrent(w)'
  BY <1>1 DEF ResourceInv, Gone, CopyCurrent, DeletePC, Early
<1>3. Joining(w)'
  BY <1>1 DEF ResourceInv, Joining
<1> QED
  BY <1>1, <1>2, <1>3, OneReconcile DEF ResourceInv

LEMMA WorkerMovesKeep ==
    ASSUME TypeOK, Inv, NEW w \in Worker, Connect(w) \/ PrepareJoin(w) \/ NameNode(w)
    PROVE  Inv'
<1> USE DEF jobVars, remoteVars
<1>0. w \in Node /\ w # CP /\ ResourceInv(w) /\ api[w] \in Object
  BY ClusterAssumption DEF Inv, Node, TypeOK
<1>1. CASE Connect(w)
  <2>1. /\ pc[w] = "connect" /\ (Continue(w, "sync") \/ Continue(w, "fail"))
        /\ api' = api /\ host' = host /\ job' = job /\ prog' = prog /\ netcfg' = netcfg
    BY <1>1 DEF Connect
  <2>2. /\ OthersKept(w) /\ pc'[w] \in {"sync", "fail"} /\ loc' = loc /\ fresh' = fresh
    BY <1>0, <2>1, ContinueFacts DEF OthersKept
  <2> QED
    BY <2>1, <2>2, WorkerMoves
<1>2. CASE PrepareJoin(w)
  <2>1. /\ pc[w] = "prepare" /\ api' = api /\ host' = host /\ job' = job /\ prog' = prog
        /\ netcfg' = netcfg
        /\ \/ /\ at' = [at EXCEPT ![w] = StartPhase(loc[w])] /\ Goto(w, "join")
              /\ loc' = loc /\ fresh' = fresh
           \/ Continue(w, "fail")
    BY <1>2 DEF PrepareJoin
  <2>2. CASE Continue(w, "fail")
    <3>1. /\ OthersKept(w) /\ pc'[w] = "fail" /\ loc' = loc /\ fresh' = fresh
      BY <1>0, <2>1, <2>2, ContinueFacts DEF OthersKept
    <3> QED
      BY <2>1, <3>1, WorkerMoves
  <2>3. CASE /\ at' = [at EXCEPT ![w] = StartPhase(loc[w])] /\ Goto(w, "join")
             /\ loc' = loc /\ fresh' = fresh
    <3>1. OthersKept(w) /\ pc'[w] = "join" /\ at'[w] = StartPhase(loc[w])
      BY <1>0, <2>1, <2>3, GotoFacts DEF OthersKept, TypeOK
    <3>2. ASSUME Live(w)
          PROVE  /\ loc[w].last = api[w].last /\ ~api[w].joined
                 /\ 0..api[w].last \subseteq host[w]
      BY <1>0, <2>1, <3>2 DEF ResourceInv, CopyCurrent, Early, Joining, Same
    <3>3. api[w].last \in -1..LastCP + LastWorker
      BY <1>0 DEF Object
    <3>4. Live(w) => /\ 0..(at'[w] - 1) \subseteq host[w]
                     /\ at'[w] = 0 => api[w].last = -1
      BY <3>1, <3>2, <3>3, ClusterAssumption DEF StartPhase
    <3> QED
      BY <2>1, <2>3, <3>1, <3>2, <3>4, WorkerMoves
  <2> QED
    BY <2>1, <2>2, <2>3
<1>3. CASE NameNode(w)
  <2>1. /\ api' = api /\ host' = host /\ job' = job /\ prog' = prog /\ netcfg' = netcfg
        /\ \/ Continue(w, "mark") /\ LastWorker \in host[w]
           \/ Continue(w, "fail")
    BY <1>3 DEF NameNode
  <2>2. /\ OthersKept(w) /\ pc'[w] \in {"mark", "fail"} /\ loc' = loc /\ fresh' = fresh
        /\ pc'[w] = "mark" => LastWorker \in host[w]
    BY <1>0, <2>1, ContinueFacts DEF OthersKept
  <2> QED
    BY <2>1, <2>2, WorkerMoves
<1> QED
  BY <1>1, <1>2, <1>3

LEMMA SyncVPNKeeps ==
    ASSUME TypeOK, Inv, NEW w \in Worker, SyncVPN(w)
    PROVE  Inv'
<1> USE DEF jobVars, remoteVars
<1> DEFINE o == [api[w] EXCEPT !.vpnRef = TRUE]
<1>0. /\ w \in Node /\ w # CP /\ ResourceInv(w) /\ api[w] \in Object /\ pc[w] = "sync"
      /\ host' = host /\ job' = job /\ prog' = prog /\ netcfg' = netcfg
  BY ClusterAssumption DEF SyncVPN, Inv, Node, TypeOK
<1>1. Same(o, api[w])
  BY <1>0, SameVPNRef
<1>2. \/ api' = api /\ AfterSync(w, loc[w], fresh[w])
      \/ Refetched(w, o) /\ AfterSync(w, o, TRUE)
      \/ api' = api /\ Return(w, TRUE)
  BY DEF SyncVPN
<1> HIDE DEF o
<1>3. /\ Same(api'[w], api[w]) /\ (api'[w] = api[w] \/ api[w].exists)
      /\ \A m \in Node \ {w} : api'[m] = api[m]
  <2>1. CASE api' = api
    BY <2>1 DEF Same
  <2>2. CASE Refetched(w, o)
    <3>1. api[w].exists /\ api' = [api EXCEPT ![w] = o]
      BY <2>2 DEF Refetched
    <3> QED
      BY <1>0, <1>1, <3>1 DEF TypeOK
  <2> QED
    BY <1>2, <2>1, <2>2
<1>4. CASE Return(w, TRUE) \/ Return(w, FALSE)
  <2>1. OthersKept(w) /\ pc'[w] = "idle" /\ ~fresh'[w]
    BY <1>0, <1>3, <1>4, ReturnFacts DEF OthersKept
  <2> QED
    BY <1>0, <1>3, <2>1, QuietStep
<1>5. CASE ~(Return(w, TRUE) \/ Return(w, FALSE))
  <2>1. ASSUME NEW v, NEW b, AfterSync(w, v, b)
        PROVE  /\ ~v.joined /\ Goto(w, "prepare") /\ at' = at
               /\ loc' = [loc EXCEPT ![w] = v] /\ fresh' = [fresh EXCEPT ![w] = b]
    BY <1>5, <2>1 DEF AfterSync
  <2>2. PICK v, b :
          /\ ~v.joined /\ Goto(w, "prepare") /\ at' = at
          /\ loc' = [loc EXCEPT ![w] = v] /\ fresh' = [fresh EXCEPT ![w] = b]
          /\ \/ v = loc[w] /\ b = fresh[w] /\ api' = api
             \/ v = o /\ b = TRUE /\ api' = [api EXCEPT ![w] = o]
    <3>1. CASE api' = api /\ AfterSync(w, loc[w], fresh[w])
      BY <2>1, <3>1
    <3>2. CASE Refetched(w, o) /\ AfterSync(w, o, TRUE)
      <4>1. api' = [api EXCEPT ![w] = o]
        BY <3>2 DEF Refetched
      <4> QED
        BY <2>1, <3>2, <4>1
    <3> QED
      BY <1>2, <1>5, <3>1, <3>2
  <2>3. /\ pc'[w] = "prepare" /\ loc'[w] = v /\ fresh'[w] = b /\ OthersKept(w)
    BY <1>0, <1>3, <2>2, GotoFacts DEF OthersKept, TypeOK
  <2>4. Live(w)' = Live(w) /\ api'[w].exists = api[w].exists
    BY <1>3 DEF Live, Same
  <2>5. /\ Live(w) => Same(v, api'[w])
        /\ fresh'[w] /\ api'[w].exists => Same(v, api'[w])
    <3>1. CASE v = loc[w] /\ b = fresh[w] /\ api' = api
      BY <1>0, <2>3, <3>1 DEF ResourceInv, CopyCurrent, Early
    <3>2. CASE v = o /\ api' = [api EXCEPT ![w] = o]
      BY <1>0, <3>2 DEF TypeOK, Same
    <3> QED
      BY <2>2, <3>1, <3>2
  <2>6. Gone(w)' /\ CopyCurrent(w)'
    BY <1>0, <1>3, <2>3, <2>4, <2>5
       DEF ResourceInv, Gone, CopyCurrent, Same, DeletePC
  <2>7. Joining(w)'
    <3>1. Live(w) => ~api'[w].joined
      BY <2>2, <2>5 DEF Same
    <3> QED
      BY <2>3, <2>4, <3>1 DEF Joining
  <2>8. ResourceInv(w)'
    BY <1>0, <1>3, <2>4, <2>6, <2>7 DEF ResourceInv, Same
  <2> QED
    BY <1>0, <2>3, <2>8, OneReconcile
<1> QED
  BY <1>4, <1>5

LEMMA JoinPhaseKeeps ==
    ASSUME TypeOK, Inv, NEW w \in Worker, JoinPhase(w)
    PROVE  Inv'
<1> USE DEF jobVars
<1> DEFINE i == at[w]
           o == [api[w] EXCEPT !.last = i]
<1>0. /\ w \in Node /\ w # CP /\ ResourceInv(w) /\ api[w] \in Object /\ pc[w] = "join"
      /\ i \in 0..LastWorker
      /\ job' = job /\ prog' = prog /\ netcfg' = netcfg /\ loc' = loc
  BY ClusterAssumption DEF JoinPhase, Inv, Node, TypeOK
<1>1. ASSUME host' = Lands(w, i)
      PROVE  /\ \A m \in Node \ {w} : host'[m] = host[m]
             /\ Live(w) => 0..i \subseteq host'[w] /\ 0..api[w].last \subseteq host'[w]
  <2>1. /\ host'[w] = Effect(host[w], i)
        /\ \A m \in Node \ {w} : host'[m] = host[m]
    BY <1>0, <1>1 DEF Lands, TypeOK
  <2>2. Live(w) => /\ 0..(i - 1) \subseteq host[w] /\ 0..api[w].last \subseteq host[w]
                   /\ i = 0 => api[w].last = -1
    BY <1>0 DEF ResourceInv, Joining
  <2>3. CASE i = 0
    BY <2>1, <2>2, <2>3 DEF Effect
  <2>4. CASE i # 0
    <3>1. host'[w] = host[w] \cup {i}
      BY <2>1, <2>4 DEF Effect
    <3> QED
      BY <1>0, <2>1, <2>2, <3>1
  <2> QED
    BY <2>3, <2>4
<1>2. Live(w) => ~api[w].joined
  BY <1>0 DEF ResourceInv, Joining
<1>3. CASE /\ host' = Lands(w, i) /\ (Annotate(w, o) \/ AnnotateLost(w))
           /\ at' = [at EXCEPT ![w] = i + 1] /\ pc' = pc
  <2>1. /\ o.exists = api[w].exists /\ o.deleting = api[w].deleting /\ o.jc = api[w].jc
        /\ o.joined = api[w].joined /\ o.last = i
    BY <1>0, LastFields
  <2>2. at'[w] = i + 1 /\ \A m \in Node \ {w} : at'[m] = at[m]
    BY <1>0, <1>3 DEF TypeOK
  <2>3. /\ \/ api[w].exists /\ api'[w] = o /\ (fresh'[w] => fresh[w] /\ o = api[w])
           \/ api'[w] = api[w] /\ fresh'[w] = fresh[w]
        /\ \A m \in Node \ {w} : api'[m] = api[m] /\ fresh'[m] = fresh[m]
    <3> HIDE DEF o
    <3> QED
      BY <1>0, <1>3, AnnotateFacts
  <2>4. /\ api'[w].exists = api[w].exists /\ api'[w].deleting = api[w].deleting
        /\ api'[w].jc = api[w].jc /\ api'[w].joined = api[w].joined
        /\ api'[w].last \in {i, api[w].last}
        /\ fresh'[w] => fresh[w] /\ api'[w] = api[w]
        /\ api'[w] = api[w] \/ api[w].exists
    <3> HIDE DEF o
    <3> QED
      BY <2>1, <2>3
  <2>5. Live(w)' = Live(w)
    BY <2>4 DEF Live
  <2>6. OthersKept(w)
    BY <1>0, <1>1, <1>3, <2>2, <2>3 DEF OthersKept
  <2>7. Gone(w)' /\ CopyCurrent(w)'
    BY <1>0, <1>3, <2>4, <2>5 DEF ResourceInv, Gone, CopyCurrent, DeletePC, Early
  <2>8. Joining(w)'
    <3>1. at'[w] - 1 = i /\ at'[w] # 0
      BY <1>0, <2>2
    <3> QED
      BY <1>0, <1>1, <1>2, <1>3, <2>4, <2>5, <3>1 DEF Joining
  <2>9. ResourceInv(w)'
    BY <1>1, <1>3, <2>4, <2>5, <2>7, <2>8 DEF ResourceInv
  <2> QED
    BY <1>0, <2>6, <2>9, OneReconcile
<1>4. CASE /\ api' = api /\ fresh' = fresh /\ at' = at /\ Goto(w, "fail")
           /\ host' = host \/ host' = Lands(w, i)
  <2>1. OthersKept(w) /\ pc'[w] = "fail"
    BY <1>0, <1>1, <1>4, GotoFacts DEF OthersKept
  <2>2. Live(w)' = Live(w)
    BY <1>4 DEF Live
  <2>3. Gone(w)' /\ CopyCurrent(w)'
    BY <1>0, <1>4, <2>1, <2>2 DEF ResourceInv, Gone, CopyCurrent, DeletePC, Early
  <2>4. Joining(w)'
    BY <1>2, <1>4, <2>1, <2>2 DEF Joining
  <2>5. Live(w) => 0..api[w].last \subseteq host'[w]
    BY <1>0, <1>1, <1>4 DEF ResourceInv
  <2>6. ResourceInv(w)'
    BY <1>4, <2>2, <2>3, <2>4, <2>5 DEF ResourceInv
  <2> QED
    BY <1>0, <2>1, <2>6, OneReconcile
<1> QED
  BY <1>3, <1>4 DEF JoinPhase

LEMMA MarkJoinedKeeps ==
    ASSUME TypeOK, Inv, NEW w \in Worker, MarkJoined(w)
    PROVE  Inv'
<1> USE DEF jobVars, remoteVars
<1> DEFINE o == [api[w] EXCEPT !.joined = TRUE, !.last = -1]
<1>0. /\ w \in Node /\ w # CP /\ ResourceInv(w) /\ api[w] \in Object /\ pc[w] = "mark"
      /\ host' = host /\ job' = job /\ prog' = prog /\ netcfg' = netcfg
      /\ \/ Refetched(w, o) /\ ContinueWith(w, "ready", o)
         \/ RefetchFails(w) /\ Return(w, TRUE)
  BY ClusterAssumption DEF MarkJoined, Inv, Node, TypeOK
<1>1. /\ o.exists = api[w].exists /\ o.deleting = api[w].deleting /\ o.jc = api[w].jc
      /\ o.last = -1
  BY <1>0 DEF Object
<1> HIDE DEF o
<1>2. CASE RefetchFails(w) /\ Return(w, TRUE)
  <2>1. api' = api
    BY <1>2 DEF RefetchFails
  <2>2. OthersKept(w) /\ pc'[w] = "idle" /\ ~fresh'[w]
    BY <1>0, <1>2, <2>1, ReturnFacts DEF OthersKept
  <2> QED
    BY <1>0, <2>1, <2>2, QuietStep DEF Same
<1>3. CASE Refetched(w, o) /\ ContinueWith(w, "ready", o)
  <2>1. /\ api[w].exists /\ api'[w] = o /\ OthersKept(w) /\ pc'[w] = "ready" /\ loc'[w] = o
    <3>1. api[w].exists /\ api' = [api EXCEPT ![w] = o]
      BY <1>3 DEF Refetched
    <3> QED
      BY <1>0, <1>3, <3>1, ContinueWithFacts DEF OthersKept, TypeOK
  <2>2. Live(w)' = Live(w)
    BY <1>1, <2>1 DEF Live
  <2>3. Gone(w)' /\ CopyCurrent(w)'
    BY <1>0, <1>1, <2>1, <2>2 DEF ResourceInv, Gone, CopyCurrent, Same, DeletePC, Early
  <2>4. Joining(w)'
    BY <1>0, <2>1, <2>2 DEF ResourceInv, Joining
  <2>5. ResourceInv(w)'
    BY <1>1, <2>1, <2>3, <2>4 DEF ResourceInv
  <2> QED
    BY <1>0, <2>1, <2>5, OneReconcile
<1> QED
  BY <1>0, <1>2, <1>3

LEMMA WorkerReadyKeeps ==
    ASSUME TypeOK, Inv, NEW w \in Worker, WorkerReady(w)
    PROVE  Inv'
<1> USE DEF jobVars, remoteVars
<1> DEFINE o == [loc[w] EXCEPT !.phase = "Ready"]
<1>0. /\ w \in Node /\ w # CP /\ ResourceInv(w) /\ loc[w] \in Object /\ pc[w] = "ready"
      /\ host' = host /\ job' = job /\ prog' = prog /\ netcfg' = netcfg
      /\ \/ Commit(w, o) /\ ContinueWith(w, "record", o)
         \/ Lost(w) /\ Return(w, TRUE)
  BY ClusterAssumption DEF WorkerReady, Inv, Node, TypeOK
<1>1. Same(o, loc[w])
  BY <1>0, SamePhase
<1> HIDE DEF o
<1>2. CASE Lost(w) /\ Return(w, TRUE)
  <2>1. api' = api
    BY <1>2 DEF Lost
  <2>2. OthersKept(w) /\ pc'[w] = "idle" /\ ~fresh'[w]
    BY <1>0, <1>2, <2>1, ReturnFacts DEF OthersKept
  <2> QED
    BY <1>0, <2>1, <2>2, QuietStep DEF Same
<1>3. CASE Commit(w, o) /\ ContinueWith(w, "record", o)
  <2>1. /\ fresh[w] /\ api[w].exists /\ api'[w] = o /\ OthersKept(w)
        /\ pc'[w] = "record" /\ loc'[w] = o
    <3>1. fresh[w] /\ api[w].exists /\ api' = [api EXCEPT ![w] = o]
      BY <1>3 DEF Commit
    <3> QED
      BY <1>0, <1>3, <3>1, ContinueWithFacts DEF OthersKept, TypeOK
  <2>2. Same(api'[w], api[w])
    BY <1>0, <1>1, <2>1 DEF ResourceInv, CopyCurrent, Same
  <2>3. Live(w)' = Live(w)
    BY <2>2 DEF Live, Same
  <2>4. Gone(w)' /\ CopyCurrent(w)'
    BY <1>0, <2>1, <2>2, <2>3 DEF ResourceInv, Gone, CopyCurrent, Same, DeletePC, Early
  <2>5. Joining(w)'
    BY <1>0, <2>1, <2>2, <2>3 DEF ResourceInv, Joining, Same
  <2>6. ResourceInv(w)'
    BY <1>0, <2>2, <2>3, <2>4, <2>5 DEF ResourceInv, Same
  <2> QED
    BY <1>0, <2>1, <2>6, OneReconcile
<1> QED
  BY <1>0, <1>2, <1>3

LEMMA RecordAddressKeeps ==
    ASSUME TypeOK, Inv, NEW w \in Worker, RecordAddress(w)
    PROVE  Inv'
<1> USE DEF jobVars
<1>0. /\ w \in Node /\ w # CP /\ ResourceInv(w)
      /\ api' = api /\ host' = host /\ job' = job /\ prog' = prog
      /\ Return(w, FALSE) \/ Continue(w, "fail")
      /\ netcfg' = netcfg \/ netcfg' = [netcfg EXCEPT !.used = netcfg.used \cup {w}]
  BY ClusterAssumption DEF RecordAddress, Inv, Node
<1>1. netcfg'.exists = netcfg.exists
  BY <1>0 DEF TypeOK
<1>2. /\ OthersKept(w) /\ pc'[w] \in {"idle", "fail"}
      /\ pc'[w] = "idle" => ~fresh'[w]
      /\ fresh'[w] => fresh[w] /\ loc'[w] = loc[w]
  <2>1. CASE Return(w, FALSE)
    BY <1>0, <2>1, ReturnFacts DEF OthersKept
  <2>2. CASE Continue(w, "fail")
    BY <1>0, <2>2, ContinueFacts DEF OthersKept
  <2> QED
    BY <1>0, <2>1, <2>2
<1>3. ResourceInv(w)'
  <2>1. Live(w)' = Live(w)
    BY <1>0 DEF Live
  <2>2. Gone(w)' /\ CopyCurrent(w)'
    BY <1>0, <1>2, <2>1 DEF ResourceInv, Gone, CopyCurrent, DeletePC, Early
  <2> QED
    BY <1>0, <1>2, <2>1, <2>2 DEF ResourceInv, Joining
<1> QED
  BY <1>0, <1>1, <1>2, <1>3, OneReconcile

-----------------------------------------------------------------------------
(* Users, crashes and the passing of time.                                 *)

LEMMA UserEditsKeeps ==
    ASSUME TypeOK, Inv, NEW n \in Node, UserEdits(n)
    PROVE  Inv'
<1> USE DEF jobVars, remoteVars
<1>0. /\ ResourceInv(n) /\ JobOnly /\ Completion
      /\ api' = api /\ pc' = pc /\ loc' = loc /\ at' = at /\ host' = host
      /\ job' = job /\ prog' = prog /\ netcfg' = netcfg
      /\ fresh' = [fresh EXCEPT ![n] = FALSE]
  BY DEF UserEdits, Inv
<1>1. OthersKept(n) /\ ~fresh'[n]
  BY <1>0 DEF OthersKept, TypeOK
<1>2. Live(n)' = Live(n)
  BY <1>0 DEF Live
<1>3. Gone(n)' /\ CopyCurrent(n)'
  BY <1>0, <1>1, <1>2 DEF ResourceInv, Gone, CopyCurrent
<1>4. ResourceInv(n)'
  BY <1>0, <1>2, <1>3 DEF ResourceInv, Joining
<1>5. ASSUME n = CP PROVE JobOnly' /\ Completion'
  BY <1>0, ControlPlaneFrame
<1> QED
  BY <1>0, <1>1, <1>4, <1>5, OneReconcile

LEMMA UserDeletesKeeps ==
    ASSUME TypeOK, Inv, NEW n \in Node, UserDeletes(n)
    PROVE  Inv'
<1> USE DEF jobVars, remoteVars
<1> DEFINE o == IF api[n].finalizer THEN [api[n] EXCEPT !.deleting = TRUE] ELSE NoObject
<1>0. /\ ResourceInv(n) /\ JobOnly /\ api[n] \in Object /\ api[n].exists
      /\ pc' = pc /\ loc' = loc /\ at' = at /\ host' = host
      /\ job' = job /\ prog' = prog /\ netcfg' = netcfg
      /\ fresh' = [fresh EXCEPT ![n] = FALSE]
      /\ api' = [api EXCEPT ![n] = o]
  BY DEF UserDeletes, Inv, TypeOK
<1>1. OthersKept(n) /\ ~fresh'[n] /\ api'[n] = o
  BY <1>0 DEF OthersKept, TypeOK
<1>2. \/ /\ o.exists /\ o.deleting /\ o.jc = api[n].jc /\ o.joined = api[n].joined
         /\ o.phase = api[n].phase
      \/ o = NoObject
  BY <1>0 DEF Object
<1> HIDE DEF o
<1>3. ~Live(n)'
  BY <1>1, <1>2, NoObjectFields DEF Live
<1>4. Gone(n)' /\ CopyCurrent(n)'
  BY <1>0, <1>1, <1>2, <1>3, NoObjectFields DEF ResourceInv, Gone, CopyCurrent
<1>5. ResourceInv(n)'
  BY <1>3, <1>4 DEF ResourceInv, Joining
<1>6. ASSUME n = CP PROVE JobOnly' /\ Completion'
  BY <1>0, <1>3, <1>6 DEF JobOnly, Completion
<1> QED
  BY <1>0, <1>1, <1>5, <1>6, OneReconcile

\* Nothing the invariant is about.
LEMMA ElsewhereKeeps ==
    ASSUME Inv, UserDeletesSecret \/ \E n \in Node : TearDown(n)
    PROVE  Inv'
<1>0. /\ api' = api /\ pc' = pc /\ loc' = loc /\ fresh' = fresh /\ at' = at /\ host' = host
      /\ job' = job /\ prog' = prog /\ netcfg' = netcfg
  BY DEF UserDeletesSecret, TearDown, ctlVars, jobVars, remoteVars
<1>1. ASSUME NEW n \in Node PROVE ResourceInv(n)'
  BY <1>0, ResourceFrame DEF Inv
<1>2. JobOnly' /\ Completion'
  BY <1>0, ControlPlaneFrame DEF Inv
<1> QED
  BY <1>1, <1>2 DEF Inv

LEMMA NoObjectAges ==
    /\ [NoObject EXCEPT !.jc = "none"] = NoObject
    /\ [NoObject EXCEPT !.jc = "none", !.stamp = "none"] = NoObject
<1>1. ASSUME NEW o \in Object, o.jc = "none"
      PROVE  /\ [o EXCEPT !.jc = "none"] = o
             /\ o.stamp = "none" => [o EXCEPT !.jc = "none", !.stamp = "none"] = o
  BY <1>1 DEF Object
<1>2. NoObject.jc = "none" /\ NoObject.stamp = "none"
  BY DEF NoObject
<1> QED
  BY <1>1, <1>2, NoObjectType

\* Time passes between reconciles, so nobody holds a copy of the token.
LEMMA TimeKeeps ==
    ASSUME TypeOK, Inv, TokenAges \/ TokenExpires
    PROVE  Inv'
<1> USE DEF jobVars, ctlVars
<1>0. /\ CP \in Node /\ ResourceInv(CP) /\ JobOnly /\ Completion /\ api[CP] \in Object
      /\ pc[CP] = "idle" /\ pc' = pc /\ loc' = loc /\ fresh' = fresh /\ at' = at
      /\ host' = host /\ job' = job /\ prog' = prog
  BY DEF TokenAges, TokenExpires, Inv, Node, TypeOK
<1>1. netcfg'.exists = netcfg.exists
  BY DEF TokenAges, TokenExpires, TypeOK
<1>2. /\ api'[CP].exists = api[CP].exists /\ api'[CP].deleting = api[CP].deleting
      /\ api'[CP].phase = api[CP].phase /\ api'[CP].last = api[CP].last
      /\ api'[CP].cache = api[CP].cache /\ api'[CP].joined = api[CP].joined
      /\ api'[CP].jc = "none" <=> api[CP].jc = "none"
      /\ ~api[CP].exists => api'[CP] = api[CP]
      /\ \A m \in Node \ {CP} : api'[m] = api[m]
  <2>1. CASE TokenAges
    <3>1. api' = [api EXCEPT ![CP] = [api[CP] EXCEPT !.jc = Older(@, "temp", "old"),
                                                     !.stamp = Older(@, "recent", "due")]]
      BY <1>0, <2>1 DEF TokenAges, TypeOK
    <3>2. api'[CP] = [api[CP] EXCEPT !.jc = Older(@, "temp", "old"),
                                     !.stamp = Older(@, "recent", "due")]
      BY <1>0, <3>1 DEF TypeOK
    <3>3. /\ api'[CP].exists = api[CP].exists /\ api'[CP].deleting = api[CP].deleting
          /\ api'[CP].phase = api[CP].phase /\ api'[CP].last = api[CP].last
          /\ api'[CP].cache = api[CP].cache /\ api'[CP].joined = api[CP].joined
          /\ api'[CP].jc = "none" <=> api[CP].jc = "none"
      BY <1>0, <3>2 DEF Older, Object
    <3>4. \A m \in Node \ {CP} : api'[m] = api[m]
      BY <1>0, <3>1 DEF TypeOK
    <3>5. ~api[CP].exists => api[CP] = NoObject
      BY <1>0 DEF ResourceInv, Gone
    <3>6. ASSUME api[CP] = NoObject PROVE api'[CP] = api[CP]
      <4>1. /\ Older(NoObject.jc, "temp", "old") = "none"
            /\ Older(NoObject.stamp, "recent", "due") = "none"
        BY DEF Older, NoObject
      <4>2. api'[CP] = [NoObject EXCEPT !.jc = "none", !.stamp = "none"]
        BY <3>2, <3>6, <4>1
      <4> QED
        BY <3>6, <4>2, NoObjectAges
    <3> QED
      BY <3>3, <3>4, <3>5, <3>6
  <2>2. CASE TokenExpires
    <3>1. api' = [api EXCEPT ![CP] = [api[CP] EXCEPT !.jc = Older(@, "old", "expired")]]
      BY <1>0, <2>2 DEF TokenExpires, TypeOK
    <3>2. api'[CP] = [api[CP] EXCEPT !.jc = Older(@, "old", "expired")]
      BY <1>0, <3>1 DEF TypeOK
    <3>3. /\ api'[CP].exists = api[CP].exists /\ api'[CP].deleting = api[CP].deleting
          /\ api'[CP].phase = api[CP].phase /\ api'[CP].last = api[CP].last
          /\ api'[CP].cache = api[CP].cache /\ api'[CP].joined = api[CP].joined
          /\ api'[CP].jc = "none" <=> api[CP].jc = "none"
      BY <1>0, <3>2 DEF Older, Object
    <3>4. \A m \in Node \ {CP} : api'[m] = api[m]
      BY <1>0, <3>1 DEF TypeOK
    <3>5. ~api[CP].exists => api[CP] = NoObject
      BY <1>0 DEF ResourceInv, Gone
    <3>6. ASSUME api[CP] = NoObject PROVE api'[CP] = api[CP]
      <4>1. Older(NoObject.jc, "old", "expired") = "none"
        BY DEF Older, NoObject
      <4>2. api'[CP] = [NoObject EXCEPT !.jc = "none"]
        BY <3>2, <3>6, <4>1
      <4> QED
        BY <3>6, <4>2, NoObjectAges
    <3> QED
      BY <3>3, <3>4, <3>5, <3>6
  <2> QED
    BY <2>1, <2>2
<1>3. Live(CP)' = Live(CP) /\ OthersKept(CP)
  BY <1>0, <1>2 DEF Live, OthersKept
<1>4. ~fresh'[CP]
  BY <1>0 DEF ResourceInv, CopyCurrent
<1>5. ResourceInv(CP)'
  <2>1. Gone(CP)' /\ CopyCurrent(CP)'
    BY <1>0, <1>2, <1>3, <1>4 DEF ResourceInv, Gone, CopyCurrent, DeletePC, Early
  <2> QED
    BY <1>0, <1>2, <1>3, <2>1 DEF ResourceInv
<1>6. JobOnly'
  BY <1>0, <1>2, <1>3 DEF JobOnly, CompletePC, ReadyPC
<1>7. Completion'
  BY <1>0, <1>1, <1>2, <1>3 DEF Completion, CompletePC, ReadyPC
<1> QED
  BY <1>0, <1>3, <1>5, <1>6, <1>7, OneReconcile

LEMMA CrashKeeps ==
    ASSUME TypeOK, Inv, Crash
    PROVE  Inv'
<1>0. /\ CP \in Node /\ JobOnly /\ Completion
      /\ api' = api /\ job'.st = "none" /\ prog' = -1
      /\ \A n \in Node : pc'[n] = "idle" /\ ~fresh'[n]
      /\ \A n \in Node : Live(n)' = Live(n)
  BY DEF Crash, Inv, Node, NoJob, Live
<1>1. /\ \A n \in Node : Live(n) => 0..api[n].last \subseteq host'[n]
      /\ \A n \in Node : n # CP /\ Live(n) /\ api[n].joined => LastWorker \in host'[n]
      /\ host'[CP] \subseteq Phases(CP)
      /\ Live(CP) /\ (api[CP].cache # "none" \/ api[CP].phase = "Ready" \/ api[CP].jc # "none")
            => host'[CP] = host[CP] /\ netcfg' = netcfg
  <2>1. CASE job.st = "running" /\ job.at <= LastCP /\ CPPhaseLands(job.at)
    <3>1. \A n \in Node \ {CP} : host'[n] = host[n]
      BY <2>1, PhaseLands
    <3>2. /\ host'[CP] \subseteq Phases(CP)
          /\ Live(CP) => /\ api[CP].jc = "none" /\ api[CP].cache = "none"
                         /\ api[CP].phase # "Ready"
                         /\ 0..api[CP].last \subseteq host'[CP]
      BY <2>1, PhaseLands
    <3>3. ASSUME NEW n \in Node, n # CP, Live(n)
          PROVE  /\ 0..api[n].last \subseteq host[n]
                 /\ api[n].joined => LastWorker \in host[n]
      BY <3>3 DEF Inv, ResourceInv, Joining
    <3> QED
      BY <3>1, <3>2, <3>3
  <2>2. CASE ~(job.st = "running" /\ job.at <= LastCP /\ CPPhaseLands(job.at))
    <3>1. PICK landed \in SUBSET {w \in Worker : pc[w] = "join" /\ at[w] <= LastWorker
                                                  /\ CanRun(w, at[w])} :
            /\ host' = [n \in Node |-> IF n \in landed THEN Effect(host[n], at[n])
                                       ELSE host[n]]
            /\ netcfg' = netcfg
      BY <2>2 DEF Crash
    <3>2. host'[CP] = host[CP]
      BY <1>0, <3>1, ClusterAssumption
    <3>3. ASSUME NEW n \in Node, Live(n), n \notin landed
          PROVE  /\ 0..api[n].last \subseteq host'[n]
                 /\ n # CP /\ api[n].joined => LastWorker \in host'[n]
      BY <3>1, <3>3 DEF Inv, ResourceInv, Joining
    <3>4. ASSUME NEW n \in landed, n \in Node, Live(n)
          PROVE  /\ 0..api[n].last \subseteq host'[n] /\ ~api[n].joined
      <4>1. /\ pc[n] = "join" /\ n # CP /\ host'[n] = Effect(host[n], at[n])
        BY <3>1, <3>4, ClusterAssumption
      <4>2. /\ 0..api[n].last \subseteq host[n] /\ ~api[n].joined
            /\ at[n] = 0 => api[n].last = -1
        BY <3>4, <4>1 DEF Inv, ResourceInv, Joining
      <4>3. CASE at[n] = 0
        BY <4>1, <4>2, <4>3 DEF Effect
      <4>4. CASE at[n] # 0
        BY <4>1, <4>2, <4>4 DEF Effect
      <4> QED
        BY <4>2, <4>3, <4>4
    <3> QED
      BY <1>0, <3>1, <3>2, <3>3, <3>4 DEF JobOnly
  <2> QED
    BY <2>1, <2>2
<1>2. ASSUME NEW n \in Node PROVE ResourceInv(n)'
  <2>1. ResourceInv(n)
    BY DEF Inv
  <2>2. Gone(n)' /\ CopyCurrent(n)'
    BY <1>0, <2>1 DEF ResourceInv, Gone, CopyCurrent, DeletePC, Early
  <2>3. ASSUME n # CP PROVE Joining(n)'
    BY <1>0, <1>1, <2>3 DEF Joining
  <2> QED
    BY <1>0, <1>1, <2>2, <2>3 DEF ResourceInv
<1>3. JobOnly'
  BY <1>0, <1>1 DEF JobOnly
<1>4. Completion'
  BY <1>0, <1>1 DEF Completion, CompletePC, ReadyPC
<1> QED
  BY <1>2, <1>3, <1>4 DEF Inv

-----------------------------------------------------------------------------
(* Together.                                                               *)

LEMMA InitFields ==
    ASSUME NEW b
    PROVE  /\ [NoObject EXCEPT !.exists = TRUE, !.vpnRef = b].exists
           /\ [NoObject EXCEPT !.exists = TRUE, !.vpnRef = b].phase = ""
           /\ [NoObject EXCEPT !.exists = TRUE, !.vpnRef = b].jc = "none"
           /\ [NoObject EXCEPT !.exists = TRUE, !.vpnRef = b].last = -1
           /\ [NoObject EXCEPT !.exists = TRUE, !.vpnRef = b].cache = "none"
           /\ ~[NoObject EXCEPT !.exists = TRUE, !.vpnRef = b].joined
BY DEF NoObject

LEMMA InvInit == Init => Inv
<1> SUFFICES ASSUME Init
             PROVE  Inv
  OBVIOUS
<1>0. /\ pc = [n \in Node |-> "idle"] /\ fresh = [n \in Node |-> FALSE]
      /\ job = NoJob /\ prog = -1 /\ host = [n \in Node |-> {}]
  BY Zenon DEF Init
<1>1. CP \in Node /\ job.st = "none"
  BY <1>0 DEF Node, NoJob
<1>2. ASSUME NEW n \in Node
      PROVE  /\ api[n].exists /\ api[n].phase = "" /\ api[n].jc = "none"
             /\ api[n].last = -1 /\ api[n].cache = "none" /\ ~api[n].joined
  <2>1. api = [m \in Node |-> [NoObject EXCEPT !.exists = TRUE, !.vpnRef = (m = CP)]]
    BY Zenon DEF Init
  <2>2. api[n] = [NoObject EXCEPT !.exists = TRUE, !.vpnRef = (n = CP)]
    BY <2>1, Zenon
  <2>3. \E b : api[n] = [NoObject EXCEPT !.exists = TRUE, !.vpnRef = b]
    BY <2>2, Zenon
  <2> QED
    BY <2>3, InitFields
<1>3. ASSUME NEW n \in Node PROVE ResourceInv(n)
  <2>1. pc[n] = "idle" /\ ~fresh[n]
    BY <1>0
  <2>2. Gone(n) /\ CopyCurrent(n)
    BY <1>2, <2>1 DEF Gone, CopyCurrent, DeletePC, Early
  <2>3. Joining(n)
    BY <1>2, <2>1 DEF Joining
  <2>4. 0..api[n].last = {}
    <3>1. api[n].last = -1
      BY <1>2
    <3> QED
      BY <3>1
  <2> QED
    BY <2>2, <2>3, <2>4 DEF ResourceInv
<1>4. JobOnly
  <2>1. host[CP] = {} /\ 0..prog = {}
    BY <1>0, <1>1
  <2> QED
    BY <1>0, <1>1, <2>1 DEF JobOnly
<1>5. Completion
  BY <1>0, <1>1, <1>2 DEF Completion, CompletePC, ReadyPC
<1> QED
  BY <1>3, <1>4, <1>5 DEF Inv

LEMMA InvStep == TypeOK /\ Inv /\ [Next]_vars => Inv'
<1> SUFFICES ASSUME TypeOK, Inv, [Next]_vars
             PROVE  Inv'
  OBVIOUS
<1>1. ASSUME ReconcileCP
      PROVE  Inv'
  BY <1>1, InitKeeps, StartJobKeeps, FlushProgressKeeps, TakeResultKeeps,
     MarkInitCompleteKeeps, MovesKeep, StampsKeep, PublishJoinKeeps, ClearInitKeeps,
     RefreshTokenKeeps, PackagesKeep DEF ReconcileCP
<1>2. ASSUME NEW w \in Worker, ReconcileWorker(w)
      PROVE  Inv'
  BY <1>2, WorkerMovesKeep, SyncVPNKeeps, JoinPhaseKeeps, MarkJoinedKeeps,
     WorkerReadyKeeps, RecordAddressKeeps DEF ReconcileWorker
<1>3. ASSUME NEW n \in Node, Reconcile(n)
      PROVE  Inv'
  BY <1>1, <1>2, <1>3, StartKeeps, AddFinalizerKeeps, ProtectSecretsKeeps,
     MarkProvisioningKeeps, FailKeeps, DeletionKeeps DEF Reconcile
<1>4. CASE Environment
  BY <1>4, UserEditsKeeps, UserDeletesKeeps, ElsewhereKeeps, TimeKeeps, CrashKeeps
     DEF Environment
<1>5. CASE UNCHANGED vars
  <2>1. /\ api' = api /\ pc' = pc /\ loc' = loc /\ fresh' = fresh /\ at' = at
        /\ host' = host /\ job' = job /\ prog' = prog /\ netcfg' = netcfg
    BY <1>5 DEF vars, ctlVars, jobVars, remoteVars
  <2>2. ASSUME NEW n \in Node PROVE ResourceInv(n)'
    BY <2>1, ResourceFrame DEF Inv
  <2>3. JobOnly' /\ Completion'
    BY <2>1, ControlPlaneFrame DEF Inv
  <2> QED
    BY <2>2, <2>3 DEF Inv
<1> QED
  BY <1>3, <1>4, <1>5, JobKeeps DEF Next

LEMMA Invariant == Spec => [](TypeOK /\ Inv)
<1>1. Init => TypeOK /\ Inv
  BY TypeInit, InvInit
<1>2. TypeOK /\ Inv /\ [Next]_vars => (TypeOK /\ Inv)'
  BY TypeStep, InvStep
<1> QED
  BY <1>1, <1>2, PTL DEF Spec

\* A Ready control plane, or one with a join command to give, has all its phases
\* and a NetConfig, whatever completeControlPlane met on its way.
THEOREM ReadyControlPlaneProvisioned == Spec => []ReadyIsProvisioned
<1>1. TypeOK /\ Inv => ReadyIsProvisioned
  <2> SUFFICES ASSUME Inv, api[CP].phase = "Ready" \/ api[CP].jc # "none", ~api[CP].deleting
               PROVE  host[CP] = Phases(CP) /\ netcfg.exists
    BY DEF ReadyIsProvisioned
  <2>1. Gone(CP) /\ Completion
    BY DEF Inv, ResourceInv, Node
  <2>2. api[CP].exists
    BY <2>1, NoObjectFields DEF Gone
  <2> QED
    BY <2>1, <2>2 DEF Completion, Live
<1> QED
  BY <1>1, Invariant, PTL

\* The phases a resource says are done are done on its machine, so a retry skips
\* nothing (OnPhaseComplete, last-completed-phase-cp and -worker).
THEOREM ProgressSound == Spec => []ProgressBehindHost
<1>1. TypeOK /\ Inv => ProgressBehindHost
  BY DEF ProgressBehindHost, Inv, ResourceInv, Live
<1> QED
  BY <1>1, Invariant, PTL

\* A worker marked joined has joined (worker-joined in reconcileWorker).
THEOREM JoinedWorkersAreMembers == Spec => []JoinedIsMember
<1>1. TypeOK /\ Inv => JoinedIsMember
  <2> SUFFICES ASSUME Inv, NEW w \in Worker, api[w].joined, ~api[w].deleting
               PROVE  LastWorker \in host[w]
    BY DEF JoinedIsMember
  <2>1. w \in Node /\ w # CP
    BY ClusterAssumption DEF Node
  <2>2. Gone(w) /\ Joining(w)
    BY <2>1 DEF Inv, ResourceInv
  <2>3. api[w].exists
    BY <2>2, NoObjectFields DEF Gone
  <2> QED
    BY <2>2, <2>3 DEF Joining, Live
<1> QED
  BY <1>1, Invariant, PTL

-----------------------------------------------------------------------------
(* No phase runs on a machine that has been given out.                     *)

\* A resource that has a join command, or is marked joined, and is not deleted.
Promised(n) == (api[n].jc # "none" \/ api[n].joined) /\ ~api[n].deleting

LEMMA PromisedFacts ==
    ASSUME Inv, NEW n \in Node, Promised(n)
    PROVE  /\ Live(n)
           /\ n = CP => job.st # "running"
           /\ n # CP => pc[n] # "join"
<1>1. ResourceInv(n) /\ JobOnly
  BY DEF Inv
<1>2. Live(n)
  BY <1>1, NoObjectFields DEF ResourceInv, Gone, Promised, Live
<1> QED
  BY <1>1, <1>2 DEF ResourceInv, Gone, JobOnly, Joining, Promised

LEMMA HostStep ==
    ASSUME TypeOK, Inv, Next, NEW n \in Node, Promised(n)
    PROVE  host'[n] = host[n]
<1> USE DEF remoteVars
<1>1. ASSUME NEW m \in Node, ResetHost(m)
      PROVE  host'[n] = host[n]
  <2>1. ~Live(m)
    BY <1>1 DEF Inv, ResourceInv, Gone, DeletePC, ResetHost
  <2>2. m # n
    BY <2>1, PromisedFacts
  <2> QED
    BY <1>1, <2>2 DEF ResetHost, TypeOK
<1>2. ASSUME NEW w \in Worker, JoinPhase(w)
      PROVE  host'[n] = host[n]
  <2>1. w \in Node /\ w # CP /\ pc[w] = "join"
    BY <1>2, ClusterAssumption DEF Node, JoinPhase
  <2>2. w # n
    BY <2>1, PromisedFacts
  <2> QED
    BY <1>2, <2>2 DEF JoinPhase, Lands, TypeOK
<1>3. ASSUME ReconcileCP
      PROVE  host'[n] = host[n]
  BY <1>3 DEF ReconcileCP, AlreadyInitialised, ResumeCompletion, StartJob, FlushProgress,
         TakeResult, MarkInitComplete, EnsureRepo, CreateNetConfig, StampNetConfig,
         PublishJoin, ClearInit, SkipRefresh, RefreshToken, PatchNetJoin, StampRefresh,
         Packages, MarkPackages
<1>4. ASSUME NEW w \in Worker, ReconcileWorker(w)
      PROVE  host'[n] = host[n]
  BY <1>2, <1>4 DEF ReconcileWorker, Connect, SyncVPN, PrepareJoin, NameNode, MarkJoined,
         WorkerReady, RecordAddress
<1>5. ASSUME NEW m \in Node, Reconcile(m)
      PROVE  host'[n] = host[n]
  BY <1>1, <1>3, <1>4, <1>5 DEF Reconcile, Start, AddFinalizer, ProtectSecrets,
         MarkProvisioning, Fail, RemovePeer, ReleaseSecrets, RemoveFinalizer
<1>6. CASE CPPhaseLands(job.at) /\ job.st = "running"
  BY <1>6, PromisedFacts DEF CPPhaseLands, TypeOK
<1>7. CASE Job
  BY <1>6, <1>7 DEF Job, JobPhase, JobEnds, JobFails
<1>8. CASE Crash
  <2>1. CASE ~(job.st = "running" /\ CPPhaseLands(job.at))
    <3>1. PICK landed \in SUBSET {w \in Worker : pc[w] = "join" /\ at[w] <= LastWorker
                                                  /\ CanRun(w, at[w])} :
            host' = [m \in Node |-> IF m \in landed THEN Effect(host[m], at[m])
                                    ELSE host[m]]
      BY <1>8, <2>1 DEF Crash
    <3>2. n \notin landed
      BY <3>1, PromisedFacts, ClusterAssumption
    <3> QED
      BY <3>1, <3>2
  <2> QED
    BY <1>6, <2>1
<1>9. CASE Environment /\ ~Crash
  BY <1>9 DEF Environment, UserEdits, UserDeletes, TearDown, UserDeletesSecret,
         TokenAges, TokenExpires
<1> QED
  BY <1>5, <1>7, <1>8, <1>9 DEF Next

\* A machine whose cluster has been published, or that has joined, is not touched by
\* another phase, above all not by the Cleanup that resets it, until its resource is
\* deleted (the guards of reconcileControlPlane and reconcileWorker).
THEOREM PublishedHostUntouched == Spec => ProvisionedHostStable
<1>1. TypeOK /\ Inv /\ [Next]_vars =>
        [\A n \in Node : (api[n].jc # "none" \/ api[n].joined) /\ ~api[n].deleting
                            => host'[n] = host[n]]_vars
  BY HostStep DEF Promised
<1> QED
  BY <1>1, Invariant, PTL DEF Spec, ProvisionedHostStable

=============================================================================
