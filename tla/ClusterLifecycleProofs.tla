----------------------- MODULE ClusterLifecycleProofs -----------------------
(***************************************************************************)
(* RemoteCluster implements ClusterLifecycle, for every number of workers  *)
(* and phases and every bound on failures and edits.                       *)
(*                                                                         *)
(* What the abstract cluster and the machines do follows from Inv before   *)
(* and after a step.  Three things must be added: a resource without the   *)
(* finalizer has nothing to lose, so that only handleDelete lets one with  *)
(* a promise go; the join command in a reconcile's hands is one; and who   *)
(* has it to join with got it from a cluster that was open.                *)
(***************************************************************************)
EXTENDS RemoteClusterProofs

\* Beyond AddFinalizer the finalizer is on, and nothing is promised without it.
Worked(n) ==
    /\ pc[n] \notin {"idle", "finalizer"} => api[n].finalizer /\ loc[n].finalizer
    /\ ~api[n].finalizer => ~api[n].deleting /\ api[n].jc = "none" /\ ~api[n].joined

\* The control plane is completed with a join command in hand.
InHand ==
    \/ pc[CP] \in {"stamp", "repo", "publish"}
    \/ pc[CP] \in {"netconfig", "netstamp"} /\ loc[CP].phase # "Ready"
    => tok[CP] # "none"

\* A worker joins with what an open cluster gave it.
Invited(w) == pc[w] \in {"prepare", "join"} => ClusterStage # "new"

OpenInv ==
    /\ \A n \in Node : Worked(n)
    /\ InHand
    /\ \A w \in Worker : Invited(w)

-----------------------------------------------------------------------------
(* Writes that change no stage.                                            *)

\* Written over p, o is at the same stage, and keeps the finalizer.
Kin(o, p) ==
    /\ o.exists = p.exists /\ o.deleting = p.deleting /\ o.joined = p.joined
    /\ o.jc = "none" <=> p.jc = "none"
    /\ p.finalizer => o.finalizer

LEMMA KinFields ==
    ASSUME NEW o \in Object, NEW v, NEW u
    PROVE  /\ Kin(o, o) /\ Kin([o EXCEPT !.finalizer = TRUE], o)
           /\ Kin([o EXCEPT !.phase = v], o) /\ Kin([o EXCEPT !.last = v], o)
           /\ Kin([o EXCEPT !.cache = v], o) /\ Kin([o EXCEPT !.last = v, !.cache = u], o)
           /\ Kin([o EXCEPT !.netDone = v], o) /\ Kin([o EXCEPT !.pkgs = v], o)
           /\ Kin([o EXCEPT !.stamp = v], o) /\ Kin([o EXCEPT !.vpnRef = v], o)
<1>1. /\ Kin(o, o) /\ Kin([o EXCEPT !.finalizer = TRUE], o)
      /\ Kin([o EXCEPT !.phase = v], o) /\ Kin([o EXCEPT !.last = v], o)
  BY DEF Kin, Object
<1>2. Kin([o EXCEPT !.cache = v], o) /\ Kin([o EXCEPT !.last = v, !.cache = u], o)
  BY DEF Kin, Object
<1>3. Kin([o EXCEPT !.netDone = v], o) /\ Kin([o EXCEPT !.pkgs = v], o)
  BY DEF Kin, Object
<1>4. Kin([o EXCEPT !.stamp = v], o) /\ Kin([o EXCEPT !.vpnRef = v], o)
  BY DEF Kin, Object
<1> QED
  BY <1>1, <1>2, <1>3, <1>4

\* What a reconcile of n leaves alone.
Aside(n) ==
    \A m \in Node \ {n} : /\ api'[m] = api[m] /\ pc'[m] = pc[m]
                          /\ loc'[m] = loc[m] /\ tok'[m] = tok[m]

\* A step of n's reconcile at which its resource stays at its stage.
Steady(n) ==
    /\ Kin(api'[n], api[n])
    /\ pc'[n] \in {"idle", "finalizer"} \/ (api'[n].finalizer /\ loc'[n].finalizer)

LEMMA StagesKept ==
    ASSUME \A n \in Node : Kin(api'[n], api[n])
    PROVE  ClusterStage' = ClusterStage /\ WorkerStage' = WorkerStage
<1>1. CP \in Node /\ Worker \subseteq Node
  BY DEF Node
<1>2. ClusterStage' = ClusterStage
  BY <1>1 DEF ClusterStage, StageOf, Kin
<1>3. ASSUME NEW w \in Worker
      PROVE  StageOf(api[w], api[w].joined, "joined")' = StageOf(api[w], api[w].joined, "joined")
  BY <1>1 DEF StageOf, Kin
<1> QED
  BY <1>2, <1>3 DEF WorkerStage

\* The ways to go on.
LEMMA Returned ==
    ASSUME TypeOK, NEW n \in Node, NEW r, Return(n, r), \A m \in Node \ {n} : api'[m] = api[m]
    PROVE  Aside(n) /\ pc'[n] = "idle"
<1>1. tok' = [tok EXCEPT ![n] = "none"]
  BY DEF Return
<1> QED
  BY <1>1, ReturnFacts DEF Aside, TypeOK

LEMMA Continued ==
    ASSUME TypeOK, NEW n \in Node, NEW label, Continue(n, label),
           \A m \in Node \ {n} : api'[m] = api[m]
    PROVE  Aside(n) /\ pc'[n] = label /\ loc' = loc /\ tok' = tok
BY ContinueFacts DEF Aside, Continue

LEMMA ContinuedWith ==
    ASSUME TypeOK, NEW n \in Node, NEW label, NEW o, ContinueWith(n, label, o),
           \A m \in Node \ {n} : api'[m] = api[m]
    PROVE  Aside(n) /\ pc'[n] = label /\ loc'[n] = o /\ tok' = tok
BY ContinueWithFacts DEF Aside, ContinueWith

\* Writing back an accepted copy, or a refusal.
LEMMA CommitKin ==
    ASSUME TypeOK, Inv, NEW n \in Node, NEW o, Commit(n, o) \/ Lost(n), Kin(o, loc[n]),
           o.finalizer
    PROVE  Kin(api'[n], api[n]) /\ \A m \in Node \ {n} : api'[m] = api[m]
<1>1. fresh[n] /\ api[n].exists => Same(loc[n], api[n])
  BY DEF Inv, ResourceInv, CopyCurrent
<1> QED
  BY <1>1, CommitFacts DEF Kin, Same

LEMMA AnnotateKin ==
    ASSUME TypeOK, NEW n \in Node, NEW o, Annotate(n, o) \/ AnnotateLost(n), Kin(o, api[n])
    PROVE  Kin(api'[n], api[n]) /\ \A m \in Node \ {n} : api'[m] = api[m]
BY AnnotateFacts DEF Kin

LEMMA RefetchKin ==
    ASSUME TypeOK, NEW n \in Node, NEW o, Refetched(n, o) \/ RefetchFails(n), Kin(o, api[n])
    PROVE  Kin(api'[n], api[n]) /\ \A m \in Node \ {n} : api'[m] = api[m]
BY RefetchFacts DEF Kin

\* A step that leaves the resource where it was, with a finalizer if there is one.
LEMMA SteadyFrom ==
    ASSUME NEW n \in Node, Worked(n), Kin(api'[n], api[n]),
           \/ pc'[n] \in {"idle", "finalizer"}
           \/ pc[n] \notin {"idle", "finalizer"} /\ (loc[n].finalizer => loc'[n].finalizer)
    PROVE  Steady(n)
BY DEF Worked, Steady, Kin

-----------------------------------------------------------------------------
(* The steps either kind of resource takes.                                *)

\* Where these lead: not to what follows a join command.
Uncommitted(n) ==
    /\ pc'[n] \notin {"stamp", "repo", "publish", "netstamp", "prepare", "join"}
    /\ pc'[n] = "netconfig" => loc'[n].phase = "Ready"

LEMMA StartSteady ==
    ASSUME TypeOK, OpenInv, NEW n \in Node, Start(n)
    PROVE  Steady(n) /\ Aside(n) /\ Uncommitted(n)
<1>1. /\ api' = api /\ tok' = tok /\ Kin(api'[n], api[n]) /\ pc[n] = "idle"
      /\ api[n] \in Object /\ Worked(n)
  BY DEF Start, Kin, TypeOK, OpenInv
<1>2. CASE api[n].exists /\ Dispatch(api[n]) # "idle"
  <2>1. /\ Goto(n, Dispatch(api[n])) /\ loc' = [loc EXCEPT ![n] = api[n]]
    BY <1>2 DEF Start
  <2>2. /\ pc'[n] = Dispatch(api[n]) /\ loc'[n] = api[n] /\ Aside(n)
    BY <1>1, <2>1, GotoFacts DEF TypeOK, Aside
  <2>3. (pc'[n] \in {"reset", "protect"} /\ api[n].finalizer) \/ pc'[n] = "finalizer"
    BY <1>2, <2>2 DEF Dispatch
  <2> QED
    BY <1>1, <2>2, <2>3 DEF Steady, Uncommitted
<1>3. CASE ~(api[n].exists /\ Dispatch(api[n]) # "idle")
  <2>1. loc' = loc /\ pc' = pc
    BY <1>3 DEF Start
  <2> QED
    BY <1>1, <2>1 DEF Steady, Aside, Uncommitted
<1> QED
  BY <1>2, <1>3

\* AddFinalizer and Fail write their copy back and return.
LEMMA CommitReturnSteady ==
    ASSUME TypeOK, Inv, OpenInv, NEW n \in Node, NEW o, NEW r,
           Commit(n, o) \/ Lost(n), Return(n, r), Kin(o, loc[n]), o.finalizer
    PROVE  Steady(n) /\ Aside(n) /\ Uncommitted(n)
<1>1. Kin(api'[n], api[n]) /\ \A m \in Node \ {n} : api'[m] = api[m]
  BY CommitKin
<1>2. Aside(n) /\ pc'[n] = "idle"
  BY <1>1, Returned
<1> QED
  BY <1>1, <1>2 DEF Steady, Uncommitted

LEMMA CommonSteady ==
    ASSUME TypeOK, Inv, OpenInv, NEW n \in Node,
           \/ Start(n) \/ AddFinalizer(n) \/ ProtectSecrets(n) \/ MarkProvisioning(n)
           \/ Fail(n) \/ ResetHost(n) \/ RemovePeer(n) \/ ReleaseSecrets(n)
    PROVE  Steady(n) /\ Aside(n) /\ Uncommitted(n)
<1>0. api[n] \in Object /\ loc[n] \in Object /\ Worked(n) /\ Kin(api[n], api[n])
  BY KinFields DEF TypeOK, OpenInv
<1>1. CASE AddFinalizer(n)
  <2> DEFINE o == [loc[n] EXCEPT !.finalizer = TRUE]
  <2>1. Kin(o, loc[n]) /\ o.finalizer
    BY <1>0, KinFields DEF Object
  <2> QED
    BY <1>1, <2>1, CommitReturnSteady DEF AddFinalizer
<1>2. CASE Fail(n)
  <2> DEFINE o == [loc[n] EXCEPT !.phase = "Failed"]
  <2>1. Kin(o, loc[n]) /\ o.finalizer
    BY <1>0, <1>2, KinFields DEF Kin, Fail, Worked
  <2> QED
    BY <1>2, <2>1, CommitReturnSteady DEF Fail
<1>3. CASE MarkProvisioning(n)
  <2> DEFINE o == [loc[n] EXCEPT !.phase = "Provisioning"]
  <2>1. /\ pc[n] = "provision" /\ (Commit(n, o) \/ Lost(n))
        /\ loc' = [loc EXCEPT ![n].phase = "Provisioning"] /\ tok' = tok
        /\ Goto(n, IF n = CP THEN "init" ELSE "connect")
    BY <1>3 DEF MarkProvisioning
  <2>2. Kin(o, loc[n]) /\ o.finalizer
    BY <1>0, <2>1, KinFields DEF Kin, Worked
  <2>3. loc'[n] = o /\ \A m \in Node \ {n} : loc'[m] = loc[m]
    BY <1>0, <2>1 DEF TypeOK
  <2> HIDE DEF o
  <2>4. Kin(api'[n], api[n]) /\ \A m \in Node \ {n} : api'[m] = api[m]
    BY <2>1, <2>2, CommitKin
  <2>5. Aside(n) /\ pc'[n] \in {"init", "connect"}
    BY <2>1, <2>3, <2>4, GotoFacts DEF Aside
  <2> QED
    BY <1>0, <2>1, <2>2, <2>3, <2>4, <2>5, SteadyFrom DEF Uncommitted
<1>4. CASE ProtectSecrets(n)
  <2>1. api' = api /\ pc[n] = "protect"
    BY <1>4 DEF ProtectSecrets
  <2>2. CASE Return(n, FALSE)
    BY <1>0, <2>1, <2>2, Returned DEF Steady, Uncommitted
  <2>3. CASE Continue(n, AfterProtect(n))
    <3>1. Aside(n) /\ pc'[n] = AfterProtect(n) /\ loc' = loc
      BY <2>1, <2>3, Continued
    <3>2. /\ AfterProtect(n) \in {"provision", "idle", "token", "netconfig"}
          /\ AfterProtect(n) = "netconfig" => loc[n].phase = "Ready"
      BY DEF AfterProtect
    <3> QED
      BY <1>0, <2>1, <3>1, <3>2, SteadyFrom DEF Uncommitted
  <2> QED
    BY <1>4, <2>2, <2>3 DEF ProtectSecrets
<1>5. CASE ResetHost(n) \/ ReleaseSecrets(n)
  <2>1. /\ api' = api /\ pc[n] \in {"reset", "release"}
        /\ Continue(n, "unpeer") \/ Continue(n, "unfinalize")
    BY <1>5 DEF ResetHost, ReleaseSecrets
  <2>2. Aside(n) /\ pc'[n] \in {"unpeer", "unfinalize"} /\ loc' = loc
    BY <2>1, Continued
  <2> QED
    BY <1>0, <2>1, <2>2, SteadyFrom DEF Uncommitted
<1>6. CASE RemovePeer(n)
  <2>1. PICK ref : /\ api' = api /\ pc[n] = "unpeer" /\ tok' = tok
                   /\ loc' = [loc EXCEPT ![n].vpnRef = ref] /\ Goto(n, "release")
    BY <1>6 DEF RemovePeer
  <2>2. loc'[n] = [loc[n] EXCEPT !.vpnRef = ref] /\ \A m \in Node \ {n} : loc'[m] = loc[m]
    BY <1>0, <2>1 DEF TypeOK
  <2>3. loc[n].finalizer => loc'[n].finalizer
    BY <1>0, <2>2, KinFields DEF Kin
  <2>4. Aside(n) /\ pc'[n] = "release"
    BY <2>1, <2>2, GotoFacts DEF Aside
  <2> QED
    BY <1>0, <2>1, <2>3, <2>4, SteadyFrom DEF Uncommitted
<1> QED
  BY <1>1, <1>2, <1>3, <1>4, <1>5, <1>6, StartSteady

-----------------------------------------------------------------------------
(* The control plane.                                                      *)

\* It stops, or is about to fail, with its resource where it was.
LEMMA StopsSteady ==
    ASSUME TypeOK, OpenInv, Kin(api'[CP], api[CP]), \A m \in Node \ {CP} : api'[m] = api[m],
           pc[CP] \notin {"idle", "finalizer"},
           \E r \in BOOLEAN : Return(CP, r) \/ Continue(CP, "fail") \/ Continue(CP, "packages")
    PROVE  Steady(CP) /\ Aside(CP) /\ InHand'
<1>0. CP \in Node /\ Worked(CP)
  BY DEF Node, OpenInv
<1>1. CASE \E r \in BOOLEAN : Return(CP, r)
  BY <1>0, <1>1, Returned DEF Steady, InHand
<1>2. CASE Continue(CP, "fail") \/ Continue(CP, "packages")
  <2>1. Aside(CP) /\ pc'[CP] \in {"fail", "packages"} /\ loc' = loc
    BY <1>0, <1>2, Continued
  <2> QED
    BY <1>0, <2>1, SteadyFrom DEF InHand
<1> QED
  BY <1>1, <1>2

LEMMA InitSteady ==
    ASSUME TypeOK, Inv, OpenInv,
           \/ AlreadyInitialised \/ ResumeCompletion \/ StartJob \/ FlushProgress
           \/ TakeResult \/ MarkInitComplete
    PROVE  Steady(CP) /\ Aside(CP) /\ InHand'
<1>0. /\ CP \in Node /\ api[CP] \in Object /\ loc[CP] \in Object /\ Worked(CP)
      /\ Kin(api[CP], api[CP]) /\ tok \in [Node -> Token] /\ pc[CP] \in {"init", "stamp"}
  BY KinFields DEF TypeOK, OpenInv, Node, AlreadyInitialised, ResumeCompletion, StartJob,
     FlushProgress, TakeResult, MarkInitComplete, ToInit
<1>1. CASE AlreadyInitialised \/ StartJob
  BY <1>0, <1>1, StopsSteady DEF AlreadyInitialised, StartJob
<1>2. CASE FlushProgress
  <2>1. Kin(api'[CP], api[CP]) /\ \A m \in Node \ {CP} : api'[m] = api[m]
    <3>1. api' = [api EXCEPT ![CP].last = prog] \/ api' = api
      BY <1>2 DEF FlushProgress
    <3>2. CASE api' = [api EXCEPT ![CP].last = prog]
      <4>1. api'[CP] = [api[CP] EXCEPT !.last = prog]
        BY <1>0, <3>2 DEF TypeOK
      <4> QED
        BY <1>0, <3>2, <4>1, KinFields DEF TypeOK
    <3> QED
      BY <1>0, <3>1, <3>2
  <2> QED
    BY <1>0, <1>2, <2>1, StopsSteady DEF FlushProgress
<1>3. CASE ResumeCompletion
  <2>1. /\ api' = api /\ loc' = loc /\ Goto(CP, "repo") /\ loc[CP].cache # "none"
        /\ tok' = [tok EXCEPT ![CP] = loc[CP].cache]
    BY <1>3 DEF ResumeCompletion
  <2>2. Aside(CP) /\ pc'[CP] = "repo" /\ tok'[CP] # "none"
    BY <1>0, <2>1, GotoFacts DEF Aside
  <2> QED
    BY <1>0, <2>1, <2>2, SteadyFrom DEF InHand
<1>4. CASE TakeResult
  <2> DEFINE o == [api[CP] EXCEPT !.last = prog]
  <2>1. /\ Annotate(CP, o) \/ AnnotateLost(CP) \/ api' = api
        /\ loc' = loc
        /\ tok' = [tok EXCEPT ![CP] = IF job.st = "ok" THEN "perm" ELSE @]
        /\ Goto(CP, IF job.st = "ok" THEN "stamp" ELSE "fail")
    BY <1>4 DEF TakeResult
  <2>2. Kin(o, api[CP])
    BY <1>0, KinFields
  <2> HIDE DEF o
  <2>3. Kin(api'[CP], api[CP]) /\ \A m \in Node \ {CP} : api'[m] = api[m]
    BY <1>0, <2>1, <2>2, AnnotateKin
  <2>4. /\ Aside(CP) /\ pc'[CP] \in {"stamp", "fail"}
        /\ pc'[CP] = "stamp" => tok'[CP] # "none"
    BY <1>0, <2>1, <2>3, GotoFacts DEF Aside
  <2> QED
    BY <1>0, <2>1, <2>3, <2>4, SteadyFrom DEF InHand
<1>5. CASE MarkInitComplete
  <2> DEFINE o == [api[CP] EXCEPT !.last = -1, !.cache = tok[CP]]
  <2>1. /\ pc[CP] = "stamp" /\ (Annotate(CP, o) \/ AnnotateLost(CP))
        /\ loc' = loc /\ tok' = tok /\ Goto(CP, "repo")
    BY <1>5 DEF MarkInitComplete
  <2>2. Kin(o, api[CP])
    BY <1>0, KinFields
  <2> HIDE DEF o
  <2>3. Kin(api'[CP], api[CP]) /\ \A m \in Node \ {CP} : api'[m] = api[m]
    BY <1>0, <2>1, <2>2, AnnotateKin
  <2>4. Aside(CP) /\ pc'[CP] = "repo" /\ tok'[CP] # "none"
    BY <1>0, <2>1, <2>3, GotoFacts DEF Aside, OpenInv, InHand
  <2> QED
    BY <1>0, <2>1, <2>3, <2>4, SteadyFrom DEF InHand
<1> QED
  BY <1>1, <1>2, <1>3, <1>4, <1>5

LEMMA MovesSteady ==
    ASSUME TypeOK, Inv, OpenInv,
           \/ EnsureRepo \/ CreateNetConfig \/ StampNetConfig \/ ClearInit \/ SkipRefresh
           \/ PatchNetJoin \/ StampRefresh \/ Packages \/ MarkPackages
    PROVE  Steady(CP) /\ Aside(CP) /\ InHand'
<1>0. /\ CP \in Node /\ api[CP] \in Object /\ Worked(CP) /\ Kin(api[CP], api[CP]) /\ InHand
      /\ pc[CP] \in {"repo", "netconfig", "netstamp", "clear", "token", "netjoin",
                     "tokenstamp", "packages", "pkgstamp"}
  BY KinFields DEF TypeOK, OpenInv, Node, EnsureRepo, CreateNetConfig, StampNetConfig,
     ClearInit, SkipRefresh, PatchNetJoin, StampRefresh, Packages, MarkPackages
<1>1. CASE EnsureRepo \/ CreateNetConfig \/ SkipRefresh \/ PatchNetJoin \/ Packages
  <2>1. /\ api' = api
        /\ \/ Continue(CP, "fail") \/ Continue(CP, "packages") \/ Return(CP, TRUE)
           \/ pc[CP] = "repo" /\ Continue(CP, "netconfig")
           \/ pc[CP] = "netconfig" /\ Continue(CP, "netstamp")
           \/ Continue(CP, "tokenstamp") \/ Continue(CP, "pkgstamp")
    BY <1>1 DEF EnsureRepo, CreateNetConfig, SkipRefresh, PatchNetJoin, Packages
  <2>2. CASE Continue(CP, "fail") \/ Continue(CP, "packages") \/ Return(CP, TRUE)
    BY <1>0, <2>1, <2>2, StopsSteady
  <2>3. CASE \/ pc[CP] = "repo" /\ Continue(CP, "netconfig")
             \/ pc[CP] = "netconfig" /\ Continue(CP, "netstamp")
             \/ Continue(CP, "tokenstamp") \/ Continue(CP, "pkgstamp")
    <3>1. /\ Aside(CP) /\ loc' = loc /\ tok' = tok
          /\ \/ pc[CP] = "repo" /\ pc'[CP] = "netconfig"
             \/ pc[CP] = "netconfig" /\ pc'[CP] = "netstamp"
             \/ pc'[CP] \in {"tokenstamp", "pkgstamp"}
      BY <1>0, <2>1, <2>3, Continued
    <3>2. InHand'
      BY <1>0, <3>1 DEF InHand
    <3> QED
      BY <1>0, <2>1, <3>1, <3>2, SteadyFrom
  <2> QED
    BY <2>1, <2>2, <2>3
<1>2. CASE StampNetConfig \/ StampRefresh
  <2>1. PICK o : /\ Annotate(CP, o) \/ AnnotateLost(CP)
                 /\ o \in {[api[CP] EXCEPT !.netDone = TRUE], [api[CP] EXCEPT !.stamp = "recent"]}
                 /\ loc' = loc /\ tok' = tok
                 /\ \/ Goto(CP, "packages")
                    \/ Goto(CP, "token")
                    \/ pc[CP] = "netstamp" /\ loc[CP].phase # "Ready" /\ Goto(CP, "publish")
    BY <1>2 DEF StampNetConfig, StampRefresh
  <2>2. Kin(o, api[CP])
    BY <1>0, <2>1, KinFields
  <2>3. Kin(api'[CP], api[CP]) /\ \A m \in Node \ {CP} : api'[m] = api[m]
    BY <1>0, <2>1, <2>2, AnnotateKin
  <2>4. /\ Aside(CP)
        /\ \/ pc'[CP] \in {"packages", "token"}
           \/ pc[CP] = "netstamp" /\ loc[CP].phase # "Ready" /\ pc'[CP] = "publish"
    BY <1>0, <2>1, <2>3, GotoFacts DEF Aside
  <2>5. InHand'
    BY <1>0, <2>1, <2>4 DEF InHand
  <2> QED
    BY <1>0, <2>1, <2>3, <2>4, <2>5, SteadyFrom
<1>3. CASE ClearInit \/ MarkPackages
  <2>1. PICK o : /\ o \in {[api[CP] EXCEPT !.cache = "none"], [api[CP] EXCEPT !.pkgs = TRUE]}
                 /\ (api' = [api EXCEPT ![CP] = o]) \/ api' = api
                 /\ \E r \in BOOLEAN : Return(CP, r)
    BY <1>3 DEF ClearInit, MarkPackages, Refetched, RefetchFails
  <2>2. Kin(o, api[CP])
    BY <1>0, <2>1, KinFields
  <2>3. Kin(api'[CP], api[CP]) /\ \A m \in Node \ {CP} : api'[m] = api[m]
    BY <1>0, <2>1, <2>2 DEF TypeOK
  <2> QED
    BY <1>0, <2>1, <2>3, StopsSteady
<1> QED
  BY <1>1, <1>2, <1>3

\* A step at which n's resource may be promised something.
Grows(n) ==
    /\ api'[n].exists = api[n].exists /\ api'[n].deleting = api[n].deleting
    /\ api[n].jc # "none" => api'[n].jc # "none"
    /\ api[n].joined => api'[n].joined
    /\ api'[n].finalizer
    /\ pc'[n] \in {"idle", "finalizer"} \/ loc'[n].finalizer

LEMMA PublishGrows ==
    ASSUME TypeOK, Inv, OpenInv, PublishJoin \/ RefreshToken
    PROVE  Grows(CP) /\ Aside(CP) /\ InHand'
<1> DEFINE p == [api[CP] EXCEPT !.phase = "Ready", !.jc = tok[CP]]
           r == [api[CP] EXCEPT !.jc = "temp"]
<1>0. /\ CP \in Node /\ api[CP] \in Object /\ pc[CP] \in {"publish", "token"}
      /\ api[CP].finalizer /\ loc[CP].finalizer /\ InHand
  BY DEF TypeOK, OpenInv, Worked, Node, PublishJoin, RefreshToken
<1>1. /\ p.exists = api[CP].exists /\ p.deleting = api[CP].deleting /\ p.jc = tok[CP]
      /\ p.joined = api[CP].joined /\ p.finalizer
  BY <1>0 DEF Object
<1>2. /\ r.exists = api[CP].exists /\ r.deleting = api[CP].deleting /\ r.jc = "temp"
      /\ r.joined = api[CP].joined /\ r.finalizer
  BY <1>0 DEF Object
<1> HIDE DEF p, r
<1>3. PICK o \in {p, r} :
        /\ pc[CP] = "publish" \/ o = r
        /\ \/ /\ Refetched(CP, o)
              /\ ContinueWith(CP, "clear", o) \/ ContinueWith(CP, "netjoin", o)
           \/ api' = api /\ (Return(CP, TRUE) \/ Continue(CP, "packages"))
  <2>1. CASE PublishJoin
    BY <2>1 DEF PublishJoin, RefetchFails, p
  <2>2. CASE RefreshToken
    BY <2>2 DEF RefreshToken, RefetchFails, r
  <2> QED
    BY <2>1, <2>2
<1>4. /\ o.exists = api[CP].exists /\ o.deleting = api[CP].deleting
      /\ o.joined = api[CP].joined /\ o.finalizer
      /\ api[CP].jc # "none" => o.jc # "none"
  <2>1. CASE o = r
    BY <1>2, <2>1
  <2>2. CASE o # r
    <3>1. o = p /\ tok[CP] # "none"
      BY <1>0, <1>3, <2>2 DEF InHand
    <3> QED
      BY <1>1, <3>1
  <2> QED
    BY <2>1, <2>2
<1>5. CASE Refetched(CP, o) /\ (ContinueWith(CP, "clear", o) \/ ContinueWith(CP, "netjoin", o))
  <2>1. api'[CP] = o /\ \A m \in Node \ {CP} : api'[m] = api[m]
    BY <1>0, <1>5 DEF Refetched, TypeOK
  <2>2. Aside(CP) /\ pc'[CP] \in {"clear", "netjoin"} /\ loc'[CP] = o
    BY <1>0, <1>5, <2>1, ContinuedWith
  <2> QED
    BY <1>4, <2>1, <2>2 DEF Grows, InHand
<1>6. CASE api' = api /\ (Return(CP, TRUE) \/ Continue(CP, "packages"))
  <2>1. Kin(api'[CP], api[CP])
    BY <1>6 DEF Kin
  <2>2. Steady(CP) /\ Aside(CP) /\ InHand'
    BY <1>0, <1>6, <2>1, StopsSteady
  <2> QED
    BY <1>0, <2>1, <2>2 DEF Grows, Steady, Kin
<1> QED
  BY <1>3, <1>5, <1>6

-----------------------------------------------------------------------------
(* A worker.                                                               *)

\* Who goes to join comes from there, or has just seen an open cluster.
Joins(w) ==
    pc'[w] \in {"prepare", "join"} =>
        \/ pc[w] \in {"prepare", "join"}
        \/ api[CP].exists /\ api[CP].jc # "none"

LEMMA SyncVPNSteady ==
    ASSUME TypeOK, Inv, OpenInv, NEW w \in Worker, SyncVPN(w)
    PROVE  Steady(w) /\ Aside(w) /\ Joins(w)
<1> DEFINE o == [api[w] EXCEPT !.vpnRef = TRUE]
<1>0. /\ w \in Node /\ w # CP /\ api[w] \in Object /\ pc[w] = "sync" /\ Worked(w)
      /\ api[w].finalizer /\ loc[w].finalizer /\ Kin(api[w], api[w])
  BY ClusterAssumption, KinFields DEF SyncVPN, OpenInv, Worked, Node, TypeOK
<1>1. Kin(o, api[w]) /\ o.finalizer
  BY <1>0, KinFields DEF Kin
<1>2. \/ api' = api /\ AfterSync(w, loc[w], fresh[w])
      \/ Refetched(w, o) /\ AfterSync(w, o, TRUE)
      \/ api' = api /\ Return(w, TRUE)
  BY DEF SyncVPN
<1> HIDE DEF o
<1>3. /\ Kin(api'[w], api[w]) /\ api'[w].finalizer
      /\ \A m \in Node \ {w} : api'[m] = api[m]
  BY <1>0, <1>1, <1>2 DEF Refetched, TypeOK
<1>4. CASE \E r \in BOOLEAN : Return(w, r)
  BY <1>0, <1>3, <1>4, Returned DEF Steady, Joins
<1>5. CASE ~\E r \in BOOLEAN : Return(w, r)
  <2>1. PICK v, c : /\ v = loc[w] \/ v = o
                    /\ Goto(w, "prepare")
                    /\ loc' = [loc EXCEPT ![w] = v] /\ tok' = [tok EXCEPT ![w] = c]
                    /\ api[CP].exists /\ api[CP].jc # "none"
    BY <1>2, <1>5 DEF AfterSync
  <2>2. loc'[w].finalizer /\ Aside(w) /\ Joins(w)
    BY <1>0, <1>1, <1>3, <2>1, GotoFacts DEF Aside, Joins, TypeOK
  <2> QED
    BY <1>3, <2>2 DEF Steady
<1> QED
  BY <1>4, <1>5

LEMMA JoinPhaseSteady ==
    ASSUME TypeOK, Inv, OpenInv, NEW w \in Worker, JoinPhase(w)
    PROVE  Steady(w) /\ Aside(w) /\ Joins(w)
<1> DEFINE o == [api[w] EXCEPT !.last = at[w]]
<1>0. /\ w \in Node /\ api[w] \in Object /\ pc[w] = "join" /\ Worked(w)
      /\ Kin(o, api[w]) /\ Kin(api[w], api[w])
  BY KinFields DEF JoinPhase, OpenInv, Node, TypeOK
<1>1. /\ Annotate(w, o) \/ AnnotateLost(w) \/ api' = api
      /\ pc' = pc \/ Goto(w, "fail")
      /\ loc' = loc /\ tok' = tok
  BY DEF JoinPhase
<1> HIDE DEF o
<1>2. Kin(api'[w], api[w]) /\ \A m \in Node \ {w} : api'[m] = api[m]
  BY <1>0, <1>1, AnnotateKin
<1>3. Aside(w) /\ pc'[w] \in {"join", "fail"}
  BY <1>0, <1>1, <1>2, GotoFacts DEF Aside
<1> QED
  BY <1>0, <1>1, <1>2, <1>3, SteadyFrom DEF Joins

LEMMA WorkerSteady ==
    ASSUME TypeOK, Inv, OpenInv, NEW w \in Worker,
           \/ Connect(w) \/ SyncVPN(w) \/ PrepareJoin(w) \/ JoinPhase(w) \/ NameNode(w)
           \/ WorkerReady(w) \/ RecordAddress(w)
    PROVE  Steady(w) /\ Aside(w) /\ Joins(w)
<1>0. w \in Node /\ api[w] \in Object /\ loc[w] \in Object /\ Worked(w) /\ Kin(api[w], api[w])
  BY KinFields DEF OpenInv, Node, TypeOK
<1>1. CASE Connect(w) \/ NameNode(w) \/ RecordAddress(w)
  <2>1. /\ api' = api /\ pc[w] \in {"connect", "join", "record"}
        /\ \/ Continue(w, "fail") \/ Continue(w, "sync") \/ Continue(w, "mark")
           \/ Return(w, FALSE)
    BY <1>1 DEF Connect, NameNode, RecordAddress
  <2>2. CASE Return(w, FALSE)
    BY <1>0, <2>1, <2>2, Returned DEF Steady, Joins
  <2>3. CASE Continue(w, "fail") \/ Continue(w, "sync") \/ Continue(w, "mark")
    <3>1. Aside(w) /\ pc'[w] \in {"fail", "sync", "mark"} /\ loc' = loc
      BY <1>0, <2>1, <2>3, Continued
    <3> QED
      BY <1>0, <2>1, <3>1, SteadyFrom DEF Joins
  <2> QED
    BY <2>1, <2>2, <2>3
<1>2. CASE PrepareJoin(w)
  <2>1. /\ api' = api /\ loc' = loc /\ tok' = tok /\ pc[w] = "prepare"
        /\ Goto(w, "join") \/ Goto(w, "fail")
    BY <1>2 DEF PrepareJoin, Continue
  <2>2. Aside(w) /\ pc'[w] \in {"join", "fail"}
    BY <1>0, <2>1, GotoFacts DEF Aside
  <2> QED
    BY <1>0, <2>1, <2>2, SteadyFrom DEF Joins
<1>3. CASE WorkerReady(w)
  <2> DEFINE o == [loc[w] EXCEPT !.phase = "Ready"]
  <2>1. /\ pc[w] = "ready" /\ (Commit(w, o) \/ Lost(w))
        /\ ContinueWith(w, "record", o) \/ Return(w, TRUE)
    BY <1>3 DEF WorkerReady
  <2>2. Kin(o, loc[w]) /\ o.finalizer
    BY <1>0, <2>1, KinFields DEF Kin, Worked
  <2> HIDE DEF o
  <2>3. Kin(api'[w], api[w]) /\ \A m \in Node \ {w} : api'[m] = api[m]
    BY <1>0, <2>1, <2>2, CommitKin
  <2>4. Aside(w) /\ (pc'[w] = "idle" \/ (pc'[w] = "record" /\ loc'[w] = o))
    BY <1>0, <2>1, <2>3, Returned, ContinuedWith
  <2> QED
    BY <1>0, <2>1, <2>2, <2>3, <2>4, SteadyFrom DEF Joins
<1> QED
  BY <1>1, <1>2, <1>3, SyncVPNSteady, JoinPhaseSteady

LEMMA MarkJoinedGrows ==
    ASSUME TypeOK, Inv, OpenInv, NEW w \in Worker, MarkJoined(w)
    PROVE  Grows(w) /\ Aside(w) /\ Joins(w)
<1> DEFINE o == [api[w] EXCEPT !.joined = TRUE, !.last = -1]
<1>0. w \in Node /\ api[w] \in Object /\ api[w].finalizer /\ pc[w] = "mark"
  BY DEF MarkJoined, OpenInv, Worked, Node, TypeOK
<1>1. /\ o.exists = api[w].exists /\ o.deleting = api[w].deleting /\ o.jc = api[w].jc
      /\ o.joined /\ o.finalizer
  BY <1>0 DEF Object
<1>2. \/ Refetched(w, o) /\ ContinueWith(w, "ready", o)
      \/ api' = api /\ Return(w, TRUE)
  BY DEF MarkJoined, RefetchFails
<1> HIDE DEF o
<1>3. CASE Refetched(w, o) /\ ContinueWith(w, "ready", o)
  <2>1. api'[w] = o /\ \A m \in Node \ {w} : api'[m] = api[m]
    BY <1>0, <1>3 DEF Refetched, TypeOK
  <2>2. Aside(w) /\ pc'[w] = "ready" /\ loc'[w] = o
    BY <1>0, <1>3, <2>1, ContinuedWith
  <2> QED
    BY <1>1, <2>1, <2>2 DEF Grows, Joins
<1>4. CASE api' = api /\ Return(w, TRUE)
  <2>1. Aside(w) /\ pc'[w] = "idle"
    BY <1>0, <1>4, Returned
  <2> QED
    BY <1>0, <1>4, <2>1 DEF Grows, Joins
<1> QED
  BY <1>2, <1>3, <1>4

-----------------------------------------------------------------------------
(* What the steps show of the abstract cluster.                            *)

Shown ==
    [Lifecycle!LifecycleNext]_<<ClusterStage, ClusterComplete, WorkerStage, Members>>

\* n's resource stays at its stage, is promised something, is being deleted, or goes.
Moves(n) ==
    \/ Kin(api'[n], api[n])
    \/ Grows(n)
    \/ /\ api[n].exists /\ ~api[n].deleting /\ api'[n].exists /\ api'[n].deleting
       /\ api'[n].finalizer /\ api[n].finalizer
    \/ /\ api'[n] = NoObject
       /\ api[n].deleting \/ (api[n].jc = "none" /\ ~api[n].joined)

LEMMA ClusterStageMoves ==
    ASSUME Inv, Inv', Moves(CP), host' = host, netcfg'.exists = netcfg.exists,
           \A m \in Node \ {CP} : api'[m] = api[m]
    PROVE  Shown
<1>0. CP \in Node /\ Gone(CP) /\ Gone(CP)' /\ Completion /\ Completion'
  BY DEF Inv, ResourceInv, Node
<1>1. ClusterComplete' = ClusterComplete /\ Members' = Members
  BY DEF ClusterComplete, Members
<1>2. WorkerStage' = WorkerStage
  BY ClusterAssumption DEF WorkerStage, StageOf, Node
<1>3. \/ ClusterStage' = ClusterStage
      \/ ClusterStage = "new" /\ ClusterStage' = "open" /\ ClusterComplete
      \/ ClusterStage \in {"new", "open"} /\ ClusterStage' = "leaving"
      \/ ClusterStage \in {"new", "leaving"} /\ ClusterStage' = "absent"
  <2>1. CASE Kin(api'[CP], api[CP])
    BY <2>1 DEF Kin, ClusterStage, StageOf
  <2>2. CASE Grows(CP)
    <3>1. ClusterStage' # ClusterStage =>
            ClusterStage = "new" /\ ClusterStage' = "open" /\ Live(CP)' /\ api'[CP].jc # "none"
      BY <2>2 DEF Grows, ClusterStage, StageOf, Live
    <3> QED
      BY <1>0, <3>1 DEF Completion, ClusterComplete
  <2>3. CASE api[CP].exists /\ ~api[CP].deleting /\ api'[CP].exists /\ api'[CP].deleting
    BY <2>3 DEF ClusterStage, StageOf
  <2>4. CASE api'[CP] = NoObject /\ (api[CP].deleting \/ api[CP].jc = "none")
    BY <2>4, NoObjectFields DEF ClusterStage, StageOf
  <2> QED
    BY <2>1, <2>2, <2>3, <2>4 DEF Moves
<1>4. CASE ClusterStage' = ClusterStage
  BY <1>1, <1>2, <1>4 DEF Shown
<1>5. CASE ClusterStage' # ClusterStage
  <2>1. Lifecycle!Open \/ Lifecycle!DeleteCluster
    BY <1>1, <1>2, <1>3, <1>5 DEF Lifecycle!Open, Lifecycle!DeleteCluster
  <2> QED
    BY <2>1 DEF Shown, Lifecycle!LifecycleNext
<1> QED
  BY <1>4, <1>5

LEMMA WorkerStageMoves ==
    ASSUME Inv, Inv', NEW w \in Worker, Moves(w), host' = host, netcfg'.exists = netcfg.exists,
           \A m \in Node \ {w} : api'[m] = api[m]
    PROVE  Shown
<1>0. /\ w \in Node /\ w # CP /\ CP \in Node /\ Gone(w)' /\ Joining(w)'
  BY ClusterAssumption DEF Inv, ResourceInv, Node
<1>1. ClusterComplete' = ClusterComplete /\ Members' = Members
  BY DEF ClusterComplete, Members
<1>2. ClusterStage' = ClusterStage
  BY <1>0 DEF ClusterStage, StageOf
<1> DEFINE stage == StageOf(api[w], api[w].joined, "joined")
<1>3. /\ WorkerStage[w] = stage /\ WorkerStage = [v \in Worker |-> WorkerStage[v]]
      /\ WorkerStage' = [WorkerStage EXCEPT ![w] = stage']
  <2>1. ASSUME NEW v \in Worker, v # w
        PROVE  StageOf(api[v], api[v].joined, "joined")' = StageOf(api[v], api[v].joined, "joined")
    <3>1. api'[v] = api[v]
      BY <2>1 DEF Node
    <3> QED
      BY <3>1 DEF StageOf
  <2>2. /\ WorkerStage = [v \in Worker |-> StageOf(api[v], api[v].joined, "joined")]
        /\ WorkerStage' = [v \in Worker |-> StageOf(api[v], api[v].joined, "joined")']
    BY DEF WorkerStage
  <2> QED
    BY <2>1, <2>2
<1>4. \/ stage' = stage
      \/ stage = "new" /\ stage' = "joined" /\ w \in Members
      \/ stage \in {"new", "joined"} /\ stage' = "leaving"
      \/ stage \in {"new", "leaving"} /\ stage' = "absent"
  <2>1. CASE Kin(api'[w], api[w])
    BY <2>1 DEF Kin, StageOf
  <2>2. CASE Grows(w)
    <3>1. stage' # stage =>
            stage = "new" /\ stage' = "joined" /\ Live(w)' /\ api'[w].joined
      BY <2>2 DEF Grows, StageOf, Live
    <3> QED
      BY <1>0, <3>1 DEF Joining, Members
  <2>3. CASE api[w].exists /\ ~api[w].deleting /\ api'[w].exists /\ api'[w].deleting
    BY <2>3 DEF StageOf
  <2>4. CASE api'[w] = NoObject /\ (api[w].deleting \/ ~api[w].joined)
    BY <2>4, NoObjectFields DEF StageOf
  <2> QED
    BY <2>1, <2>2, <2>3, <2>4 DEF Moves
<1> HIDE DEF stage
<1>5. CASE stage' = stage
  BY <1>1, <1>2, <1>3, <1>5 DEF Shown
<1>6. CASE stage' # stage
  <2>1. Lifecycle!MarkJoined(w) \/ Lifecycle!DeleteWorker(w)
    BY <1>1, <1>2, <1>3, <1>4, <1>6 DEF Lifecycle!MarkJoined, Lifecycle!DeleteWorker
  <2> QED
    BY <2>1 DEF Shown, Lifecycle!LifecycleNext
<1> QED
  BY <1>5, <1>6

\* Machines move while every resource stays at its stage.
LEMMA MachinesMove ==
    ASSUME Inv, Inv', \A n \in Node : Kin(api'[n], api[n]),
           Members' = Members \/ ClusterComplete' = ClusterComplete,
           ClusterStage = "new" => Members' \subseteq Members
    PROVE  Shown
<1>0. /\ CP \in Node /\ Completion /\ Completion'
      /\ \A w \in Worker : w \in Node /\ w # CP /\ Joining(w) /\ Joining(w)'
  BY ClusterAssumption DEF Inv, ResourceInv, Node
<1>1. ClusterStage' = ClusterStage /\ WorkerStage' = WorkerStage
  BY StagesKept
<1>2. ClusterStage = "open" => ClusterComplete /\ ClusterComplete'
  BY <1>0, <1>1 DEF ClusterStage, StageOf, ClusterComplete, Completion, Live
<1>3. ASSUME NEW w \in Worker, WorkerStage[w] = "joined"
      PROVE  w \in Members /\ w \in Members'
  <2>1. WorkerStage'[w] = "joined"
    BY <1>1, <1>3
  <2>2. Live(w) /\ api[w].joined /\ Live(w)' /\ api'[w].joined
    BY <1>3, <2>1 DEF WorkerStage, StageOf, Live
  <2> QED
    BY <1>0, <2>2 DEF Joining, Members
<1>4. CASE Members' = Members
  BY <1>1, <1>2, <1>4 DEF Shown, Lifecycle!LifecycleNext, Lifecycle!SetUp, ClusterComplete
<1>5. CASE ClusterComplete' = ClusterComplete
  <2>1. Members' \in SUBSET Worker
    BY DEF Members
  <2> QED
    BY <1>1, <1>3, <1>5, <2>1
       DEF Shown, Lifecycle!LifecycleNext, Lifecycle!MoveMachines
<1> QED
  BY <1>4, <1>5

LEMMA MachinesStay ==
    ASSUME Inv, Inv', NEW n \in Node, Moves(n), Aside(n), host' = host,
           netcfg'.exists = netcfg.exists
    PROVE  Shown
<1>1. \A m \in Node \ {n} : api'[m] = api[m]
  BY DEF Aside
<1>2. CASE n = CP
  BY <1>1, <1>2, ClusterStageMoves
<1>3. CASE n # CP
  BY <1>1, <1>3, WorkerStageMoves DEF Node
<1> QED
  BY <1>2, <1>3

-----------------------------------------------------------------------------
(* What was added to the invariant is kept.                                *)

\* The reconcile of n takes the last finalizer off.
Removed(n) == api'[n] = NoObject /\ api[n].deleting /\ pc'[n] = "idle"

\* A cluster is not new again.
LEMMA OpenedBefore ==
    ASSUME Moves(CP), ClusterStage # "new"
    PROVE  ClusterStage' # "new"
<1>1. CASE Kin(api'[CP], api[CP]) \/ Grows(CP)
  BY <1>1 DEF Kin, Grows, ClusterStage, StageOf
<1>2. CASE api'[CP].exists /\ api'[CP].deleting
  BY <1>2 DEF ClusterStage, StageOf
<1>3. CASE api'[CP] = NoObject
  BY <1>3, NoObjectFields DEF ClusterStage, StageOf
<1> QED
  BY <1>1, <1>2, <1>3 DEF Moves

LEMMA ReconcileMoves ==
    ASSUME NEW n \in Node, Steady(n) \/ Grows(n) \/ Removed(n)
    PROVE  Moves(n)
BY DEF Steady, Removed, Moves

LEMMA ReconcileOpen ==
    ASSUME OpenInv, NEW n \in Node, Aside(n), Steady(n) \/ Grows(n) \/ Removed(n),
           n = CP => InHand', n # CP => Joins(n)
    PROVE  OpenInv'
<1>0. CP \in Node /\ Worker = Node \ {CP}
  BY ClusterAssumption DEF Node
<1>1. Worked(n)'
  <2>1. CASE Steady(n)
    BY <2>1 DEF OpenInv, Worked, Steady, Kin
  <2>2. CASE Grows(n)
    BY <2>2 DEF Worked, Grows
  <2>3. CASE Removed(n)
    BY <2>3, NoObjectFields DEF Worked, Removed
  <2> QED
    BY <2>1, <2>2, <2>3
<1>2. \A m \in Node : Worked(m)'
  BY <1>1 DEF OpenInv, Worked, Aside
<1>3. InHand'
  BY <1>0 DEF OpenInv, InHand, Aside
<1>4. ClusterStage # "new" => ClusterStage' # "new"
  <2>1. CASE n = CP
    BY <2>1, ReconcileMoves, OpenedBefore
  <2>2. CASE n # CP
    BY <1>0, <2>2 DEF Aside, ClusterStage, StageOf
  <2> QED
    BY <2>1, <2>2
<1>5. ASSUME NEW w \in Worker
      PROVE  Invited(w)'
  <2>1. CASE w # n
    BY <1>0, <1>4, <2>1 DEF OpenInv, Invited, Aside
  <2>2. CASE w = n
    <3>1. api[CP].exists /\ api[CP].jc # "none" => ClusterStage # "new"
      BY DEF ClusterStage, StageOf
    <3> QED
      BY <1>0, <1>4, <2>2, <3>1 DEF OpenInv, Invited, Joins
  <2> QED
    BY <2>1, <2>2
<1> QED
  BY <1>2, <1>3, <1>5 DEF OpenInv

LEMMA SameOpen ==
    ASSUME OpenInv, api' = api, pc' = pc, loc' = loc, tok' = tok
    PROVE  OpenInv'
BY DEF OpenInv, Worked, InHand, Invited, ClusterStage, StageOf

LEMMA IdleOpen ==
    ASSUME OpenInv, \A n \in Node : Kin(api'[n], api[n]) /\ pc'[n] = "idle"
    PROVE  OpenInv'
<1>1. CP \in Node /\ Worker \subseteq Node
  BY DEF Node
<1>2. \A n \in Node : Worked(n)'
  BY DEF OpenInv, Worked, Kin
<1>3. InHand' /\ \A w \in Worker : Invited(w)'
  BY <1>1 DEF InHand, Invited
<1> QED
  BY <1>2, <1>3 DEF OpenInv

-----------------------------------------------------------------------------
(* The steps of the reconciles.                                            *)

LEMMA RemoveFinalizerMoves ==
    ASSUME TypeOK, Inv, NEW n \in Node, RemoveFinalizer(n)
    PROVE  (Steady(n) \/ Removed(n)) /\ Aside(n) /\ Uncommitted(n)
<1>1. /\ pc[n] = "unfinalize" /\ (Commit(n, NoObject) \/ Lost(n))
      /\ \E r \in BOOLEAN : Return(n, r)
  BY DEF RemoveFinalizer
<1>2. /\ (api[n].exists /\ api'[n] = NoObject) \/ api' = api
      /\ \A m \in Node \ {n} : api'[m] = api[m]
  BY <1>1, CommitFacts
<1>3. Aside(n) /\ pc'[n] = "idle"
  BY <1>1, <1>2, Returned
<1>4. api[n].exists => api[n].deleting
  BY <1>1 DEF Inv, ResourceInv, Gone, DeletePC, Live
<1> QED
  BY <1>2, <1>3, <1>4 DEF Steady, Removed, Uncommitted, Kin

LEMMA UncommittedIs ==
    ASSUME NEW n \in Node, Uncommitted(n)
    PROVE  (n = CP => InHand') /\ (n # CP => Joins(n))
BY DEF Uncommitted, InHand, Joins

LEMMA ReconcileSteps ==
    ASSUME TypeOK, Inv, OpenInv, NEW n \in Node, Reconcile(n)
    PROVE  /\ Aside(n) /\ (Steady(n) \/ Grows(n) \/ Removed(n))
           /\ n = CP => InHand'
           /\ n # CP => Joins(n)
<1>1. CASE \/ Start(n) \/ AddFinalizer(n) \/ ProtectSecrets(n) \/ MarkProvisioning(n)
           \/ Fail(n) \/ ResetHost(n) \/ RemovePeer(n) \/ ReleaseSecrets(n)
  BY <1>1, CommonSteady, UncommittedIs
<1>2. CASE RemoveFinalizer(n)
  BY <1>2, RemoveFinalizerMoves, UncommittedIs
<1>3. CASE n = CP /\ ReconcileCP
  BY <1>3, InitSteady, MovesSteady, PublishGrows DEF ReconcileCP
<1>4. CASE n \in Worker /\ ReconcileWorker(n)
  BY <1>4, ClusterAssumption, WorkerSteady, MarkJoinedGrows DEF ReconcileWorker
<1> QED
  BY <1>1, <1>2, <1>3, <1>4 DEF Reconcile

-----------------------------------------------------------------------------
(* What the machines do.                                                   *)

LEMMA MachineFrame ==
    /\ host'[CP] = host[CP] /\ netcfg'.exists = netcfg.exists
          => ClusterComplete' = ClusterComplete
    /\ (\A w \in Worker : host'[w] = host[w]) => Members' = Members
BY DEF ClusterComplete, Members

LEMMA AsideKin ==
    ASSUME NEW n \in Node, Aside(n), Steady(n)
    PROVE  \A m \in Node : Kin(api'[m], api[m])
BY DEF Aside, Steady, Kin

LEMMA ResetHostShown ==
    ASSUME TypeOK, Inv, Inv', OpenInv, NEW n \in Node, ResetHost(n)
    PROVE  Shown
<1>1. \A m \in Node : Kin(api'[m], api[m])
  BY CommonSteady, AsideKin
<1>2. /\ \A m \in Node \ {n} : host'[m] = host[m]
      /\ host'[n] \subseteq host[n]
      /\ n # CP => netcfg' = netcfg
  BY DEF ResetHost, TypeOK
<1>3. \A w \in Worker : w \in Node /\ w # CP
  BY ClusterAssumption DEF Node
<1>4. CASE n = CP
  <2>1. Members' = Members
    BY <1>2, <1>3, <1>4, MachineFrame
  <2> QED
    BY <1>1, <2>1, MachinesMove
<1>5. CASE n # CP
  <2>1. ClusterComplete' = ClusterComplete
    BY <1>2, <1>5, MachineFrame DEF Node
  <2>2. Members' \subseteq Members
    BY <1>2, <1>3 DEF Members
  <2> QED
    BY <1>1, <2>1, <2>2, MachinesMove
<1> QED
  BY <1>4, <1>5

LEMMA JoinPhaseShown ==
    ASSUME TypeOK, Inv, Inv', OpenInv, NEW w \in Worker, JoinPhase(w)
    PROVE  Shown
<1>1. w \in Node /\ w # CP /\ CP \in Node
  BY ClusterAssumption DEF Node
<1>2. \A m \in Node : Kin(api'[m], api[m])
  BY <1>1, JoinPhaseSteady, AsideKin
<1>3. host'[CP] = host[CP] /\ netcfg' = netcfg
  BY <1>1 DEF JoinPhase, Lands, TypeOK
<1>4. ClusterStage # "new"
  BY DEF JoinPhase, OpenInv, Invited
<1> QED
  BY <1>2, <1>3, <1>4, MachineFrame, MachinesMove

\* A phase of the control plane, or a new NetConfig.
LEMMA ControlPlaneShown ==
    ASSUME Inv, Inv', \A m \in Node : Kin(api'[m], api[m]),
           \A w \in Worker : host'[w] = host[w]
    PROVE  Shown
BY MachineFrame, MachinesMove

LEMMA WorkersApart ==
    ASSUME TypeOK, NEW i, CPPhaseLands(i)
    PROVE  \A w \in Worker : host'[w] = host[w]
<1>1. \A w \in Worker : w \in Node /\ w # CP
  BY ClusterAssumption DEF Node
<1> QED
  BY <1>1 DEF CPPhaseLands, TypeOK

-----------------------------------------------------------------------------
(* Every step.                                                             *)

LEMMA ReconcileShown ==
    ASSUME TypeOK, Inv, Inv', OpenInv, NEW n \in Node, Reconcile(n)
    PROVE  Shown /\ OpenInv'
<1>1. Aside(n) /\ (Steady(n) \/ Grows(n) \/ Removed(n)) /\ OpenInv'
  BY ReconcileSteps, ReconcileOpen
<1>2. CASE ResetHost(n)
  BY <1>1, <1>2, ResetHostShown
<1>3. CASE n \in Worker /\ JoinPhase(n)
  BY <1>1, <1>3, JoinPhaseShown
<1>4. CASE n = CP /\ CreateNetConfig
  <2>1. \A m \in Node : Kin(api'[m], api[m])
    BY <1>4, MovesSteady, AsideKin
  <2> QED
    BY <1>1, <1>4, <2>1, ControlPlaneShown DEF CreateNetConfig
<1>5. CASE ~ResetHost(n) /\ ~(n \in Worker /\ JoinPhase(n)) /\ ~(n = CP /\ CreateNetConfig)
  <2>1. host' = host /\ netcfg'.exists = netcfg.exists
    <3> USE DEF remoteVars
    <3>1. CASE n = CP /\ ReconcileCP
      BY <1>5, <3>1 DEF ReconcileCP, AlreadyInitialised, ResumeCompletion, StartJob,
         FlushProgress, TakeResult, MarkInitComplete, EnsureRepo, StampNetConfig, PublishJoin,
         ClearInit, SkipRefresh, RefreshToken, PatchNetJoin, StampRefresh, Packages,
         MarkPackages, TypeOK
    <3>2. CASE n \in Worker /\ ReconcileWorker(n)
      BY <1>5, <3>2 DEF ReconcileWorker, Connect, SyncVPN, PrepareJoin, NameNode, MarkJoined,
         WorkerReady, RecordAddress, TypeOK
    <3> QED
      BY <1>5, <3>1, <3>2 DEF Reconcile, Start, AddFinalizer, ProtectSecrets,
         MarkProvisioning, Fail, RemovePeer, ReleaseSecrets, RemoveFinalizer
  <2> QED
    BY <1>1, <2>1, ReconcileMoves, MachinesStay
<1> QED
  BY <1>2, <1>3, <1>4, <1>5

LEMMA JobShown ==
    ASSUME TypeOK, Inv, Inv', OpenInv, Job
    PROVE  Shown /\ OpenInv'
<1>1. /\ api' = api /\ pc' = pc /\ loc' = loc /\ tok' = tok
      /\ host' = host \/ CPPhaseLands(job.at)
  BY DEF Job, JobPhase, JobEnds, JobFails, ctlVars, remoteVars
<1>2. \A m \in Node : Kin(api'[m], api[m])
  BY <1>1 DEF Kin
<1>3. \A w \in Worker : host'[w] = host[w]
  BY <1>1, WorkersApart
<1> QED
  BY <1>1, <1>2, <1>3, ControlPlaneShown, SameOpen

LEMMA CrashShown ==
    ASSUME TypeOK, Inv, Inv', OpenInv, Crash
    PROVE  Shown /\ OpenInv'
<1>1. (\A m \in Node : Kin(api'[m], api[m])) /\ OpenInv'
  BY IdleOpen DEF Crash, Kin
<1>2. PICK landed \in SUBSET {w \in Worker : pc[w] = "join" /\ at[w] <= LastWorker
                                              /\ CanRun(w, at[w])} :
         \/ /\ host' = [n \in Node |-> IF n \in landed THEN Effect(host[n], at[n])
                                       ELSE host[n]]
            /\ netcfg' = netcfg
         \/ CPPhaseLands(job.at)
  BY DEF Crash
<1>3. CASE CPPhaseLands(job.at)
  BY <1>1, <1>3, WorkersApart, ControlPlaneShown
<1>4. CASE ~CPPhaseLands(job.at)
  <2>1. CP \in Node /\ CP \notin landed /\ Worker \subseteq Node
    BY <1>2, ClusterAssumption DEF Node
  <2>2. ClusterComplete' = ClusterComplete
    BY <1>2, <1>4, <2>1, MachineFrame
  <2>3. ClusterStage = "new" => landed = {}
    BY <1>2 DEF OpenInv, Invited
  <2>4. ClusterStage = "new" => Members' = Members
    BY <1>2, <1>4, <2>1, <2>3, MachineFrame
  <2> QED
    BY <1>1, <2>2, <2>4, MachinesMove
<1> QED
  BY <1>3, <1>4

LEMMA UserDeletesShown ==
    ASSUME TypeOK, Inv, Inv', OpenInv, NEW n \in Node, UserDeletes(n)
    PROVE  Shown /\ OpenInv'
<1>0. /\ api[n] \in Object /\ Worked(n) /\ api[n].exists /\ ~api[n].deleting
      /\ pc' = pc /\ loc' = loc /\ tok' = tok /\ host' = host /\ netcfg' = netcfg
      /\ CP \in Node /\ Worker \subseteq Node
  BY DEF UserDeletes, TypeOK, OpenInv, remoteVars, Node
<1>1. /\ api'[n] = IF api[n].finalizer THEN [api[n] EXCEPT !.deleting = TRUE] ELSE NoObject
      /\ \A m \in Node \ {n} : api'[m] = api[m]
  BY DEF UserDeletes, TypeOK
<1>2. Aside(n)
  BY <1>0, <1>1 DEF Aside
<1>3. Moves(n) /\ Worked(n)'
  <2>1. CASE api[n].finalizer
    <3>1. api'[n].exists /\ api'[n].deleting /\ api'[n].finalizer
      BY <1>0, <1>1, <2>1 DEF Object
    <3> QED
      BY <1>0, <2>1, <3>1 DEF Moves, Worked
  <2>2. CASE ~api[n].finalizer
    BY <1>0, <1>1, <2>2, NoObjectFields DEF Moves, Worked
  <2> QED
    BY <2>1, <2>2
<1>4. ClusterStage # "new" => ClusterStage' # "new"
  <2>1. CASE n = CP
    BY <1>3, <2>1, OpenedBefore
  <2>2. CASE n # CP
    BY <1>0, <1>1, <2>2 DEF ClusterStage, StageOf
  <2> QED
    BY <2>1, <2>2
<1>5. OpenInv'
  <2>1. \A m \in Node : Worked(m)'
    BY <1>0, <1>1, <1>3 DEF OpenInv, Worked
  <2> QED
    BY <1>0, <1>4, <2>1 DEF OpenInv, InHand, Invited
<1> QED
  BY <1>0, <1>2, <1>3, <1>5, MachinesStay

LEMMA TimeShown ==
    ASSUME TypeOK, Inv, Inv', OpenInv, TokenAges \/ TokenExpires
    PROVE  Shown /\ OpenInv'
<1>0. /\ CP \in Node /\ api[CP] \in Object /\ host' = host
      /\ \A n \in Node : pc'[n] = "idle"
  BY DEF TokenAges, TokenExpires, TypeOK, Node, ctlVars
<1>1. PICK from \in {"temp", "old"}, to \in {"old", "expired"}, s \in {api[CP].stamp, "due"} :
        \/ api' = [api EXCEPT ![CP].jc = Older(@, from, to), ![CP].stamp = s]
        \/ api' = [api EXCEPT ![CP].jc = Older(@, from, to)]
  BY DEF TokenAges, TokenExpires, Older
<1>2. /\ api'[CP] \in {[api[CP] EXCEPT !.jc = Older(@, from, to), !.stamp = s],
                       [api[CP] EXCEPT !.jc = Older(@, from, to)]}
      /\ \A m \in Node \ {CP} : api'[m] = api[m]
  BY <1>0, <1>1 DEF TypeOK
<1>3. Kin(api'[CP], api[CP])
  BY <1>0, <1>2 DEF Kin, Object, Older
<1>4. \A m \in Node : Kin(api'[m], api[m])
  BY <1>2, <1>3 DEF Kin
<1> QED
  BY <1>0, <1>4, ControlPlaneShown, IdleOpen

\* Steps that touch neither resources, nor reconciles, nor machines.
LEMMA ElsewhereShown ==
    ASSUME OpenInv, api' = api, pc' = pc, loc' = loc, tok' = tok, host' = host,
           netcfg' = netcfg
    PROVE  Shown /\ OpenInv'
<1>1. ClusterStage' = ClusterStage /\ WorkerStage' = WorkerStage
  BY DEF ClusterStage, WorkerStage
<1>2. ClusterComplete' = ClusterComplete /\ Members' = Members
  BY DEF ClusterComplete, Members
<1> QED
  BY <1>1, <1>2, SameOpen DEF Shown

LEMMA OpenStep ==
    ASSUME TypeOK, Inv, OpenInv, [Next]_vars
    PROVE  Shown /\ OpenInv'
<1>0. Inv'
  BY InvStep
<1>1. CASE Environment
  <2>1. CASE \E n \in Node : UserDeletes(n)
    BY <1>0, <2>1, UserDeletesShown
  <2>2. CASE Crash
    BY <1>0, <2>2, CrashShown
  <2>3. CASE TokenAges \/ TokenExpires
    BY <1>0, <2>3, TimeShown
  <2>4. CASE (\E n \in Node : UserEdits(n) \/ TearDown(n)) \/ UserDeletesSecret
    BY <2>4, ElsewhereShown
       DEF UserEdits, TearDown, UserDeletesSecret, ctlVars, remoteVars
  <2> QED
    BY <1>1, <2>1, <2>2, <2>3, <2>4 DEF Environment
<1>2. CASE UNCHANGED vars
  BY <1>2, ElsewhereShown DEF vars, ctlVars, remoteVars
<1> QED
  BY <1>0, <1>1, <1>2, ReconcileShown, JobShown DEF Next

LEMMA OpenInit == Init => OpenInv /\ Lifecycle!LifecycleInit
<1> SUFFICES ASSUME Init
             PROVE  OpenInv /\ Lifecycle!LifecycleInit
  OBVIOUS
<1>0. /\ pc = [n \in Node |-> "idle"] /\ host = [n \in Node |-> {}]
      /\ netcfg = NoNetConfig /\ CP \in Node /\ Worker \subseteq Node
  BY Zenon DEF Init, Node
<1>1. ASSUME NEW n \in Node
      PROVE  /\ api[n].exists /\ ~api[n].deleting /\ api[n].jc = "none" /\ ~api[n].joined
  <2>1. api = [m \in Node |-> [NoObject EXCEPT !.exists = TRUE, !.vpnRef = (m = CP)]]
    BY Zenon DEF Init
  <2>2. api[n] = [NoObject EXCEPT !.exists = TRUE, !.vpnRef = (n = CP)]
    BY <2>1, Zenon
  <2>3. \E b : api[n] = [NoObject EXCEPT !.exists = TRUE, !.vpnRef = b]
    BY <2>2, Zenon
  <2> QED
    BY <2>3 DEF NoObject
<1>2. OpenInv
  BY <1>0, <1>1 DEF OpenInv, Worked, InHand, Invited
<1>3. ClusterStage = "new" /\ ~ClusterComplete
  BY <1>0, <1>1 DEF ClusterStage, StageOf, ClusterComplete, NoNetConfig
<1>4. WorkerStage = [w \in Worker |-> "new"]
  BY <1>0, <1>1 DEF WorkerStage, StageOf
<1>5. Members = {}
  BY <1>0 DEF Members
<1> QED
  BY <1>2, <1>3, <1>4, <1>5 DEF Lifecycle!LifecycleInit, ClusterComplete

\* The controller implements ClusterLifecycle: whatever is refused, lost, repeated or
\* interrupted in reconcileControlPlane, completeControlPlane, reconcileWorker and
\* handleDelete, a cluster opens complete, machines join it only then, and those of
\* marked workers stay in it until they are deleted.
THEOREM ClusterLifecycleImplemented == Spec => ImplementsClusterLifecycle
<1>1. Init => OpenInv /\ Lifecycle!LifecycleInit
  BY OpenInit
<1>2. TypeOK /\ Inv /\ OpenInv /\ [Next]_vars
         => OpenInv' /\ [Lifecycle!LifecycleNext]_(Lifecycle!lifecycleVars)
  BY OpenStep DEF Shown, Lifecycle!lifecycleVars
<1> QED
  BY <1>1, <1>2, Invariant, PTL
     DEF Spec, ImplementsClusterLifecycle, Lifecycle!LifecycleSpec
=============================================================================
