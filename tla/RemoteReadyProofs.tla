------------------------- MODULE RemoteReadyProofs -------------------------
(***************************************************************************)
(* What the workers of a Ready control plane of RemoteCluster rely on, for *)
(* any number of workers, phases, edits and deletions.                     *)
(*                                                                         *)
(* The kubeadm token does not expire under a control plane that is Ready,  *)
(* can be reached and still awaits its packages: such a resource is always *)
(* in the work queue or being reconciled, so the hour between a refresh    *)
(* that is due and the token's end suffices.                               *)
(*                                                                         *)
(* And as long as no call has failed, the NetConfig of the new cluster is  *)
(* created once, before the first worker is let in, so that it keeps every *)
(* Ready worker's address, and has a join command before the package       *)
(* variants are created.  The invariant follows the control plane from the *)
(* creation of the NetConfig to the packages; a call that could fail for a *)
(* reason in the state does not, since its machine stays reachable until   *)
(* it is deleted.                                                          *)
(***************************************************************************)
EXTENDS RemoteClusterProofs

-----------------------------------------------------------------------------
(* The token: the invariant.                                               *)

\* Nothing from which a token could be published has expired; a copy that would be
\* accepted knows whether the packages are there; and until they are, nobody forgets
\* the control plane.
TokenInv ==
    /\ api[CP].cache # "expired" /\ loc[CP].cache # "expired" /\ tok[CP] # "expired"
    /\ fresh[CP] /\ api[CP].exists => loc[CP].pkgs = api[CP].pkgs
    /\ Live(CP) /\ ~api[CP].pkgs =>
         /\ Reachable(CP) => api[CP].jc # "expired"
         /\ pc[CP] = "idle" => queue[CP]

\* A machine that cannot be reached is not reachable again: what it lacks, its tunnel
\* or the secret to log in with, is gone for good.
StaysCut == Reachable(CP)' => Reachable(CP)

\* A write that neither revives the resource nor brings an expired token into it.
Harmless ==
    /\ api'[CP].cache # "expired"
    /\ Live(CP)' /\ ~api'[CP].pkgs =>
         /\ Live(CP) /\ ~api[CP].pkgs
         /\ api'[CP].jc = api[CP].jc \/ api'[CP].jc # "expired"

\* The control plane's reconcile and the place it is at are as they were.
CPKept ==
    /\ pc'[CP] = pc[CP] /\ loc'[CP] = loc[CP] /\ tok'[CP] = tok[CP]
    /\ fresh'[CP] => fresh[CP]
    /\ queue[CP] => queue'[CP]

LEMMA CPFacts ==
    ASSUME TypeOK, Inv
    PROVE  /\ CP \in Node /\ api[CP] \in Object /\ loc[CP] \in Object
           /\ fresh[CP] /\ api[CP].exists => Same(loc[CP], api[CP])
           /\ pc[CP] = "idle" => ~fresh[CP]
<1>1. CP \in Node
  BY DEF Node
<1>2. ResourceInv(CP)
  BY <1>1 DEF Inv
<1> QED
  BY <1>1, <1>2 DEF TypeOK, ResourceInv, CopyCurrent

\* The reconcile is not at rest after the step.
LEMMA GoesOn ==
    ASSUME StaysCut, TokenInv, Harmless, pc'[CP] # "idle",
           loc'[CP].cache # "expired", tok'[CP] # "expired",
           fresh'[CP] /\ api'[CP].exists => loc'[CP].pkgs = api'[CP].pkgs
    PROVE  TokenInv'
BY DEF StaysCut, TokenInv, Harmless, Live

\* The reconcile is over, and is called again if there is anything left to do.
LEMMA Returns ==
    ASSUME TypeOK, StaysCut, TokenInv, Harmless, NEW r \in BOOLEAN, Return(CP, r),
           r \/ ~Live(CP)' \/ api'[CP].pkgs
    PROVE  TokenInv'
<1>1. CP \in Node
  BY DEF Node
<1>2. /\ queue' = [queue EXCEPT ![CP] = @ \/ r] /\ loc' = [loc EXCEPT ![CP] = NoObject]
      /\ fresh' = [fresh EXCEPT ![CP] = FALSE] /\ tok' = [tok EXCEPT ![CP] = "none"]
  BY Zenon DEF Return
<1>3. loc'[CP] = NoObject /\ ~fresh'[CP] /\ tok'[CP] = "none" /\ (r => queue'[CP])
  BY <1>1, <1>2, Zenon DEF TypeOK
<1>4. NoObject.cache = "none"
  BY DEF NoObject
<1> QED
  BY <1>3, <1>4 DEF StaysCut, TokenInv, Harmless, Live

\* What others do, the resource being as it was or deleted.
LEMMA Elsewhere ==
    ASSUME StaysCut, TokenInv, CPKept, api'[CP] = api[CP]
    PROVE  TokenInv'
BY DEF StaysCut, TokenInv, CPKept, Live

-----------------------------------------------------------------------------
(* Writes.                                                                 *)

\* The fields of a resource that the invariant looks at.
Alike(o, p) ==
    /\ o.exists = p.exists /\ o.deleting = p.deleting
    /\ o.jc = p.jc /\ o.cache = p.cache /\ o.pkgs = p.pkgs

LEMMA AlikeFields ==
    ASSUME NEW o \in Object, NEW v
    PROVE  /\ Alike([o EXCEPT !.finalizer = v], o) /\ Alike([o EXCEPT !.phase = v], o)
           /\ Alike([o EXCEPT !.last = v], o) /\ Alike([o EXCEPT !.netDone = v], o)
           /\ Alike([o EXCEPT !.stamp = v], o) /\ Alike([o EXCEPT !.vpnRef = v], o)
<1>1. Alike([o EXCEPT !.finalizer = v], o) /\ Alike([o EXCEPT !.phase = v], o)
  BY DEF Alike, Object
<1>2. Alike([o EXCEPT !.last = v], o) /\ Alike([o EXCEPT !.netDone = v], o)
  BY DEF Alike, Object
<1>3. Alike([o EXCEPT !.stamp = v], o) /\ Alike([o EXCEPT !.vpnRef = v], o)
  BY DEF Alike, Object
<1> QED
  BY <1>1, <1>2, <1>3

\* The copy is written back with another phase or finalizer, or the write is lost.
LEMMA CommitHarmless ==
    ASSUME TypeOK, Inv, TokenInv, NEW o, Commit(CP, o) \/ Lost(CP), Alike(o, loc[CP])
    PROVE  /\ Harmless
           /\ fresh[CP] /\ api'[CP].exists => loc[CP].pkgs = api'[CP].pkgs
<1>1. \/ fresh[CP] /\ api[CP].exists /\ api'[CP] = o
      \/ api' = api
  BY CPFacts, CommitFacts
<1>2. CASE api' = api
  BY <1>2 DEF Harmless, TokenInv, Live
<1>3. CASE fresh[CP] /\ api[CP].exists /\ api'[CP] = o
  <2>1. Same(loc[CP], api[CP]) /\ loc[CP].pkgs = api[CP].pkgs
    BY <1>3, CPFacts DEF TokenInv
  <2> QED
    BY <1>3, <2>1 DEF Harmless, TokenInv, Live, Same, Alike
<1> QED
  BY <1>1, <1>2, <1>3

\* The newest version is written back with nothing the invariant looks at changed.
LEMMA AlikeHarmless ==
    ASSUME TokenInv, Alike(api'[CP], api[CP])
    PROVE  /\ Harmless
           /\ fresh[CP] /\ api'[CP].exists => loc[CP].pkgs = api'[CP].pkgs
BY DEF TokenInv, Harmless, Alike, Live

LEMMA AlikeSelf == \A o : Alike(o, o)
BY DEF Alike

-----------------------------------------------------------------------------
(* The steps that either kind of resource takes, by the control plane.     *)

LEMMA CommonKeepsToken ==
    ASSUME TypeOK, Inv, StaysCut, TokenInv,
           \/ Start(CP) \/ AddFinalizer(CP) \/ ProtectSecrets(CP) \/ MarkProvisioning(CP)
           \/ Fail(CP) \/ ResetHost(CP) \/ RemovePeer(CP) \/ ReleaseSecrets(CP)
           \/ RemoveFinalizer(CP)
    PROVE  TokenInv'
<1>0. CP \in Node /\ api[CP] \in Object /\ loc[CP] \in Object
  BY CPFacts
<1>1. CASE Start(CP)
  <2>1. /\ pc[CP] = "idle" /\ api' = api /\ tok' = tok /\ ~fresh[CP]
    BY <1>1, CPFacts DEF Start
  <2>2. CASE api[CP].exists /\ Dispatch(api[CP]) # "idle"
    <3>1. loc'[CP] = api[CP] /\ pc'[CP] = Dispatch(api[CP])
      BY <1>0, <1>1, <2>2, GotoFacts DEF Start, TypeOK
    <3>2. Harmless
      BY <2>1, AlikeSelf, AlikeHarmless
    <3> QED
      BY <2>1, <2>2, <3>1, <3>2, GoesOn DEF TokenInv
  <2>3. CASE ~(api[CP].exists /\ Dispatch(api[CP]) # "idle")
    <3>1. loc' = loc /\ fresh' = fresh /\ pc' = pc
      BY <1>1, <2>3 DEF Start
    <3>2. ~Live(CP)
      BY <2>3 DEF Live, Dispatch
    <3> QED
      BY <2>1, <3>1, <3>2 DEF StaysCut, TokenInv, Live
  <2> QED
    BY <2>2, <2>3
<1>2. CASE AddFinalizer(CP)
  <2>1. /\ Commit(CP, [loc[CP] EXCEPT !.finalizer = TRUE]) \/ Lost(CP)
        /\ Return(CP, TRUE)
    BY <1>2 DEF AddFinalizer
  <2>2. Harmless
    BY <1>0, <2>1, AlikeFields, CommitHarmless
  <2> QED
    BY <2>1, <2>2, Returns
<1>3. CASE ProtectSecrets(CP)
  <2>1. /\ api' = api /\ Continue(CP, AfterProtect(CP)) /\ AfterProtect(CP) # "idle"
    BY <1>3, ClusterAssumption DEF ProtectSecrets, AfterProtect
  <2>2. pc'[CP] # "idle" /\ loc' = loc /\ fresh' = fresh /\ tok' = tok
    BY <1>0, <2>1, ContinueFacts DEF Continue
  <2>3. Harmless
    BY <2>1, AlikeSelf, AlikeHarmless
  <2> QED
    BY <2>1, <2>2, <2>3, GoesOn DEF TokenInv
<1>4. CASE MarkProvisioning(CP)
  <2>1. /\ Commit(CP, [loc[CP] EXCEPT !.phase = "Provisioning"]) \/ Lost(CP)
        /\ loc'[CP] = [loc[CP] EXCEPT !.phase = "Provisioning"]
        /\ pc'[CP] # "idle" /\ fresh' = fresh /\ tok' = tok
    BY <1>0, <1>4, GotoFacts DEF MarkProvisioning, TypeOK
  <2>2. /\ Harmless
        /\ fresh[CP] /\ api'[CP].exists => loc[CP].pkgs = api'[CP].pkgs
    BY <1>0, <2>1, AlikeFields, CommitHarmless
  <2>3. Alike(loc'[CP], loc[CP])
    <3>1. Alike([loc[CP] EXCEPT !.phase = "Provisioning"], loc[CP])
      BY <1>0, AlikeFields
    <3> QED
      BY <2>1, <3>1
  <2> QED
    BY <2>1, <2>2, <2>3, GoesOn DEF TokenInv, Alike
<1>5. CASE Fail(CP)
  <2>1. /\ Commit(CP, [loc[CP] EXCEPT !.phase = "Failed"]) \/ Lost(CP)
        /\ Return(CP, TRUE)
    BY <1>5 DEF Fail
  <2>2. Harmless
    BY <1>0, <2>1, AlikeFields, CommitHarmless
  <2> QED
    BY <2>1, <2>2, Returns
<1>6. CASE ResetHost(CP) \/ ReleaseSecrets(CP)
  <2>1. /\ api' = api /\ tok' = tok
        /\ Continue(CP, "unpeer") \/ Continue(CP, "unfinalize")
    BY <1>6 DEF ResetHost, ReleaseSecrets, Continue
  <2>2. pc'[CP] # "idle" /\ loc' = loc /\ fresh' = fresh
    BY <1>0, <2>1, ContinueFacts
  <2>3. Harmless
    BY <2>1, AlikeSelf, AlikeHarmless
  <2> QED
    BY <2>1, <2>2, <2>3, GoesOn DEF TokenInv
<1>7. CASE RemovePeer(CP)
  <2>1. \E v : loc'[CP] = [loc[CP] EXCEPT !.vpnRef = v]
    BY <1>0, <1>7 DEF RemovePeer, TypeOK
  <2>2. api' = api /\ tok' = tok /\ fresh' = fresh /\ pc'[CP] # "idle"
    BY <1>0, <1>7, GotoFacts DEF RemovePeer
  <2>3. Harmless /\ Alike(loc'[CP], loc[CP])
    BY <1>0, <2>1, <2>2, AlikeSelf, AlikeFields, AlikeHarmless
  <2> QED
    BY <2>2, <2>3, GoesOn DEF TokenInv, Alike
<1>8. CASE RemoveFinalizer(CP)
  <2>1. \/ Commit(CP, NoObject) /\ Return(CP, FALSE)
        \/ Lost(CP) /\ Return(CP, TRUE)
    BY <1>8 DEF RemoveFinalizer
  <2>2. CASE Commit(CP, NoObject) /\ Return(CP, FALSE)
    <3>1. api'[CP] = NoObject
      BY <1>0, <2>2 DEF Commit, TypeOK
    <3>2. ~NoObject.exists /\ NoObject.cache = "none"
      BY DEF NoObject
    <3>3. ~Live(CP)' /\ Harmless
      BY <3>1, <3>2 DEF Live, Harmless
    <3> QED
      BY <2>2, <3>3, Returns
  <2>3. CASE Lost(CP) /\ Return(CP, TRUE)
    <3>1. Harmless
      BY <2>3, AlikeSelf, AlikeHarmless DEF Lost
    <3> QED
      BY <2>3, <3>1, Returns
  <2> QED
    BY <2>1, <2>2, <2>3
<1> QED
  BY <1>1, <1>2, <1>3, <1>4, <1>5, <1>6, <1>7, <1>8

-----------------------------------------------------------------------------
(* reconcileControlPlane, completeControlPlane and the Ready control plane. *)

LEMMA InitKeepsToken ==
    ASSUME TypeOK, Inv, StaysCut, TokenInv,
           \/ AlreadyInitialised \/ ResumeCompletion \/ StartJob \/ FlushProgress
           \/ TakeResult \/ MarkInitComplete
    PROVE  TokenInv'
<1>0. CP \in Node /\ api[CP] \in Object /\ loc[CP] \in Object
  BY CPFacts
<1>1. CASE AlreadyInitialised
  <2>1. Harmless
    BY <1>1, AlikeSelf, AlikeHarmless DEF AlreadyInitialised
  <2> QED
    BY <1>1, <2>1, Returns DEF AlreadyInitialised
<1>2. CASE ResumeCompletion
  <2>1. /\ api' = api /\ loc' = loc /\ fresh' = fresh /\ pc'[CP] # "idle"
        /\ tok'[CP] = loc[CP].cache
    BY <1>0, <1>2, GotoFacts DEF ResumeCompletion, TypeOK
  <2>2. Harmless
    BY <2>1, AlikeSelf, AlikeHarmless
  <2> QED
    BY <2>1, <2>2, GoesOn DEF TokenInv
<1>3. CASE StartJob
  <2>1. api' = api /\ (Return(CP, TRUE) \/ Continue(CP, "fail"))
    BY <1>3 DEF StartJob
  <2>2. Harmless
    BY <2>1, AlikeSelf, AlikeHarmless
  <2>3. CASE Continue(CP, "fail")
    <3>1. pc'[CP] # "idle" /\ loc' = loc /\ fresh' = fresh /\ tok' = tok
      BY <1>0, <2>3, ContinueFacts DEF Continue
    <3> QED
      BY <2>1, <2>2, <3>1, GoesOn DEF TokenInv
  <2> QED
    BY <2>1, <2>2, <2>3, Returns
<1>4. CASE FlushProgress
  <2>1. Return(CP, TRUE)
    BY <1>4 DEF FlushProgress
  <2>2. api' = api \/ api'[CP] = [api[CP] EXCEPT !.last = prog]
    BY <1>0, <1>4 DEF FlushProgress, TypeOK
  <2>3. Alike([api[CP] EXCEPT !.last = prog], api[CP])
    BY <1>0, AlikeFields
  <2>4. Harmless
    BY <2>2, <2>3, AlikeSelf, AlikeHarmless
  <2> QED
    BY <2>1, <2>4, Returns
<1>5. CASE TakeResult
  <2> DEFINE o == [api[CP] EXCEPT !.last = prog]
  <2>1. /\ loc' = loc /\ pc'[CP] # "idle"
        /\ tok'[CP] = "perm" \/ tok'[CP] = tok[CP]
    BY <1>0, <1>5, GotoFacts DEF TakeResult, TypeOK
  <2>2. Alike(o, api[CP])
    BY <1>0, AlikeFields
  <2>3. \/ Annotate(CP, o) \/ AnnotateLost(CP)
        \/ api' = api /\ fresh' = fresh
    BY <1>5 DEF TakeResult
  <2> HIDE DEF o
  <2>4. api'[CP] = o \/ api'[CP] = api[CP]
    BY <1>0, <2>3, AnnotateFacts
  <2>5. fresh'[CP] => fresh[CP]
    BY <1>0, <2>3, AnnotateFacts
  <2>6. /\ Harmless
        /\ fresh[CP] /\ api'[CP].exists => loc[CP].pkgs = api'[CP].pkgs
    BY <2>2, <2>4, AlikeSelf, AlikeHarmless
  <2> QED
    BY <2>1, <2>5, <2>6, GoesOn DEF TokenInv
<1>6. CASE MarkInitComplete
  <2> DEFINE o == [api[CP] EXCEPT !.last = -1, !.cache = tok[CP]]
  <2>1. loc' = loc /\ pc'[CP] # "idle" /\ tok' = tok
    BY <1>0, <1>6, GotoFacts DEF MarkInitComplete
  <2>2. /\ o.exists = api[CP].exists /\ o.deleting = api[CP].deleting
        /\ o.jc = api[CP].jc /\ o.cache = tok[CP] /\ o.pkgs = api[CP].pkgs
    BY <1>0 DEF Object
  <2>3. Annotate(CP, o) \/ AnnotateLost(CP)
    BY <1>6 DEF MarkInitComplete
  <2> HIDE DEF o
  <2>4. (api'[CP] = o \/ api'[CP] = api[CP]) /\ (fresh'[CP] => fresh[CP])
    BY <1>0, <2>3, AnnotateFacts
  <2>5. /\ Harmless
        /\ fresh[CP] /\ api'[CP].exists => loc[CP].pkgs = api'[CP].pkgs
    BY <2>2, <2>4 DEF TokenInv, Harmless, Live
  <2> QED
    BY <2>1, <2>4, <2>5, GoesOn DEF TokenInv
<1> QED
  BY <1>1, <1>2, <1>3, <1>4, <1>5, <1>6

LEMMA ReadyKeepsToken ==
    ASSUME TypeOK, Inv, StaysCut, TokenInv,
           \/ EnsureRepo \/ CreateNetConfig \/ StampNetConfig \/ PublishJoin \/ ClearInit
           \/ SkipRefresh \/ RefreshToken \/ PatchNetJoin \/ StampRefresh
           \/ Packages \/ MarkPackages
    PROVE  TokenInv'
<1>0. CP \in Node /\ api[CP] \in Object /\ loc[CP] \in Object
  BY CPFacts
<1>1. ASSUME NEW label, label # "idle", api' = api, Continue(CP, label)
      PROVE  TokenInv'
  <2>1. pc'[CP] # "idle" /\ loc' = loc /\ fresh' = fresh /\ tok' = tok
    BY <1>0, <1>1, ContinueFacts DEF Continue
  <2>2. Harmless
    BY <1>1, AlikeSelf, AlikeHarmless
  <2> QED
    BY <1>1, <2>1, <2>2, GoesOn DEF TokenInv
<1>2. ASSUME api' = api, Return(CP, TRUE)
      PROVE  TokenInv'
  BY <1>2, AlikeSelf, AlikeHarmless, Returns
<1>3. ASSUME NEW o \in Object, Alike(o, api[CP]), Annotate(CP, o) \/ AnnotateLost(CP),
             loc' = loc, tok' = tok, pc'[CP] # "idle"
      PROVE  TokenInv'
  <2>1. (api'[CP] = o \/ api'[CP] = api[CP]) /\ (fresh'[CP] => fresh[CP])
    BY <1>0, <1>3, AnnotateFacts
  <2>2. /\ Harmless
        /\ fresh[CP] /\ api'[CP].exists => loc[CP].pkgs = api'[CP].pkgs
    BY <1>3, <2>1, AlikeSelf, AlikeHarmless
  <2> QED
    BY <1>3, <2>1, <2>2, GoesOn DEF TokenInv
\* A new token is published: the one that kubeadm has just minted, or the
\* permanent one of the init.
<1>4. ASSUME NEW o, NEW label, label # "idle", Refetched(CP, o), ContinueWith(CP, label, o),
             Live(CP)' => Live(CP), o.cache = api[CP].cache, o.pkgs = api[CP].pkgs,
             o.jc # "expired"
      PROVE  TokenInv'
  <2>1. api'[CP] = o /\ loc'[CP] = o /\ pc'[CP] # "idle" /\ tok' = tok
    BY <1>0, <1>4, ContinueWithFacts DEF Refetched, ContinueWith, TypeOK
  <2>2. Harmless
    BY <1>4, <2>1 DEF TokenInv, Harmless
  <2> QED
    BY <1>4, <2>1, <2>2, GoesOn DEF TokenInv
<1>5. CASE EnsureRepo \/ CreateNetConfig \/ SkipRefresh \/ PatchNetJoin
  BY <1>1, <1>5 DEF EnsureRepo, CreateNetConfig, SkipRefresh, PatchNetJoin
<1>6. CASE StampNetConfig
  <2>1. /\ loc' = loc /\ tok' = tok /\ pc'[CP] # "idle"
        /\ Annotate(CP, [api[CP] EXCEPT !.netDone = TRUE]) \/ AnnotateLost(CP)
    BY <1>0, <1>6, GotoFacts DEF StampNetConfig
  <2> QED
    BY <1>0, <1>3, <2>1, AlikeFields, ObjectFields
<1>7. CASE StampRefresh
  <2>1. /\ loc' = loc /\ tok' = tok /\ pc'[CP] # "idle"
        /\ Annotate(CP, [api[CP] EXCEPT !.stamp = "recent"]) \/ AnnotateLost(CP)
    BY <1>0, <1>7, GotoFacts DEF StampRefresh
  <2> QED
    BY <1>0, <1>3, <2>1, AlikeFields, ObjectFields
<1>8. CASE PublishJoin
  <2> DEFINE o == [api[CP] EXCEPT !.phase = "Ready", !.jc = tok[CP]]
  <2>1. /\ o.exists = api[CP].exists /\ o.deleting = api[CP].deleting
        /\ o.jc = tok[CP] /\ o.cache = api[CP].cache /\ o.pkgs = api[CP].pkgs
    BY <1>0 DEF Object
  <2>2. \/ Refetched(CP, o) /\ ContinueWith(CP, "clear", o)
        \/ RefetchFails(CP) /\ Return(CP, TRUE)
    BY <1>8 DEF PublishJoin
  <2> HIDE DEF o
  <2>3. ASSUME Refetched(CP, o) PROVE Live(CP)' => Live(CP)
    BY <1>0, <2>1, <2>3 DEF Refetched, Live, TypeOK
  <2> QED
    BY <1>2, <1>4, <2>1, <2>2, <2>3 DEF TokenInv, RefetchFails
<1>9. CASE RefreshToken
  <2> DEFINE o == [api[CP] EXCEPT !.jc = "temp"]
  <2>1. /\ o.exists = api[CP].exists /\ o.deleting = api[CP].deleting
        /\ o.jc = "temp" /\ o.cache = api[CP].cache /\ o.pkgs = api[CP].pkgs
    BY <1>0 DEF Object
  <2>2. \/ Refetched(CP, o) /\ ContinueWith(CP, "netjoin", o)
        \/ api' = api /\ Continue(CP, "packages")
    BY <1>9 DEF RefreshToken, RefetchFails
  <2> HIDE DEF o
  <2>3. ASSUME Refetched(CP, o) PROVE Live(CP)' => Live(CP)
    BY <1>0, <2>1, <2>3 DEF Refetched, Live, TypeOK
  <2> QED
    BY <1>1, <1>4, <2>1, <2>2, <2>3
<1>10. CASE ClearInit
  <2> DEFINE o == [api[CP] EXCEPT !.cache = "none"]
  <2>1. /\ o.exists = api[CP].exists /\ o.deleting = api[CP].deleting
        /\ o.jc = api[CP].jc /\ o.cache = "none" /\ o.pkgs = api[CP].pkgs
    BY <1>0 DEF Object
  <2>2. Return(CP, TRUE) /\ (api'[CP] = o \/ api' = api)
    BY <1>0, <1>10 DEF ClearInit, RefetchFails, TypeOK
  <2> HIDE DEF o
  <2>3. Harmless
    BY <2>1, <2>2 DEF TokenInv, Harmless, Live
  <2> QED
    BY <2>2, <2>3, Returns
<1>11. CASE Packages
  BY <1>1, <1>2, <1>11 DEF Packages
<1>12. CASE MarkPackages
  <2> DEFINE o == [api[CP] EXCEPT !.pkgs = TRUE]
  <2>1. o.cache = api[CP].cache /\ o.pkgs
    BY <1>0 DEF Object
  <2>2. \/ Refetched(CP, o) /\ Return(CP, FALSE)
        \/ api' = api /\ Return(CP, TRUE)
    BY <1>12 DEF MarkPackages, RefetchFails
  <2> HIDE DEF o
  <2>3. ASSUME Refetched(CP, o) PROVE Harmless /\ api'[CP].pkgs
    <3>1. api'[CP] = o
      BY <1>0, <2>3 DEF Refetched, TypeOK
    <3> QED
      BY <2>1, <3>1 DEF TokenInv, Harmless
  <2> QED
    BY <1>2, <2>2, <2>3, Returns
<1> QED
  BY <1>5, <1>6, <1>7, <1>8, <1>9, <1>10, <1>11, <1>12

-----------------------------------------------------------------------------
(* Workers, the goroutine and the environment.                             *)

\* A worker's reconcile, however it goes on, leaves the control plane's alone.
LEMMA WorkerControl ==
    ASSUME TypeOK, NEW w \in Worker, NEW r, NEW label, NEW o,
           Return(w, r) \/ Continue(w, label) \/ ContinueWith(w, label, o)
    PROVE  CPKept
<1>1. CP \in Node /\ w \in Node /\ w # CP
  BY ClusterAssumption DEF Node
<1>2. CASE Return(w, r)
  BY <1>1, <1>2 DEF Return, Goto, CPKept, TypeOK
<1>3. CASE Continue(w, label)
  BY <1>1, <1>3 DEF Continue, Goto, CPKept, TypeOK
<1>4. CASE ContinueWith(w, label, o)
  BY <1>1, <1>4 DEF ContinueWith, Goto, CPKept, TypeOK
<1> QED
  BY <1>2, <1>3, <1>4

\* So does a write to its resource.
LEMMA WorkerWrite ==
    ASSUME TypeOK, NEW w \in Worker, NEW o,
           \/ Commit(w, o) \/ Lost(w) \/ Refetched(w, o) \/ RefetchFails(w)
    PROVE  api'[CP] = api[CP]
<1>1. CP \in Node /\ w \in Node /\ w # CP
  BY ClusterAssumption DEF Node
<1> QED
  BY <1>1, CommitFacts, RefetchFacts

LEMMA WorkerCommon ==
    ASSUME TypeOK, StaysCut, TokenInv, NEW w \in Worker,
           \/ Start(w) \/ AddFinalizer(w) \/ ProtectSecrets(w) \/ MarkProvisioning(w)
           \/ Fail(w) \/ ResetHost(w) \/ RemovePeer(w) \/ ReleaseSecrets(w)
           \/ RemoveFinalizer(w)
    PROVE  TokenInv'
<1>0. CP \in Node /\ w \in Node /\ w # CP
  BY ClusterAssumption DEF Node
<1>1. CASE Start(w)
  BY <1>0, <1>1, Elsewhere DEF Start, Goto, CPKept, TypeOK
<1>2. CASE AddFinalizer(w)
  BY <1>2, WorkerControl, WorkerWrite, Elsewhere DEF AddFinalizer
<1>3. CASE ProtectSecrets(w)
  BY <1>3, WorkerControl, Elsewhere DEF ProtectSecrets
<1>4. CASE MarkProvisioning(w)
  <2>1. api'[CP] = api[CP]
    BY <1>4, WorkerWrite DEF MarkProvisioning
  <2>2. CPKept
    BY <1>0, <1>4 DEF MarkProvisioning, Goto, CPKept, TypeOK
  <2> QED
    BY <2>1, <2>2, Elsewhere
<1>5. CASE Fail(w)
  BY <1>5, WorkerControl, WorkerWrite, Elsewhere DEF Fail
<1>6. CASE ResetHost(w) \/ ReleaseSecrets(w)
  BY <1>6, WorkerControl, Elsewhere DEF ResetHost, ReleaseSecrets
<1>7. CASE RemovePeer(w)
  BY <1>0, <1>7, Elsewhere DEF RemovePeer, Goto, CPKept, TypeOK
<1>8. CASE RemoveFinalizer(w)
  BY <1>8, WorkerControl, WorkerWrite, Elsewhere DEF RemoveFinalizer
<1> QED
  BY <1>1, <1>2, <1>3, <1>4, <1>5, <1>6, <1>7, <1>8

LEMMA WorkerKeepsToken ==
    ASSUME TypeOK, StaysCut, TokenInv, NEW w \in Worker, ReconcileWorker(w)
    PROVE  TokenInv'
<1>0. CP \in Node /\ w \in Node /\ w # CP
  BY ClusterAssumption DEF Node
<1>1. CASE Connect(w) \/ PrepareJoin(w) \/ NameNode(w) \/ RecordAddress(w)
  <2>1. api' = api
    BY <1>1 DEF Connect, PrepareJoin, NameNode, RecordAddress
  <2>2. CPKept
    <3>1. CASE PrepareJoin(w) /\ Goto(w, "join")
      BY <1>0, <3>1 DEF PrepareJoin, Goto, Continue, CPKept, TypeOK
    <3>2. CASE ~(PrepareJoin(w) /\ Goto(w, "join"))
      BY <1>1, <3>2, WorkerControl DEF Connect, PrepareJoin, NameNode, RecordAddress
    <3> QED
      BY <3>1, <3>2
  <2> QED
    BY <2>1, <2>2, Elsewhere
<1>2. CASE SyncVPN(w)
  <2> DEFINE o == [api[w] EXCEPT !.vpnRef = TRUE]
  <2>1. api'[CP] = api[CP]
    BY <1>2, WorkerWrite DEF SyncVPN
  <2>2. ASSUME NEW p, NEW newest, AfterSync(w, p, newest)
        PROVE  CPKept
    <3>1. \/ \E r \in BOOLEAN : Return(w, r)
          \/ /\ Goto(w, "prepare") /\ loc' = [loc EXCEPT ![w] = p]
             /\ \E cmd : tok' = [tok EXCEPT ![w] = cmd]
             /\ fresh' = [fresh EXCEPT ![w] = newest] /\ queue' = queue
      BY <2>2 DEF AfterSync
    <3> QED
      BY <1>0, <3>1, WorkerControl DEF Goto, CPKept, TypeOK
  <2>3. Return(w, TRUE) \/ AfterSync(w, loc[w], fresh[w]) \/ AfterSync(w, o, TRUE)
    BY <1>2 DEF SyncVPN
  <2> QED
    BY <2>1, <2>2, <2>3, WorkerControl, Elsewhere
<1>3. CASE JoinPhase(w)
  <2>1. \/ \E o : Annotate(w, o) \/ AnnotateLost(w)
        \/ api' = api /\ fresh' = fresh
    BY <1>3 DEF JoinPhase
  <2>2. api'[CP] = api[CP] /\ fresh'[CP] = fresh[CP]
    BY <1>0, <2>1, AnnotateFacts
  <2>3. pc'[CP] = pc[CP] /\ loc' = loc /\ tok' = tok /\ queue' = queue
    BY <1>0, <1>3, GotoFacts DEF JoinPhase
  <2> QED
    BY <2>2, <2>3, Elsewhere DEF CPKept
<1>4. CASE MarkJoined(w)
  BY <1>4, WorkerControl, WorkerWrite, Elsewhere DEF MarkJoined
<1>5. CASE WorkerReady(w)
  BY <1>5, WorkerControl, WorkerWrite, Elsewhere DEF WorkerReady
<1> QED
  BY <1>1, <1>2, <1>3, <1>4, <1>5 DEF ReconcileWorker

LEMMA EnvironmentKeepsToken ==
    ASSUME TypeOK, StaysCut, TokenInv, Environment
    PROVE  TokenInv'
<1>0. CP \in Node /\ api[CP] \in Object
  BY DEF Node, TypeOK
<1>1. ASSUME NEW n \in Node, UserEdits(n)
      PROVE  TokenInv'
  <2>1. CPKept /\ api' = api
    BY <1>0, <1>1 DEF UserEdits, CPKept, TypeOK
  <2> QED
    BY <2>1, Elsewhere
<1>2. ASSUME NEW n \in Node, UserDeletes(n)
      PROVE  TokenInv'
  <2>1. CPKept
    BY <1>0, <1>2 DEF UserDeletes, CPKept, TypeOK
  <2>2. CASE n # CP
    <3>1. api'[CP] = api[CP]
      BY <1>0, <1>2, <2>2 DEF UserDeletes, TypeOK
    <3> QED
      BY <2>1, <3>1, Elsewhere
  <2>3. CASE n = CP
    <3> DEFINE o == [api[CP] EXCEPT !.deleting = TRUE]
    <3>1. api'[CP] = o \/ api'[CP] = NoObject
      BY <1>0, <1>2, <2>3 DEF UserDeletes, TypeOK
    <3>2. /\ o.deleting /\ o.cache = api[CP].cache
          /\ ~NoObject.exists /\ NoObject.cache = "none"
      BY <1>0 DEF Object, NoObject
    <3>3. ~fresh'[CP]
      BY <1>0, <1>2, <2>3 DEF UserDeletes, TypeOK
    <3> HIDE DEF o
    <3> QED
      BY <2>1, <3>1, <3>2, <3>3 DEF TokenInv, CPKept, Live
  <2> QED
    BY <2>2, <2>3
<1>3. CASE UserDeletesSecret \/ \E n \in Node : TearDown(n)
  <2>1. CPKept /\ api' = api
    BY <1>3 DEF UserDeletesSecret, TearDown, ctlVars, CPKept
  <2> QED
    BY <2>1, Elsewhere
\* A restart puts every resource in the queue.
<1>4. CASE Crash
  <2>1. /\ api' = api /\ queue' = [n \in Node |-> api[n].exists]
        /\ loc' = [n \in Node |-> NoObject] /\ fresh' = [n \in Node |-> FALSE]
        /\ tok' = [n \in Node |-> "none"]
    BY <1>4 DEF Crash
  <2>2. queue'[CP] = api[CP].exists /\ loc'[CP] = NoObject /\ ~fresh'[CP] /\ tok'[CP] = "none"
    BY <1>0, <2>1
  <2>3. NoObject.cache = "none"
    BY DEF NoObject
  <2> QED
    BY <2>1, <2>2, <2>3 DEF StaysCut, TokenInv, Live
<1>5. CASE TokenAges
  <2> DEFINE o == [api[CP] EXCEPT !.jc = Older(@, "temp", "old"),
                                  !.stamp = Older(@, "recent", "due")]
  <2>1. api'[CP] = o
    BY <1>0, <1>5 DEF TokenAges, TypeOK
  <2>2. /\ o.exists = api[CP].exists /\ o.deleting = api[CP].deleting
        /\ o.jc = Older(api[CP].jc, "temp", "old") /\ o.cache = api[CP].cache
        /\ o.pkgs = api[CP].pkgs
    BY <1>0 DEF Object
  <2>3. pc' = pc /\ loc' = loc /\ fresh' = fresh /\ tok' = tok /\ queue' = queue
    BY <1>5 DEF TokenAges, ctlVars
  <2> HIDE DEF o
  <2> QED
    BY <2>1, <2>2, <2>3 DEF StaysCut, TokenInv, Live, Older
\* With the control plane at rest and out of the queue, its packages are there, or
\* it is being deleted; otherwise its machine is cut off.
<1>6. CASE TokenExpires
  <2> DEFINE o == [api[CP] EXCEPT !.jc = Older(@, "old", "expired")]
  <2>1. api'[CP] = o /\ pc[CP] = "idle" /\ (Reachable(CP) => ~queue[CP])
    BY <1>0, <1>6 DEF TokenExpires, TypeOK
  <2>2. /\ o.exists = api[CP].exists /\ o.deleting = api[CP].deleting
        /\ o.cache = api[CP].cache /\ o.pkgs = api[CP].pkgs
    BY <1>0 DEF Object
  <2>3. pc' = pc /\ loc' = loc /\ fresh' = fresh /\ tok' = tok /\ queue' = queue
    BY <1>6 DEF TokenExpires, ctlVars
  <2> HIDE DEF o
  <2> QED
    BY <2>1, <2>2, <2>3 DEF StaysCut, TokenInv, Live
<1> QED
  BY <1>1, <1>2, <1>3, <1>4, <1>5, <1>6 DEF Environment

-----------------------------------------------------------------------------
(* Together.                                                               *)

LEMMA TokenInit == Init => TokenInv
<1> SUFFICES ASSUME Init
             PROVE  TokenInv
  OBVIOUS
<1>1. /\ api = [n \in Node |-> [NoObject EXCEPT !.exists = TRUE, !.vpnRef = (n = CP)]]
      /\ queue = [n \in Node |-> TRUE] /\ loc = [n \in Node |-> NoObject]
      /\ fresh = [n \in Node |-> FALSE] /\ tok = [n \in Node |-> "none"]
  BY Zenon DEF Init
<1>2. CP \in Node
  BY DEF Node
<1>3. /\ queue[CP] /\ loc[CP] = NoObject /\ ~fresh[CP] /\ tok[CP] = "none"
  BY <1>1, <1>2
<1>4. api[CP] = [NoObject EXCEPT !.exists = TRUE, !.vpnRef = (CP = CP)]
  BY <1>1, <1>2, Zenon
<1>5. api[CP].jc = "none" /\ api[CP].cache = "none"
  <2>1. \E b : api[CP] = [NoObject EXCEPT !.exists = TRUE, !.vpnRef = b]
    BY <1>4, Zenon
  <2> QED
    BY <2>1, InitFields
<1>6. NoObject.cache = "none"
  BY DEF NoObject
<1> QED
  BY <1>3, <1>5, <1>6 DEF TokenInv

LEMMA ReachableStep ==
    ASSUME TypeOK, [Next]_vars
    PROVE  StaysCut
<1>0. CP \in Node
  BY DEF Node
<1>1. ASSUME tunnel' \subseteq tunnel, auth'[CP] = "gone" \/ auth[CP] # "gone",
             copy'[CP] => copy[CP] \/ auth[CP] # "gone"
      PROVE  StaysCut
  BY <1>1 DEF StaysCut, Reachable
<1>2. ASSUME auth' = auth, copy' = copy, tunnel' \subseteq tunnel
      PROVE  StaysCut
  BY <1>1, <1>2
<1>3. ASSUME NEW n \in Node, ProtectSecrets(n)
      PROVE  StaysCut
  <2>1. PICK done \in SUBSET {"auth", "copy", "vpn"} :
          /\ auth' = IF "auth" \in done THEN [auth EXCEPT ![n] = Held(@)] ELSE auth
          /\ copy' = IF "copy" \in done /\ auth[n] # "gone" /\ api[n].exists
                     THEN [copy EXCEPT ![n] = TRUE] ELSE copy
    BY <1>3 DEF ProtectSecrets
  <2>2. tunnel' = tunnel
    BY <1>3 DEF ProtectSecrets, remoteVars
  <2>3. auth[CP] = "gone" => auth'[CP] = "gone"
    BY <1>0, <2>1 DEF Held, TypeOK
  <2>4. copy'[CP] => copy[CP] \/ auth[CP] # "gone"
    BY <1>0, <2>1 DEF TypeOK
  <2> QED
    BY <1>1, <2>2, <2>3, <2>4
<1>4. ASSUME NEW n \in Node, ReleaseSecrets(n)
      PROVE  StaysCut
  <2>1. auth[CP] = "gone" => auth'[CP] = "gone"
    BY <1>0, <1>4 DEF ReleaseSecrets, Released, TypeOK
  <2>2. tunnel' = tunnel /\ copy' = copy
    BY <1>4 DEF ReleaseSecrets, remoteVars
  <2> QED
    BY <1>1, <2>1, <2>2
<1>5. ASSUME NEW n \in Node, RemoveFinalizer(n) \/ UserDeletes(n)
      PROVE  StaysCut
  <2>1. auth' = auth /\ tunnel' = tunnel
    BY <1>5 DEF RemoveFinalizer, UserDeletes, remoteVars
  <2>2. copy'[CP] => copy[CP]
    BY <1>0, <1>5 DEF RemoveFinalizer, UserDeletes, TypeOK
  <2> QED
    BY <1>1, <2>1, <2>2
<1>6. CASE UserDeletesSecret
  <2>1. auth[CP] = "gone" => auth'[CP] = "gone"
    BY <1>0, <1>6 DEF UserDeletesSecret, TypeOK
  <2>2. tunnel' = tunnel /\ copy' = copy
    BY <1>6 DEF UserDeletesSecret, remoteVars
  <2> QED
    BY <1>1, <2>1, <2>2
<1>7. ASSUME NEW n \in Node, RemovePeer(n) \/ TearDown(n)
      PROVE  StaysCut
  BY <1>2, <1>7 DEF RemovePeer, TearDown, secretVars
<1>8. ASSUME NEW n \in Node,
             \/ Start(n) \/ AddFinalizer(n) \/ MarkProvisioning(n) \/ Fail(n) \/ ResetHost(n)
      PROVE  StaysCut
  BY <1>2, <1>8 DEF Start, AddFinalizer, MarkProvisioning, Fail, ResetHost, remoteVars,
         secretVars
<1>9. ASSUME ReconcileCP
      PROVE  StaysCut
  BY <1>2, <1>9 DEF ReconcileCP, AlreadyInitialised, ResumeCompletion, StartJob,
         FlushProgress, TakeResult, MarkInitComplete, EnsureRepo, CreateNetConfig,
         StampNetConfig, PublishJoin, ClearInit, SkipRefresh, RefreshToken, PatchNetJoin,
         StampRefresh, Packages, MarkPackages, remoteVars, secretVars
<1>10. ASSUME NEW w \in Worker, ReconcileWorker(w)
       PROVE  StaysCut
  BY <1>2, <1>10 DEF ReconcileWorker, Connect, SyncVPN, PrepareJoin, JoinPhase, NameNode,
         MarkJoined, WorkerReady, RecordAddress, remoteVars, secretVars
<1>11. CASE Job
  BY <1>2, <1>11 DEF Job, JobPhase, JobEnds, JobFails, secretVars, remoteVars
<1>12. ASSUME NEW n \in Node, UserEdits(n)
       PROVE  StaysCut
  BY <1>2, <1>12 DEF UserEdits, secretVars, remoteVars
<1>13. CASE Crash \/ TokenAges \/ TokenExpires
  BY <1>2, <1>13 DEF Crash, TokenAges, TokenExpires, secretVars
<1>14. CASE UNCHANGED vars
  BY <1>2, <1>14 DEF vars, secretVars, remoteVars
<1>15. ASSUME NEW n \in Node, Reconcile(n)
       PROVE  StaysCut
  BY <1>3, <1>4, <1>5, <1>7, <1>8, <1>9, <1>10, <1>15 DEF Reconcile
<1>16. CASE Environment
  BY <1>5, <1>6, <1>7, <1>12, <1>13, <1>16 DEF Environment
<1> QED
  BY <1>11, <1>14, <1>15, <1>16 DEF Next

LEMMA TokenStep == TypeOK /\ Inv /\ TokenInv /\ [Next]_vars => TokenInv'
<1> SUFFICES ASSUME TypeOK, Inv, TokenInv, [Next]_vars
             PROVE  TokenInv'
  OBVIOUS
<1>0. StaysCut
  BY ReachableStep
<1>1. ASSUME ReconcileCP
      PROVE  TokenInv'
  BY <1>0, <1>1, InitKeepsToken, ReadyKeepsToken DEF ReconcileCP
<1>2. ASSUME NEW n \in Node, Reconcile(n)
      PROVE  TokenInv'
  <2>1. n = CP \/ n \in Worker
    BY DEF Node
  <2> QED
    BY <1>0, <1>1, <1>2, <2>1, CommonKeepsToken, WorkerCommon, WorkerKeepsToken DEF Reconcile
<1>3. CASE Job \/ UNCHANGED vars
  <2>1. CPKept /\ api' = api
    BY <1>3 DEF Job, JobPhase, JobEnds, JobFails, vars, ctlVars, CPKept
  <2> QED
    BY <1>0, <2>1, Elsewhere
<1> QED
  BY <1>0, <1>2, <1>3, EnvironmentKeepsToken DEF Next

\* The token in the status of a Ready control plane that can be reached does not expire
\* before its package variants are created: failures, refused writes, restarts and edits
\* all leave the resource in the work queue, and an hour is enough for a refresh that is
\* due (needsTokenRefresh, refreshJoinToken, reconcileControlPlane).
THEOREM TokenRotated == Spec => []JoinTokenRotated
<1>1. Init => TokenInv
  BY TokenInit
<1>2. (TypeOK /\ Inv) /\ TokenInv /\ [Next]_vars => TokenInv'
  BY TokenStep
<1>3. (TypeOK /\ Inv) /\ TokenInv => JoinTokenRotated
  <2> SUFFICES ASSUME Inv, TokenInv, api[CP].phase = "Ready", ~api[CP].deleting,
                      ~api[CP].pkgs, Reachable(CP)
               PROVE  api[CP].jc # "expired"
    BY DEF JoinTokenRotated
  <2>1. Gone(CP)
    BY DEF Inv, ResourceInv, Node
  <2>2. Live(CP)
    BY <2>1, NoObjectFields DEF Gone, Live
  <2> QED
    BY <2>2 DEF TokenInv
<1> QED
  BY <1>1, <1>2, <1>3, Invariant, PTL DEF Spec

-----------------------------------------------------------------------------
(* What holds as long as no call has failed.                               *)

Calm == faults = 0 /\ Live(CP)

Published == api[CP].jc # "none"

\* The NetConfig is stamped before the status says Ready, with the join command.
Complete(o) == o.phase = "Ready" => o.netDone /\ o.jc # "none"

Rotated(o) == o.pkgs \/ o.stamp = "recent"

\* The NetConfig is created, and written over, only before the join command is
\* published: the Ready path finds it stamped.
Control ==
    /\ Complete(api[CP]) /\ Complete(loc[CP])
    /\ pc[CP] \in CompletePC => ~Published /\ tok[CP] # "none"
    /\ pc[CP] = "publish" => api[CP].netDone
    /\ pc[CP] \in ReadyPC => loc[CP].phase = "Ready"

\* The controller has its own copy of the SSH secret by the time it matters.
Secured ==
    /\ pc[CP] \in {"provision", "init", "stamp", "repo"} => copy[CP] \/ auth[CP] = "gone"
    /\ pc[CP] \in {"netconfig", "netstamp", "publish"} \/ Published => copy[CP]

\* What follows the first refresh follows a NetConfig with a join command.
Patched ==
    Rotated(api[CP]) \/ Rotated(loc[CP]) \/ pc[CP] \in {"tokenstamp", "packages", "pkgstamp"}
        => Published /\ netcfg.jc # "none"

CPSteady == Control /\ Secured /\ Patched

\* Where a worker has its parent's join command.
ParentPC == {"prepare", "join", "mark", "ready", "record"}

\* A worker gets on only in a published cluster, and once it says Ready it is in the
\* NetConfig or about to be.
Recorded(w) ==
    /\ pc[w] \in ParentPC => Published
    /\ api[w].phase = "Ready" \/ loc[w].phase = "Ready" =>
         Published /\ (pc[w] # "record" => w \in netcfg.used)

\* The machine of a control plane that is not deleted is in the VPN, and stays there.
Connected == CP \in tunnel /\ CP \notin teardown

CalmInv == Calm => Connected /\ CPSteady /\ \A w \in Worker : Recorded(w)

-----------------------------------------------------------------------------
(* How the control plane's part is kept.                                   *)

\* What a step of anything but a worker's reconcile must show.
CPGood ==
    Calm' => /\ Calm /\ CPSteady'
             /\ Published => Published' /\ netcfg'.used = netcfg.used

\* Written over p, o has the fields that matter as they were, and is Ready only if p is.
Keeps(o, p) ==
    /\ o.exists = p.exists /\ o.deleting = p.deleting /\ o.jc = p.jc
    /\ o.netDone = p.netDone /\ o.pkgs = p.pkgs /\ o.stamp = p.stamp
    /\ o.phase = "Ready" => p.phase = "Ready"

LEMMA KeepsFields ==
    ASSUME NEW o \in Object, NEW v
    PROVE  /\ Keeps(o, o)
           /\ Keeps([o EXCEPT !.finalizer = v], o) /\ Keeps([o EXCEPT !.last = v], o)
           /\ Keeps([o EXCEPT !.cache = v], o) /\ Keeps([o EXCEPT !.vpnRef = v], o)
           /\ Keeps([o EXCEPT !.phase = "Failed"], o)
           /\ Keeps([o EXCEPT !.phase = "Provisioning"], o)
<1>1. Keeps(o, o) /\ Keeps([o EXCEPT !.finalizer = v], o) /\ Keeps([o EXCEPT !.last = v], o)
  BY DEF Keeps, Object
<1>2. Keeps([o EXCEPT !.cache = v], o) /\ Keeps([o EXCEPT !.vpnRef = v], o)
  BY DEF Keeps, Object
<1>3. Keeps([o EXCEPT !.phase = "Failed"], o) /\ Keeps([o EXCEPT !.phase = "Provisioning"], o)
  BY DEF Keeps, Object
<1> QED
  BY <1>1, <1>2, <1>3

\* Nothing has failed if the count of failures is still zero.
LEMMA NoneFailed ==
    ASSUME TypeOK, faults' = 0
    PROVE  ~Fault /\ (NoFault => faults = 0)
BY ClusterAssumption DEF TypeOK, Fault, NoFault

\* The newest version, or a copy that is accepted, is written with what matters kept.
Writes ==
    \/ Keeps(api'[CP], api[CP])
    \/ fresh[CP] /\ api[CP].exists /\ Keeps(api'[CP], loc[CP])

LEMMA WriteKeeps ==
    ASSUME TypeOK, Inv, Calm => CPSteady, Writes, faults = 0, Live(CP)'
    PROVE  /\ Calm /\ CPSteady /\ Published' = Published /\ Complete(api'[CP])
           /\ Rotated(api'[CP]) => Published /\ netcfg.jc # "none"
<1>1. CASE Keeps(api'[CP], api[CP])
  <2>1. Calm
    BY <1>1 DEF Calm, Live, Keeps
  <2> QED
    BY <1>1, <2>1 DEF Keeps, CPSteady, Control, Patched, Complete, Rotated, Published
<1>2. CASE fresh[CP] /\ api[CP].exists /\ Keeps(api'[CP], loc[CP])
  <2>1. Same(loc[CP], api[CP])
    BY <1>2, CPFacts
  <2>2. Calm
    BY <1>2, <2>1 DEF Calm, Live, Keeps, Same
  <2> QED
    BY <1>2, <2>1, <2>2 DEF Keeps, Same, CPSteady, Control, Patched, Complete, Rotated, Published
<1> QED
  BY <1>1, <1>2 DEF Writes

LEMMA NothingRotated == ~Rotated(NoObject) /\ Complete(NoObject)
BY DEF NoObject, Rotated, Complete

\* The reconcile stops, or goes on where no part of the completion is under way.
LEMMA QuietCP ==
    ASSUME TypeOK, Inv, Calm => CPSteady, Calm' => Writes /\ faults = 0,
           netcfg' = netcfg \/ ~Published,
           Calm' => loc'[CP] \in {NoObject, api[CP]} \/ Keeps(loc'[CP], loc[CP]),
           Calm' => pc'[CP] \notin CompletePC \cup ReadyPC,
           Calm' /\ pc'[CP] \in {"provision", "init"} => copy'[CP] \/ auth'[CP] = "gone",
           copy[CP] => copy'[CP]
    PROVE  CPGood
<1> SUFFICES ASSUME Calm'
             PROVE  /\ Calm /\ CPSteady'
                    /\ Published => Published' /\ netcfg'.used = netcfg.used
  BY DEF CPGood
<1>1. /\ Calm /\ CPSteady /\ Published' = Published /\ Complete(api'[CP])
      /\ Rotated(api'[CP]) => Published /\ netcfg.jc # "none"
  BY WriteKeeps DEF Calm
<1>2. /\ Complete(loc'[CP])
      /\ Rotated(loc'[CP]) => Published /\ netcfg.jc # "none"
  BY <1>1, NothingRotated DEF CPSteady, Control, Patched, Keeps, Complete, Rotated
<1>3. Control'
  BY <1>1, <1>2 DEF Control, CompletePC, Complete
<1>4. Secured'
  BY <1>1 DEF CPSteady, Secured, CompletePC
<1>5. Patched'
  BY <1>1, <1>2 DEF Patched, ReadyPC, Rotated
<1> QED
  BY <1>1, <1>3, <1>4, <1>5 DEF CPSteady

\* A deletion has nothing to keep: the resource is not live, nor comes to life.
LEMMA DeletionCalm ==
    ASSUME TypeOK, Inv, NEW n \in Node,
           ResetHost(n) \/ RemovePeer(n) \/ ReleaseSecrets(n) \/ RemoveFinalizer(n)
    PROVE  ~Live(n) /\ ~Live(n)'
<1>1. ~Live(n)
  BY DEF Inv, ResourceInv, Gone, DeletePC, ResetHost, RemovePeer, ReleaseSecrets,
         RemoveFinalizer
<1>2. CASE api' = api
  BY <1>1, <1>2 DEF Live
<1>3. CASE RemoveFinalizer(n)
  <2>1. Commit(n, NoObject) \/ Lost(n)
    BY <1>3 DEF RemoveFinalizer
  <2>2. api'[n] = NoObject \/ api' = api
    BY <2>1, CommitFacts
  <2> QED
    BY <1>1, <2>2, NoObjectFields DEF Live
<1> QED
  BY <1>2, <1>3 DEF ResetHost, RemovePeer, ReleaseSecrets

LEMMA CommonCalm ==
    ASSUME TypeOK, Inv, Calm => CPSteady,
           \/ Start(CP) \/ AddFinalizer(CP) \/ ProtectSecrets(CP) \/ MarkProvisioning(CP)
           \/ Fail(CP) \/ ResetHost(CP) \/ RemovePeer(CP) \/ ReleaseSecrets(CP)
           \/ RemoveFinalizer(CP)
    PROVE  CPGood
<1> USE DEF jobVars, remoteVars, secretVars
<1>0. CP \in Node /\ api[CP] \in Object /\ loc[CP] \in Object
  BY CPFacts
<1>1. CASE Start(CP)
  <2>1. /\ api' = api /\ faults' = faults /\ netcfg' = netcfg /\ copy' = copy
        /\ pc[CP] = "idle"
    BY <1>1 DEF Start
  <2>2. /\ pc'[CP] \in {"idle", "finalizer", "protect", "reset"}
        /\ loc'[CP] \in {api[CP], loc[CP]}
    <3>1. CASE api[CP].exists /\ Dispatch(api[CP]) # "idle"
      BY <1>0, <1>1, <3>1, GotoFacts DEF Start, Dispatch, TypeOK
    <3>2. CASE ~(api[CP].exists /\ Dispatch(api[CP]) # "idle")
      BY <1>1, <2>1, <3>2 DEF Start
    <3> QED
      BY <3>1, <3>2
  <2>3. Writes /\ (loc'[CP] = api[CP] \/ Keeps(loc'[CP], loc[CP]))
    BY <1>0, <2>1, <2>2, KeepsFields DEF Writes
  <2> QED
    BY <2>1, <2>2, <2>3, QuietCP DEF Calm, CompletePC, ReadyPC
<1>2. ASSUME NEW o, Keeps(o, loc[CP]), Commit(CP, o) \/ Lost(CP), Return(CP, TRUE),
             netcfg' = netcfg, copy' = copy
      PROVE  CPGood
  <2>1. pc'[CP] = "idle" /\ loc'[CP] = NoObject
    BY <1>0, <1>2, ReturnFacts DEF Return, TypeOK
  <2>2. Writes
    BY <1>0, <1>2, CommitFacts, KeepsFields DEF Writes
  <2>3. Calm' => faults = 0
    BY <1>2, NoneFailed DEF Calm, Commit, Lost
  <2> QED
    BY <1>2, <2>1, <2>2, <2>3, QuietCP DEF CompletePC, ReadyPC
<1>3. CASE AddFinalizer(CP)
  <2>1. Keeps([loc[CP] EXCEPT !.finalizer = TRUE], loc[CP])
    BY <1>0, KeepsFields
  <2> QED
    BY <1>2, <1>3, <2>1 DEF AddFinalizer
<1>4. CASE Fail(CP)
  <2>1. Keeps([loc[CP] EXCEPT !.phase = "Failed"], loc[CP])
    BY <1>0, KeepsFields
  <2> QED
    BY <1>2, <1>4, <2>1 DEF Fail
<1>5. CASE MarkProvisioning(CP)
  <2> DEFINE o == [loc[CP] EXCEPT !.phase = "Provisioning"]
  <2>1. /\ pc[CP] = "provision" /\ (Commit(CP, o) \/ Lost(CP)) /\ loc'[CP] = o
        /\ pc'[CP] = "init" /\ netcfg' = netcfg /\ copy' = copy /\ auth' = auth
    BY <1>0, <1>5, GotoFacts DEF MarkProvisioning, TypeOK
  <2>2. Keeps(o, loc[CP])
    BY <1>0, KeepsFields
  <2> HIDE DEF o
  <2>3. Writes
    BY <1>0, <2>1, <2>2, CommitFacts, KeepsFields DEF Writes
  <2>4. Calm' => faults = 0
    BY <2>1, NoneFailed DEF Calm, Commit, Lost
  <2>5. Calm' => copy'[CP] \/ auth'[CP] = "gone"
    BY <2>1, <2>3, <2>4, WriteKeeps DEF Calm, CPSteady, Secured
  <2> QED
    BY <2>1, <2>2, <2>3, <2>4, <2>5, QuietCP DEF CompletePC, ReadyPC
\* The copy of the secret is made, unless there is nothing left to copy.
<1>6. CASE ProtectSecrets(CP)
  <2>1. /\ pc[CP] = "protect" /\ api' = api /\ netcfg' = netcfg
        /\ Continue(CP, AfterProtect(CP))
    BY <1>6, ClusterAssumption DEF ProtectSecrets, AfterProtect
  <2>2. /\ pc'[CP] = AfterProtect(CP) /\ loc' = loc /\ tok' = tok
    BY <1>0, <2>1, ContinueFacts DEF Continue
  <2>3. PICK done \in SUBSET {"auth", "copy", "vpn"} :
          /\ IF done = {"auth", "copy", "vpn"} THEN NoFault ELSE Fault
          /\ auth' = IF "auth" \in done THEN [auth EXCEPT ![CP] = Held(@)] ELSE auth
          /\ copy' = IF "copy" \in done /\ auth[CP] # "gone" /\ api[CP].exists
                     THEN [copy EXCEPT ![CP] = TRUE] ELSE copy
    BY <1>6 DEF ProtectSecrets
  <2>4. copy[CP] => copy'[CP]
    BY <1>0, <2>3 DEF TypeOK
  <2>5. ASSUME Calm'
        PROVE  Calm /\ (copy'[CP] \/ auth'[CP] = "gone")
    <3>1. done = {"auth", "copy", "vpn"} /\ Calm
      BY <2>1, <2>3, <2>5, NoneFailed DEF Calm, Live
    <3>2. "copy" \in done /\ "auth" \in done
      BY <3>1
    <3>3. auth[CP] = "gone" => auth'[CP] = "gone"
      BY <1>0, <2>3 DEF Held, TypeOK
    <3>4. auth[CP] # "gone" => copy'[CP]
      BY <1>0, <2>3, <3>1, <3>2 DEF TypeOK, Calm, Live
    <3> QED
      BY <3>1, <3>3, <3>4
  <2>6. Writes /\ Keeps(loc'[CP], loc[CP])
    BY <1>0, <2>1, <2>2, KeepsFields DEF Writes
  <2>7. CASE AfterProtect(CP) = "provision"
    BY <2>1, <2>2, <2>4, <2>5, <2>6, <2>7, QuietCP DEF Calm, CompletePC, ReadyPC
  <2>8. CASE AfterProtect(CP) # "provision"
    <3>1. loc[CP].phase = "Ready" /\ (~loc[CP].netDone => AfterProtect(CP) = "netconfig")
          /\ AfterProtect(CP) \in {"token", "netconfig"}
      BY <2>8 DEF AfterProtect
    <3> SUFFICES ASSUME Calm'
                 PROVE  /\ Calm /\ CPSteady'
                        /\ Published => Published' /\ netcfg'.used = netcfg.used
      BY DEF CPGood
    <3>2. Calm /\ CPSteady
      BY <2>5
    <3>3. AfterProtect(CP) = "token"
      BY <2>8, <3>1, <3>2 DEF CPSteady, Control, Complete, AfterProtect
    <3>4. Control' /\ Patched'
      BY <2>1, <2>2, <3>1, <3>2, <3>3 DEF CPSteady, Control, Patched, CompletePC, Complete,
             Published, Rotated
    <3>5. Secured'
      BY <2>1, <2>2, <2>4, <3>2, <3>3 DEF CPSteady, Secured, Published
    <3> QED
      BY <2>1, <3>2, <3>4, <3>5 DEF CPSteady, Published
  <2> QED
    BY <2>7, <2>8
<1>7. CASE ResetHost(CP) \/ RemovePeer(CP) \/ ReleaseSecrets(CP) \/ RemoveFinalizer(CP)
  BY <1>0, <1>7, DeletionCalm DEF CPGood, Calm
<1> QED
  BY <1>1, <1>3, <1>4, <1>5, <1>6, <1>7

\* The reconcile returns, or is about to fail, with the resource's fields as they were.
LEMMA StopsCalm ==
    ASSUME TypeOK, Inv, Calm => CPSteady, Calm' => Writes /\ faults = 0,
           netcfg' = netcfg \/ ~Published, copy' = copy,
           Return(CP, TRUE) \/ Continue(CP, "fail") \/ Return(CP, FALSE)
    PROVE  CPGood
<1>0. CP \in Node /\ loc[CP] \in Object
  BY CPFacts
<1>1. CASE Return(CP, TRUE) \/ Return(CP, FALSE)
  <2>1. pc'[CP] = "idle" /\ loc'[CP] = NoObject
    BY <1>0, <1>1, ReturnFacts DEF Return, TypeOK
  <2> QED
    BY <2>1, QuietCP DEF CompletePC, ReadyPC
<1>2. CASE Continue(CP, "fail")
  <2>1. pc'[CP] = "fail" /\ Keeps(loc'[CP], loc[CP])
    BY <1>0, <1>2, ContinueFacts, KeepsFields
  <2> QED
    BY <2>1, QuietCP DEF CompletePC, ReadyPC
<1> QED
  BY <1>1, <1>2

LEMMA InitCalm ==
    ASSUME TypeOK, Inv, Calm => CPSteady,
           \/ AlreadyInitialised \/ ResumeCompletion \/ StartJob \/ FlushProgress
           \/ TakeResult \/ MarkInitComplete
    PROVE  CPGood
<1> USE DEF jobVars, remoteVars, secretVars
<1>0. CP \in Node /\ api[CP] \in Object /\ loc[CP] \in Object
  BY CPFacts
<1>1. ASSUME api' = api
      PROVE  Writes
  BY <1>0, <1>1, KeepsFields DEF Writes
<1>2. CASE AlreadyInitialised
  BY <1>1, <1>2, StopsCalm DEF AlreadyInitialised, Calm
<1>3. CASE StartJob
  <2>1. faults' = 0 => faults = 0
    BY <1>3, NoneFailed DEF StartJob, Unreachable, FailsUnless
  <2> QED
    BY <1>1, <1>3, <2>1, StopsCalm DEF StartJob, Calm
<1>4. CASE FlushProgress
  <2>1. api' = api \/ api'[CP] = [api[CP] EXCEPT !.last = prog]
    BY <1>0, <1>4 DEF FlushProgress, TypeOK
  <2>2. Writes
    BY <1>0, <2>1, KeepsFields DEF Writes
  <2>3. faults' = 0 => faults = 0
    BY <1>4, NoneFailed DEF FlushProgress
  <2> QED
    BY <1>4, <2>2, <2>3, StopsCalm DEF FlushProgress, Calm
\* kubeadm init has been done, and nothing published, when the completion begins.
<1>5. CASE ResumeCompletion
  <2>1. /\ pc[CP] = "init" /\ api' = api /\ loc' = loc /\ netcfg' = netcfg /\ copy' = copy
        /\ auth' = auth /\ faults' = faults /\ pc'[CP] = "repo"
        /\ tok'[CP] # "none" /\ loc[CP].jc = "none"
    BY <1>0, <1>5, GotoFacts DEF ResumeCompletion, ToInit, TypeOK
  <2> SUFFICES ASSUME Calm'
               PROVE  /\ Calm /\ CPSteady'
                      /\ Published => Published' /\ netcfg'.used = netcfg.used
    BY DEF CPGood
  <2>2. Calm /\ CPSteady
    BY <2>1 DEF Calm, Live
  <2>3. ~Published
    BY <2>1, <2>2, AtInit DEF Published, Calm, Same
  <2> QED
    BY <2>1, <2>2, <2>3 DEF CPSteady, Control, Secured, Patched, Complete, Rotated,
           Published, ReadyPC
<1>6. CASE TakeResult
  <2> DEFINE o == [api[CP] EXCEPT !.last = prog]
  <2>1. /\ pc[CP] = "init" /\ job.st # "none" /\ loc' = loc /\ netcfg' = netcfg
        /\ copy' = copy /\ auth' = auth
        /\ \/ pc'[CP] = "fail"
           \/ pc'[CP] = "stamp" /\ tok'[CP] = "perm"
    <3>1. /\ pc[CP] = "init" /\ job.st # "none" /\ loc' = loc /\ netcfg' = netcfg
          /\ copy' = copy /\ auth' = auth
      BY <1>6 DEF TakeResult, ToInit
    <3>2. pc'[CP] = "fail" \/ (pc'[CP] = "stamp" /\ job.st = "ok")
      BY <1>0, <1>6 DEF TakeResult, Goto, TypeOK
    <3>3. job.st = "ok" => tok'[CP] = "perm"
      BY <1>0, <1>6 DEF TakeResult, TypeOK
    <3> QED
      BY <3>1, <3>2, <3>3
  <2>2. \/ Annotate(CP, o) \/ AnnotateLost(CP)
        \/ NoFault /\ api' = api /\ fresh' = fresh
    BY <1>6 DEF TakeResult
  <2>3. Keeps(o, api[CP])
    BY <1>0, KeepsFields
  <2> HIDE DEF o
  <2>4. Writes
    BY <1>0, <2>2, <2>3, AnnotateFacts, KeepsFields DEF Writes
  <2>5. faults' = 0 => faults = 0
    BY <2>2, NoneFailed DEF Annotate, AnnotateLost
  <2>6. CASE pc'[CP] = "fail"
    <3>1. Keeps(loc'[CP], loc[CP])
      BY <1>0, <2>1, KeepsFields
    <3> QED
      BY <2>1, <2>4, <2>5, <2>6, <3>1, QuietCP DEF Calm, CompletePC, ReadyPC
  <2>7. CASE pc'[CP] = "stamp"
    <3> SUFFICES ASSUME Calm'
                 PROVE  /\ Calm /\ CPSteady'
                        /\ Published => Published' /\ netcfg'.used = netcfg.used
      BY DEF CPGood
    <3>1. /\ Calm /\ CPSteady /\ Published' = Published /\ Complete(api'[CP])
          /\ Rotated(api'[CP]) => Published /\ netcfg.jc # "none"
      BY <2>4, <2>5, WriteKeeps DEF Calm
    <3>2. ~Published
      BY <2>1, <3>1 DEF Inv, JobOnly, Published, Calm
    <3> QED
      BY <2>1, <2>7, <3>1, <3>2 DEF CPSteady, Control, Secured, Patched, Complete, Rotated,
             ReadyPC
  <2> QED
    BY <2>1, <2>6, <2>7
<1>7. CASE MarkInitComplete
  <2> DEFINE o == [api[CP] EXCEPT !.last = -1, !.cache = tok[CP]]
  <2>1. /\ pc[CP] = "stamp" /\ loc' = loc /\ netcfg' = netcfg
        /\ copy' = copy /\ auth' = auth /\ tok' = tok /\ pc'[CP] = "repo"
    BY <1>0, <1>7, GotoFacts DEF MarkInitComplete
  <2>2. Annotate(CP, o) \/ AnnotateLost(CP)
    BY <1>7 DEF MarkInitComplete
  <2>3. Keeps(o, api[CP])
    BY <1>0 DEF Keeps, Object
  <2> HIDE DEF o
  <2>4. Writes
    BY <1>0, <2>2, <2>3, AnnotateFacts, KeepsFields DEF Writes
  <2>5. faults' = 0 => faults = 0
    BY <2>2, NoneFailed DEF Annotate, AnnotateLost
  <2> SUFFICES ASSUME Calm'
               PROVE  /\ Calm /\ CPSteady'
                      /\ Published => Published' /\ netcfg'.used = netcfg.used
    BY DEF CPGood
  <2>6. /\ Calm /\ CPSteady /\ Published' = Published /\ Complete(api'[CP])
        /\ Rotated(api'[CP]) => Published /\ netcfg.jc # "none"
    BY <2>4, <2>5, WriteKeeps DEF Calm
  <2> QED
    BY <2>1, <2>6 DEF CPSteady, Control, Secured, Patched, Complete, Rotated, CompletePC,
           ReadyPC
<1> QED
  BY <1>2, <1>3, <1>4, <1>5, <1>6, <1>7

\* While a control plane is live and published, its machine can be reached and has the
\* cluster, so what a reconcile asks of it is done.
LEMMA ClusterAnswers ==
    ASSUME Inv, Connected, Calm, CPSteady, Published
    PROVE  Reachable(CP) /\ KubectlWorks /\ netcfg.exists
<1>1. host[CP] = Phases(CP) /\ netcfg.exists
  BY DEF Inv, Completion, Calm, Published
<1>2. InitPhase \in Phases(CP)
  BY ClusterAssumption DEF Phases, Last
<1> QED
  BY <1>1, <1>2 DEF Connected, Calm, CPSteady, Secured, Reachable, KubectlWorks

LEMMA AtReady ==
    ASSUME Inv, Calm, CPSteady, pc[CP] \in ReadyPC
    PROVE  Published /\ api[CP].phase = "Ready" /\ loc[CP].jc # "none"
BY DEF Inv, Completion, Calm, CPSteady, Control, Complete, Published

\* Through the completion the copy is that of a resource that is not Ready.
LEMMA AtCompletion ==
    ASSUME Inv, Calm, CPSteady, pc[CP] \in CompletePC
    PROVE  ~Published /\ loc[CP].phase # "Ready"
BY DEF Inv, Completion, Calm, CPSteady, Control, Complete, Published

LEMMA CompletionCalm ==
    ASSUME TypeOK, Inv, Calm => CPSteady,
           EnsureRepo \/ CreateNetConfig \/ StampNetConfig \/ PublishJoin \/ ClearInit
    PROVE  CPGood
<1> USE DEF jobVars, secretVars
<1>0. CP \in Node /\ api[CP] \in Object /\ loc[CP] \in Object
  BY CPFacts
<1>1. ASSUME api' = api
      PROVE  Writes
  BY <1>0, <1>1, KeepsFields DEF Writes
<1>2. CASE EnsureRepo
  <2>1. /\ pc[CP] = "repo" /\ api' = api /\ netcfg' = netcfg /\ copy' = copy /\ auth' = auth
        /\ \/ Reachable(CP) /\ Continue(CP, "netconfig")
           \/ Continue(CP, "fail")
        /\ faults' = 0 => faults = 0
    BY <1>2, NoneFailed DEF EnsureRepo, Unreachable, FailsUnless
  <2>2. CASE Continue(CP, "fail")
    BY <1>1, <2>1, <2>2, StopsCalm DEF Calm
  <2>3. CASE Reachable(CP) /\ Continue(CP, "netconfig")
    <3>1. pc'[CP] = "netconfig" /\ loc' = loc /\ tok' = tok
      BY <1>0, <2>3, ContinueFacts DEF Continue
    <3> SUFFICES ASSUME Calm'
                 PROVE  /\ Calm /\ CPSteady'
                        /\ Published => Published' /\ netcfg'.used = netcfg.used
      BY DEF CPGood
    <3>2. Calm /\ CPSteady
      BY <2>1 DEF Calm, Live
    <3>3. copy[CP]
      BY <2>1, <2>3, <3>2 DEF CPSteady, Secured, Reachable
    <3> QED
      BY <2>1, <3>1, <3>2, <3>3 DEF CPSteady, Control, Secured, Patched, Complete, Rotated,
             Published, CompletePC, ReadyPC
  <2> QED
    BY <2>1, <2>2, <2>3
\* The object is written over, and nothing has been put in it yet.
<1>3. CASE CreateNetConfig
  <2>1. /\ pc[CP] = "netconfig" /\ api' = api /\ copy' = copy /\ auth' = auth
        /\ Continue(CP, "netstamp") \/ Continue(CP, "fail")
        /\ faults' = 0 => faults = 0
    BY <1>3, NoneFailed DEF CreateNetConfig
  <2>2. loc' = loc /\ tok' = tok /\ pc'[CP] \in {"netstamp", "fail"}
    BY <1>0, <2>1, ContinueFacts DEF Continue
  <2> SUFFICES ASSUME Calm'
               PROVE  /\ Calm /\ CPSteady'
                      /\ Published => Published' /\ netcfg'.used = netcfg.used
    BY DEF CPGood
  <2>3. Calm /\ CPSteady
    BY <2>1 DEF Calm, Live
  <2>4. ~Published
    BY <2>1, <2>3, AtCompletion DEF CompletePC
  <2> QED
    BY <2>1, <2>2, <2>3, <2>4 DEF CPSteady, Control, Secured, Patched, Complete, Rotated,
           Published, CompletePC, ReadyPC
<1>4. CASE StampNetConfig
  <2> DEFINE o == [api[CP] EXCEPT !.netDone = TRUE]
  <2>1. /\ pc[CP] = "netstamp" /\ loc' = loc /\ tok' = tok /\ netcfg' = netcfg
        /\ copy' = copy /\ auth' = auth
        /\ Goto(CP, IF loc[CP].phase = "Ready" THEN "token" ELSE "publish")
        /\ Annotate(CP, o) \/ AnnotateLost(CP)
    BY <1>4 DEF StampNetConfig, remoteVars
  <2>2. /\ o.netDone /\ o.exists = api[CP].exists /\ o.deleting = api[CP].deleting
        /\ o.phase = api[CP].phase /\ o.jc = api[CP].jc
        /\ o.pkgs = api[CP].pkgs /\ o.stamp = api[CP].stamp
    BY <1>0 DEF Object
  <2> HIDE DEF o
  <2> SUFFICES ASSUME Calm'
               PROVE  /\ Calm /\ CPSteady'
                      /\ Published => Published' /\ netcfg'.used = netcfg.used
    BY DEF CPGood
  <2>3. faults = 0 /\ api[CP].exists /\ api'[CP] = o
    BY <1>0, <2>1, NoneFailed DEF Annotate, AnnotateLost, Calm, Live, TypeOK
  <2>4. Calm /\ CPSteady
    BY <2>2, <2>3 DEF Calm, Live
  <2>5. ~Published /\ loc[CP].phase # "Ready"
    BY <2>1, <2>4, AtCompletion DEF CompletePC
  <2>6. pc'[CP] = "publish"
    BY <1>0, <2>1, <2>5, GotoFacts
  <2> QED
    BY <2>1, <2>2, <2>3, <2>4, <2>5, <2>6 DEF CPSteady, Control, Secured, Patched, Complete,
           Rotated, Published, CompletePC, ReadyPC
<1>5. CASE PublishJoin
  <2> DEFINE o == [api[CP] EXCEPT !.phase = "Ready", !.jc = tok[CP]]
  <2>1. /\ pc[CP] = "publish" /\ netcfg' = netcfg /\ copy' = copy /\ auth' = auth
        /\ \/ Refetched(CP, o) /\ ContinueWith(CP, "clear", o)
           \/ RefetchFails(CP) /\ Return(CP, TRUE)
    BY <1>5 DEF PublishJoin, remoteVars
  <2>2. /\ o.jc = tok[CP] /\ o.exists = api[CP].exists /\ o.deleting = api[CP].deleting
        /\ o.netDone = api[CP].netDone /\ o.pkgs = api[CP].pkgs /\ o.stamp = api[CP].stamp
    BY <1>0 DEF Object
  <2> HIDE DEF o
  <2> SUFFICES ASSUME Calm'
               PROVE  /\ Calm /\ CPSteady'
                      /\ Published => Published' /\ netcfg'.used = netcfg.used
    BY DEF CPGood
  <2>3. /\ faults = 0 /\ api'[CP] = o /\ ContinueWith(CP, "clear", o)
    BY <1>0, <2>1, NoneFailed DEF Refetched, RefetchFails, Calm, Live, TypeOK
  <2>4. pc'[CP] = "clear" /\ loc'[CP] = o
    BY <1>0, <2>3, ContinueWithFacts
  <2>5. Calm /\ CPSteady
    BY <2>2, <2>3 DEF Calm, Live
  <2>6. ~Published /\ tok[CP] # "none" /\ api[CP].netDone /\ copy[CP]
    BY <2>1, <2>5 DEF CPSteady, Control, Secured, CompletePC
  <2> QED
    BY <2>1, <2>2, <2>3, <2>4, <2>5, <2>6 DEF CPSteady, Control, Secured, Patched, Complete,
           Rotated, Published, CompletePC, ReadyPC
<1>6. CASE ClearInit
  <2>1. api' = api \/ api'[CP] = [api[CP] EXCEPT !.cache = "none"]
    BY <1>0, <1>6 DEF ClearInit, RefetchFails, TypeOK
  <2>2. Writes
    BY <1>0, <2>1, KeepsFields DEF Writes
  <2>3. faults' = 0 => faults = 0
    BY <1>6, NoneFailed DEF ClearInit, RefetchFails
  <2> QED
    BY <1>6, <2>2, <2>3, StopsCalm DEF ClearInit, Calm, remoteVars
<1> QED
  BY <1>2, <1>3, <1>4, <1>5, <1>6

LEMMA ReadyCalm ==
    ASSUME TypeOK, Inv, Calm => Connected /\ CPSteady,
           \/ SkipRefresh \/ RefreshToken \/ PatchNetJoin \/ StampRefresh
           \/ Packages \/ MarkPackages
    PROVE  CPGood
<1> USE DEF jobVars, secretVars
<1>0. CP \in Node /\ api[CP] \in Object /\ loc[CP] \in Object
  BY CPFacts
<1>1. ASSUME api' = api
      PROVE  Writes
  BY <1>0, <1>1, KeepsFields DEF Writes
\* To the packages, or on to their stamp, with the token rotated.
<1>2. ASSUME NEW label \in {"packages", "pkgstamp"}, Continue(CP, label), api' = api,
             netcfg' = netcfg, copy' = copy, auth' = auth, faults' = 0 => faults = 0,
             pc[CP] \in ReadyPC,
             Calm /\ CPSteady => netcfg.jc # "none"
      PROVE  CPGood
  <2>1. pc'[CP] = label /\ loc' = loc
    BY <1>0, <1>2, ContinueFacts
  <2> SUFFICES ASSUME Calm'
               PROVE  /\ Calm /\ CPSteady'
                      /\ Published => Published' /\ netcfg'.used = netcfg.used
    BY DEF CPGood
  <2>2. Calm /\ CPSteady
    BY <1>2 DEF Calm, Live
  <2>3. Published
    BY <1>2, <2>2, AtReady
  <2> QED
    BY <1>2, <2>1, <2>2, <2>3 DEF CPSteady, Control, Secured, Patched, Complete, Published,
           CompletePC, ReadyPC
<1>3. CASE SkipRefresh
  <2>1. /\ pc[CP] \in ReadyPC /\ Continue(CP, "packages") /\ api' = api /\ netcfg' = netcfg
        /\ copy' = copy /\ auth' = auth /\ faults' = faults /\ ~NeedsRefresh(loc[CP])
    BY <1>3 DEF SkipRefresh, remoteVars, ReadyPC
  <2>2. ASSUME Calm, CPSteady
        PROVE  netcfg.jc # "none"
    <3>1. loc[CP].stamp = "recent"
      BY <2>1, <2>2, AtReady DEF NeedsRefresh
    <3> QED
      BY <2>2, <3>1 DEF CPSteady, Patched, Rotated
  <2> QED
    BY <1>2, <2>1, <2>2
<1>4. CASE RefreshToken
  <2> DEFINE o == [api[CP] EXCEPT !.jc = "temp"]
             able == Reachable(CP) /\ KubectlWorks
  <2>1. /\ pc[CP] \in ReadyPC /\ netcfg' = netcfg /\ copy' = copy /\ auth' = auth
        /\ \/ Refetched(CP, o) /\ ContinueWith(CP, "netjoin", o)
           \/ ~able /\ NoFault /\ api' = api
           \/ RefetchFails(CP)
    BY <1>4 DEF RefreshToken, remoteVars, ReadyPC
  <2>2. /\ o.jc = "temp" /\ o.exists = api[CP].exists /\ o.deleting = api[CP].deleting
        /\ o.phase = api[CP].phase
        /\ o.netDone = api[CP].netDone /\ o.pkgs = api[CP].pkgs /\ o.stamp = api[CP].stamp
    BY <1>0 DEF Object
  <2> HIDE DEF o
  <2> SUFFICES ASSUME Calm'
               PROVE  /\ Calm /\ CPSteady'
                      /\ Published => Published' /\ netcfg'.used = netcfg.used
    BY DEF CPGood
  <2>3. faults = 0 /\ (api'[CP] = o \/ api' = api)
    BY <1>0, <2>1, NoneFailed DEF Refetched, RefetchFails, Calm, TypeOK
  <2>4. Calm /\ CPSteady
    BY <2>2, <2>3 DEF Calm, Live
  <2>5. Published /\ api[CP].phase = "Ready" /\ able
    BY <2>1, <2>4, AtReady, ClusterAnswers
  <2>6. Refetched(CP, o) /\ ContinueWith(CP, "netjoin", o)
    BY <2>1, <2>4, <2>5, NoneFailed DEF RefetchFails, Calm, Live
  <2>7. api'[CP] = o /\ pc'[CP] = "netjoin" /\ loc'[CP] = o
    BY <1>0, <2>6, ContinueWithFacts DEF Refetched, TypeOK
  <2> QED
    BY <2>1, <2>2, <2>4, <2>5, <2>7 DEF CPSteady, Control, Secured, Patched, Complete,
           Rotated, Published, CompletePC, ReadyPC
\* patchRemoteNetConfigJoinCmd succeeds.
<1>5. CASE PatchNetJoin
  <2>1. /\ pc[CP] = "netjoin" /\ api' = api /\ copy' = copy /\ auth' = auth
        /\ Continue(CP, "tokenstamp") /\ (faults' = 0 => faults = 0)
    BY <1>5, NoneFailed DEF PatchNetJoin
  <2>2. pc'[CP] = "tokenstamp" /\ loc' = loc
    BY <1>0, <2>1, ContinueFacts
  <2> SUFFICES ASSUME Calm'
               PROVE  /\ Calm /\ CPSteady'
                      /\ Published => Published' /\ netcfg'.used = netcfg.used
    BY DEF CPGood
  <2>3. Calm /\ CPSteady
    BY <2>1 DEF Calm, Live
  <2>4. Published /\ KubectlWorks /\ netcfg.exists
    BY <2>1, <2>3, AtReady, ClusterAnswers DEF ReadyPC
  <2>5. netcfg'.jc = "temp" /\ netcfg'.used = netcfg.used
    <3>1. netcfg' = [netcfg EXCEPT !.jc = "temp"]
      BY <1>5, <2>4, NoneFailed DEF PatchNetJoin, Calm
    <3> QED
      BY <3>1 DEF TypeOK
  <2> QED
    BY <2>1, <2>2, <2>3, <2>4, <2>5 DEF CPSteady, Control, Secured, Patched, Complete,
           Published, CompletePC, ReadyPC
<1>6. CASE StampRefresh
  <2> DEFINE o == [api[CP] EXCEPT !.stamp = "recent"]
  <2>1. /\ pc[CP] = "tokenstamp" /\ netcfg' = netcfg /\ copy' = copy /\ auth' = auth
        /\ loc' = loc /\ Goto(CP, "packages")
        /\ Annotate(CP, o) \/ AnnotateLost(CP)
    BY <1>6 DEF StampRefresh, remoteVars
  <2>2. /\ o.jc = api[CP].jc /\ o.exists = api[CP].exists /\ o.deleting = api[CP].deleting
        /\ o.phase = api[CP].phase /\ o.netDone = api[CP].netDone
    BY <1>0 DEF Object
  <2> HIDE DEF o
  <2> SUFFICES ASSUME Calm'
               PROVE  /\ Calm /\ CPSteady'
                      /\ Published => Published' /\ netcfg'.used = netcfg.used
    BY DEF CPGood
  <2>3. faults = 0 /\ api[CP].exists /\ api'[CP] = o
    BY <1>0, <2>1, NoneFailed DEF Annotate, AnnotateLost, Calm, Live, TypeOK
  <2>4. Calm /\ CPSteady /\ pc'[CP] = "packages"
    BY <1>0, <2>1, <2>2, <2>3, GotoFacts DEF Calm, Live
  <2>5. Published /\ netcfg.jc # "none"
    BY <2>1, <2>4 DEF CPSteady, Patched
  <2> QED
    BY <2>1, <2>2, <2>3, <2>4, <2>5 DEF CPSteady, Control, Secured, Patched, Complete,
           Published, CompletePC, ReadyPC
<1>7. CASE Packages
  <2>1. /\ pc[CP] = "packages" /\ api' = api /\ netcfg' = netcfg /\ copy' = copy
        /\ auth' = auth /\ (faults' = 0 => faults = 0)
        /\ Return(CP, TRUE) \/ Continue(CP, "pkgstamp") \/ Continue(CP, "fail")
    BY <1>7, NoneFailed DEF Packages, remoteVars
  <2>2. CASE Continue(CP, "pkgstamp")
    BY <1>2, <2>1, <2>2 DEF ReadyPC, CPSteady, Patched
  <2>3. CASE ~Continue(CP, "pkgstamp")
    BY <1>1, <2>1, <2>3, StopsCalm DEF Calm
  <2> QED
    BY <2>2, <2>3
<1>8. CASE MarkPackages
  <2> DEFINE o == [api[CP] EXCEPT !.pkgs = TRUE]
  <2>1. /\ pc[CP] = "pkgstamp" /\ netcfg' = netcfg /\ copy' = copy /\ auth' = auth
        /\ Refetched(CP, o) \/ RefetchFails(CP)
        /\ Return(CP, FALSE) \/ Return(CP, TRUE)
    BY <1>8 DEF MarkPackages, remoteVars
  <2>2. /\ o.jc = api[CP].jc /\ o.exists = api[CP].exists /\ o.deleting = api[CP].deleting
        /\ o.phase = api[CP].phase /\ o.netDone = api[CP].netDone
    BY <1>0 DEF Object
  <2> HIDE DEF o
  <2> SUFFICES ASSUME Calm'
               PROVE  /\ Calm /\ CPSteady'
                      /\ Published => Published' /\ netcfg'.used = netcfg.used
    BY DEF CPGood
  <2>3. faults = 0 /\ (api'[CP] = o \/ api' = api)
    BY <1>0, <2>1, NoneFailed DEF Refetched, RefetchFails, Calm, TypeOK
  <2>4. Calm /\ CPSteady
    BY <2>2, <2>3 DEF Calm, Live
  <2>5. Published /\ netcfg.jc # "none"
    BY <2>1, <2>4 DEF CPSteady, Patched
  <2>6. pc'[CP] = "idle" /\ loc'[CP] = NoObject
    BY <1>0, <2>1, ReturnFacts DEF Return, TypeOK
  <2> QED
    BY <2>1, <2>2, <2>3, <2>4, <2>5, <2>6, NothingRotated DEF CPSteady, Control, Secured,
           Patched, Complete, Published, CompletePC, ReadyPC
<1> QED
  BY <1>3, <1>4, <1>5, <1>6, <1>7, <1>8

-----------------------------------------------------------------------------
(* What a reconcile leaves alone, and the workers.                         *)

CtlRest(n) == \A m \in Node \ {n} : pc'[m] = pc[m] /\ loc'[m] = loc[m] /\ tok'[m] = tok[m]

ApiRest(n) == \A m \in Node \ {n} : api'[m] = api[m]

SecretRest(n) == \A m \in Node \ {n} : auth'[m] = auth[m] /\ copy'[m] = copy[m]

LEMMA ControlRest ==
    ASSUME TypeOK, NEW n \in Node, NEW r, NEW label, NEW o,
           \/ Return(n, r) \/ Continue(n, label) \/ ContinueWith(n, label, o)
           \/ Goto(n, label) /\ loc' = loc /\ tok' = tok
           \/ Goto(n, label) /\ loc' = [loc EXCEPT ![n] = o] /\ tok' = tok
           \/ Goto(n, label) /\ loc' = loc /\ tok' = [tok EXCEPT ![n] = o]
    PROVE  CtlRest(n)
<1>1. CASE Return(n, r)
  BY <1>1 DEF Return, Goto, CtlRest, TypeOK
<1>2. CASE Continue(n, label) \/ ContinueWith(n, label, o)
  BY <1>2 DEF Continue, ContinueWith, Goto, CtlRest, TypeOK
<1>3. CASE ~Return(n, r) /\ ~Continue(n, label) /\ ~ContinueWith(n, label, o)
  BY <1>3 DEF Goto, CtlRest, TypeOK
<1> QED
  BY <1>1, <1>2, <1>3

LEMMA WriteRest ==
    ASSUME TypeOK, NEW n \in Node, NEW o,
           \/ Commit(n, o) \/ Lost(n) \/ Annotate(n, o) \/ AnnotateLost(n)
           \/ Refetched(n, o) \/ RefetchFails(n) \/ api' = api
           \/ api' = [api EXCEPT ![n] = o]
    PROVE  ApiRest(n)
BY DEF Commit, Lost, Annotate, AnnotateLost, Refetched, RefetchFails, ApiRest, TypeOK

LEMMA SecretsKept ==
    ASSUME NEW n, auth' = auth, copy' = copy
    PROVE  SecretRest(n)
BY DEF SecretRest

LEMMA CommonRest ==
    ASSUME TypeOK, NEW n \in Node,
           \/ Start(n) \/ AddFinalizer(n) \/ ProtectSecrets(n) \/ MarkProvisioning(n)
           \/ Fail(n) \/ ResetHost(n) \/ RemovePeer(n) \/ ReleaseSecrets(n)
           \/ RemoveFinalizer(n)
    PROVE  CtlRest(n) /\ ApiRest(n) /\ SecretRest(n)
<1> USE DEF secretVars
<1>1. CASE Start(n)
  <2>1. CtlRest(n)
    BY <1>1 DEF Start, Goto, CtlRest, TypeOK
  <2> QED
    BY <1>1, <2>1, WriteRest, SecretsKept DEF Start
<1>2. CASE AddFinalizer(n) \/ Fail(n)
  BY <1>2, ControlRest, WriteRest, SecretsKept DEF AddFinalizer, Fail
<1>3. CASE MarkProvisioning(n)
  <2>1. CtlRest(n)
    BY <1>3 DEF MarkProvisioning, Goto, CtlRest, TypeOK
  <2> QED
    BY <1>3, <2>1, WriteRest, SecretsKept DEF MarkProvisioning
<1>4. CASE ProtectSecrets(n)
  <2>1. CtlRest(n) /\ ApiRest(n)
    BY <1>4, ControlRest, WriteRest DEF ProtectSecrets
  <2>2. SecretRest(n)
    BY <1>4 DEF ProtectSecrets, SecretRest, TypeOK
  <2> QED
    BY <2>1, <2>2
<1>5. CASE ResetHost(n)
  BY <1>5, ControlRest, WriteRest, SecretsKept DEF ResetHost
<1>6. CASE RemovePeer(n)
  <2>1. CtlRest(n)
    BY <1>6 DEF RemovePeer, Goto, CtlRest, TypeOK
  <2> QED
    BY <1>6, <2>1, WriteRest, SecretsKept DEF RemovePeer
<1>7. CASE ReleaseSecrets(n)
  <2>1. CtlRest(n) /\ ApiRest(n)
    BY <1>7, ControlRest, WriteRest DEF ReleaseSecrets
  <2>2. SecretRest(n)
    BY <1>7 DEF ReleaseSecrets, SecretRest, TypeOK
  <2> QED
    BY <2>1, <2>2
<1>8. CASE RemoveFinalizer(n)
  <2>1. CtlRest(n) /\ ApiRest(n)
    BY <1>8, ControlRest, WriteRest DEF RemoveFinalizer
  <2>2. SecretRest(n)
    BY <1>8 DEF RemoveFinalizer, SecretRest, TypeOK
  <2> QED
    BY <2>1, <2>2
<1> QED
  BY <1>1, <1>2, <1>3, <1>4, <1>5, <1>6, <1>7, <1>8

LEMMA ControlPlaneRest ==
    ASSUME TypeOK, ReconcileCP
    PROVE  /\ CtlRest(CP) /\ ApiRest(CP)
           /\ tunnel' = tunnel /\ teardown' = teardown
<1> USE DEF remoteVars
<1>0. CP \in Node
  BY DEF Node
<1>1. tunnel' = tunnel /\ teardown' = teardown
  BY DEF ReconcileCP, AlreadyInitialised, ResumeCompletion, StartJob, FlushProgress,
         TakeResult, MarkInitComplete, EnsureRepo, CreateNetConfig, StampNetConfig,
         PublishJoin, ClearInit, SkipRefresh, RefreshToken, PatchNetJoin, StampRefresh,
         Packages, MarkPackages
<1>2. CASE AlreadyInitialised \/ StartJob
  BY <1>0, <1>1, <1>2, ControlRest, WriteRest DEF AlreadyInitialised, StartJob
<1>3. CASE ResumeCompletion
  BY <1>0, <1>1, <1>3, ControlRest, WriteRest DEF ResumeCompletion
<1>4. CASE FlushProgress
  <2>1. ApiRest(CP)
    BY <1>0, <1>4 DEF FlushProgress, ApiRest, TypeOK
  <2> QED
    BY <1>0, <1>1, <1>4, <2>1, ControlRest DEF FlushProgress
<1>5. CASE TakeResult
  <2>1. \E o : Annotate(CP, o) \/ AnnotateLost(CP) \/ api' = api
    BY <1>5 DEF TakeResult
  <2>2. CtlRest(CP)
    BY <1>0, <1>5 DEF TakeResult, Goto, CtlRest, TypeOK
  <2> QED
    BY <1>0, <1>1, <2>1, <2>2, WriteRest
<1>6. CASE MarkInitComplete \/ StampNetConfig \/ StampRefresh
  <2>1. \E o : Annotate(CP, o) \/ AnnotateLost(CP)
    BY <1>6 DEF MarkInitComplete, StampNetConfig, StampRefresh
  <2>2. CtlRest(CP)
    BY <1>0, <1>6, ControlRest DEF MarkInitComplete, StampNetConfig, StampRefresh
  <2> QED
    BY <1>0, <1>1, <2>1, <2>2, WriteRest
<1>7. CASE EnsureRepo \/ CreateNetConfig \/ SkipRefresh \/ PatchNetJoin \/ Packages
  BY <1>0, <1>1, <1>7, ControlRest, WriteRest
     DEF EnsureRepo, CreateNetConfig, SkipRefresh, PatchNetJoin, Packages
<1>8. CASE PublishJoin \/ MarkPackages
  BY <1>0, <1>1, <1>8, ControlRest, WriteRest DEF PublishJoin, MarkPackages
<1>9. CASE ClearInit
  <2>1. ApiRest(CP)
    BY <1>0, <1>9 DEF ClearInit, RefetchFails, ApiRest, TypeOK
  <2> QED
    BY <1>0, <1>1, <1>9, <2>1, ControlRest DEF ClearInit
<1>10. CASE RefreshToken
  <2>1. \/ \E o : Refetched(CP, o) \/ RefetchFails(CP)
        \/ api' = api
    BY <1>10 DEF RefreshToken
  <2>2. \E o : ContinueWith(CP, "netjoin", o) \/ Continue(CP, "packages")
    BY <1>10 DEF RefreshToken
  <2> QED
    BY <1>0, <1>1, <2>1, <2>2, ControlRest, WriteRest
<1> QED
  BY <1>2, <1>3, <1>4, <1>5, <1>6, <1>7, <1>8, <1>9, <1>10 DEF ReconcileCP

\* The control plane's part is kept, and the workers' reconciles are where they were.
LEMMA ControlPlaneCalm ==
    ASSUME CalmInv, CPGood, CtlRest(CP), ApiRest(CP),
           Calm' => tunnel' = tunnel /\ teardown' = teardown
    PROVE  CalmInv'
<1> SUFFICES ASSUME Calm'
             PROVE  Connected' /\ CPSteady' /\ \A w \in Worker : Recorded(w)'
  BY DEF CalmInv
<1>1. /\ Calm /\ Connected /\ CPSteady /\ CPSteady'
      /\ Published => Published' /\ netcfg'.used = netcfg.used
  BY DEF CalmInv, CPGood
<1>2. ASSUME NEW w \in Worker
      PROVE  Recorded(w)'
  <2>1. w \in Node \ {CP} /\ Recorded(w)
    BY <1>1, ClusterAssumption DEF Node, CalmInv
  <2>2. api'[w] = api[w] /\ pc'[w] = pc[w] /\ loc'[w] = loc[w]
    BY <2>1 DEF CtlRest, ApiRest
  <2> QED
    BY <1>1, <2>1, <2>2 DEF Recorded
<1> QED
  BY <1>1, <1>2 DEF Connected

\* A worker's step keeps its own part, and of the NetConfig what is there.
LEMMA WorkerCalm ==
    ASSUME CalmInv, NEW w \in Worker, CtlRest(w), ApiRest(w), SecretRest(w),
           Calm' => /\ faults = 0 /\ netcfg'.jc = netcfg.jc /\ netcfg.used \subseteq netcfg'.used
                    /\ tunnel \ {w} \subseteq tunnel' /\ teardown' \subseteq teardown \cup {w},
           Calm /\ Calm' => Recorded(w)'
    PROVE  CalmInv'
<1> SUFFICES ASSUME Calm'
             PROVE  Connected' /\ CPSteady' /\ \A v \in Worker : Recorded(v)'
  BY DEF CalmInv
<1>1. CP \in Node \ {w} /\ CP # w
  BY ClusterAssumption DEF Node
<1>2. /\ api'[CP] = api[CP] /\ pc'[CP] = pc[CP] /\ loc'[CP] = loc[CP] /\ tok'[CP] = tok[CP]
      /\ auth'[CP] = auth[CP] /\ copy'[CP] = copy[CP]
  BY <1>1 DEF CtlRest, ApiRest, SecretRest
<1>3. Calm /\ Published' = Published
  BY <1>2 DEF Calm, Live, Published
<1>4. Connected /\ CPSteady /\ \A v \in Worker : Recorded(v)
  BY <1>3 DEF CalmInv
<1>5. Connected'
  BY <1>1, <1>4 DEF Connected
<1>6. CPSteady'
  BY <1>2, <1>3, <1>4 DEF CPSteady, Control, Secured, Patched
<1>7. ASSUME NEW v \in Worker, v # w
      PROVE  Recorded(v)'
  <2>1. v \in Node \ {w}
    BY <1>7 DEF Node
  <2>2. api'[v] = api[v] /\ pc'[v] = pc[v] /\ loc'[v] = loc[v]
    BY <2>1 DEF CtlRest, ApiRest
  <2> QED
    BY <1>3, <1>4, <2>2 DEF Recorded
<1> QED
  BY <1>3, <1>5, <1>6, <1>7

\* The worker is not made Ready, nor taken on in its parent's cluster.
LEMMA QuietWorker ==
    ASSUME CalmInv, NEW w \in Worker, CtlRest(w), ApiRest(w), SecretRest(w),
           Calm' => faults = 0, netcfg' = netcfg,
           tunnel \ {w} \subseteq tunnel', teardown' \subseteq teardown \cup {w},
           pc[w] # "record" \/ pc'[w] = "record",
           api'[w].phase = "Ready" \/ loc'[w].phase = "Ready"
               => api[w].phase = "Ready" \/ loc[w].phase = "Ready",
           pc'[w] \in ParentPC => pc[w] \in ParentPC
    PROVE  CalmInv'
<1>1. ASSUME Calm, Calm'
      PROVE  Recorded(w)'
  <2>1. Recorded(w)
    BY <1>1 DEF CalmInv
  <2>2. CP \in Node \ {w}
    BY ClusterAssumption DEF Node
  <2>3. Published' = Published
    BY <2>2 DEF ApiRest, Published
  <2> QED
    BY <2>1, <2>3 DEF Recorded, ParentPC
<1> QED
  BY <1>1, WorkerCalm

LEMMA WorkerCommonCalm ==
    ASSUME TypeOK, Inv, CalmInv, NEW w \in Worker,
           \/ Start(w) \/ AddFinalizer(w) \/ ProtectSecrets(w) \/ MarkProvisioning(w)
           \/ Fail(w) \/ ResetHost(w) \/ RemovePeer(w) \/ ReleaseSecrets(w)
           \/ RemoveFinalizer(w)
    PROVE  CalmInv'
<1> USE DEF remoteVars
<1>0. /\ w \in Node /\ w # CP /\ api[w] \in Object /\ loc[w] \in Object
      /\ CtlRest(w) /\ ApiRest(w) /\ SecretRest(w)
  BY CommonRest, ClusterAssumption DEF Node, TypeOK
<1>1. faults' = 0 => faults = 0
  BY NoneFailed DEF Start, AddFinalizer, ProtectSecrets, MarkProvisioning, Fail, ResetHost,
     RemovePeer, ReleaseSecrets, RemoveFinalizer, Commit, Lost, Unreachable, FailsUnless
<1>2. /\ netcfg' = netcfg /\ tunnel \ {w} \subseteq tunnel'
      /\ teardown' \subseteq teardown \cup {w}
  BY <1>0 DEF Start, AddFinalizer, ProtectSecrets, MarkProvisioning, Fail, ResetHost,
     RemovePeer, ReleaseSecrets, RemoveFinalizer
<1>3. CASE Start(w)
  <2>1. CASE api[w].exists /\ Dispatch(api[w]) # "idle"
    <3>1. /\ api' = api /\ loc'[w] = api[w] /\ pc'[w] = Dispatch(api[w]) /\ pc[w] = "idle"
      BY <1>0, <1>3, <2>1, GotoFacts DEF Start, TypeOK
    <3> QED
      BY <1>0, <1>1, <1>2, <3>1, QuietWorker DEF Dispatch, ParentPC, Calm
  <2>2. CASE ~(api[w].exists /\ Dispatch(api[w]) # "idle")
    <3>1. api' = api /\ loc' = loc /\ pc' = pc
      BY <1>3, <2>2 DEF Start
    <3> QED
      BY <1>0, <1>1, <1>2, <3>1, QuietWorker DEF Calm
  <2> QED
    BY <2>1, <2>2
<1>4. ASSUME NEW o, o.phase = "Ready" => loc[w].phase = "Ready", NEW r,
             Commit(w, o) \/ Lost(w), Return(w, r), pc[w] # "record"
      PROVE  CalmInv'
  <2>1. pc'[w] = "idle" /\ loc'[w] = NoObject
    BY <1>0, <1>4, ReturnFacts DEF Return, TypeOK
  <2>2. api'[w] = o \/ api'[w] = api[w]
    BY <1>0, <1>4, CommitFacts
  <2> QED
    BY <1>0, <1>1, <1>2, <1>4, <2>1, <2>2, NoObjectFields, QuietWorker DEF ParentPC, Calm
<1>5. CASE AddFinalizer(w)
  <2>1. [loc[w] EXCEPT !.finalizer = TRUE].phase = loc[w].phase
    BY <1>0, SameFinalizer
  <2> QED
    BY <1>4, <1>5, <2>1 DEF AddFinalizer
<1>6. CASE Fail(w)
  <2>1. [loc[w] EXCEPT !.phase = "Failed"].phase = "Failed"
    BY <1>0, SamePhase
  <2> QED
    BY <1>4, <1>6, <2>1 DEF Fail
<1>7. CASE ProtectSecrets(w)
  <2>1. /\ api' = api /\ pc[w] = "protect"
        /\ Return(w, FALSE) \/ (Continue(w, AfterProtect(w)) /\ AfterProtect(w) # "idle")
    BY <1>7 DEF ProtectSecrets
  <2>2. AfterProtect(w) \in {"provision", "idle"}
    BY <1>0 DEF AfterProtect
  <2>3. pc'[w] \in {"provision", "idle"} /\ loc'[w] \in {loc[w], NoObject}
    <3>1. CASE Return(w, FALSE)
      BY <1>0, <3>1, ReturnFacts DEF Return, TypeOK
    <3>2. CASE Continue(w, AfterProtect(w))
      BY <1>0, <2>2, <3>2, ContinueFacts
    <3> QED
      BY <2>1, <3>1, <3>2
  <2> QED
    BY <1>0, <1>1, <1>2, <2>1, <2>3, NoObjectFields, QuietWorker DEF ParentPC, Calm
<1>8. CASE MarkProvisioning(w)
  <2> DEFINE o == [loc[w] EXCEPT !.phase = "Provisioning"]
  <2>1. /\ pc[w] = "provision" /\ (Commit(w, o) \/ Lost(w)) /\ loc'[w] = o
        /\ pc'[w] = "connect"
    BY <1>0, <1>8, GotoFacts DEF MarkProvisioning, TypeOK
  <2>2. o.phase = "Provisioning"
    BY <1>0, SamePhase
  <2> HIDE DEF o
  <2>3. api'[w] = o \/ api'[w] = api[w]
    BY <1>0, <2>1, CommitFacts
  <2> QED
    BY <1>0, <1>1, <1>2, <2>1, <2>2, <2>3, QuietWorker DEF ParentPC, Calm
<1>9. CASE ResetHost(w) \/ ReleaseSecrets(w)
  <2>1. /\ api' = api /\ pc[w] # "record"
        /\ Continue(w, "unpeer") \/ Continue(w, "unfinalize")
    BY <1>9 DEF ResetHost, ReleaseSecrets
  <2>2. loc' = loc /\ pc'[w] \in {"unpeer", "unfinalize"}
    BY <1>0, <2>1, ContinueFacts
  <2> QED
    BY <1>0, <1>1, <1>2, <2>1, <2>2, QuietWorker DEF ParentPC, Calm
<1>10. CASE RemovePeer(w)
  <2>1. \E v : loc'[w] = [loc[w] EXCEPT !.vpnRef = v]
    BY <1>0, <1>10 DEF RemovePeer, TypeOK
  <2>2. loc'[w].phase = loc[w].phase
    BY <1>0, <2>1, SameVPNRef
  <2>3. pc'[w] = "release" /\ pc[w] # "record" /\ api' = api
    BY <1>0, <1>10, GotoFacts DEF RemovePeer
  <2> QED
    BY <1>0, <1>1, <1>2, <2>2, <2>3, QuietWorker DEF ParentPC, Calm
<1>11. CASE RemoveFinalizer(w)
  <2>1. /\ pc[w] # "record" /\ (Commit(w, NoObject) \/ Lost(w))
        /\ Return(w, FALSE) \/ Return(w, TRUE)
    BY <1>11 DEF RemoveFinalizer
  <2> QED
    BY <1>4, <1>11, NoObjectFields DEF RemoveFinalizer
<1> QED
  BY <1>3, <1>5, <1>6, <1>7, <1>8, <1>9, <1>10, <1>11

LEMMA ReconcileWorkerCalm ==
    ASSUME TypeOK, Inv, CalmInv, NEW w \in Worker, ReconcileWorker(w)
    PROVE  CalmInv'
<1> USE DEF remoteVars
<1>0. w \in Node /\ w # CP /\ api[w] \in Object /\ loc[w] \in Object
  BY ClusterAssumption DEF Node, TypeOK
<1>1. /\ faults' = 0 => faults = 0
      /\ SecretRest(w) /\ tunnel' = tunnel /\ teardown' = teardown
  <2>1. faults' = 0 => faults = 0
    BY NoneFailed DEF ReconcileWorker, Connect, SyncVPN, PrepareJoin, JoinPhase, NameNode,
       MarkJoined, WorkerReady, RecordAddress, Unreachable, FailsUnless, Refetched,
       RefetchFails, Commit, Lost, Annotate, AnnotateLost
  <2>2. auth' = auth /\ copy' = copy /\ tunnel' = tunnel /\ teardown' = teardown
    BY DEF ReconcileWorker, Connect, SyncVPN, PrepareJoin, JoinPhase, NameNode, MarkJoined,
       WorkerReady, RecordAddress, secretVars
  <2> QED
    BY <2>1, <2>2, SecretsKept
<1>2. CASE Connect(w) \/ NameNode(w)
  <2>1. /\ api' = api /\ netcfg' = netcfg /\ pc[w] \in {"connect", "join"}
        /\ \/ Continue(w, "sync") \/ Continue(w, "fail")
           \/ Continue(w, "mark") /\ pc[w] = "join"
    BY <1>2 DEF Connect, NameNode
  <2>2. CtlRest(w) /\ ApiRest(w)
    BY <1>0, <2>1, ControlRest, WriteRest
  <2>3. loc' = loc /\ (pc'[w] \in {"sync", "fail"} \/ (pc'[w] = "mark" /\ pc[w] = "join"))
    BY <1>0, <2>1, ContinueFacts
  <2> QED
    BY <1>1, <2>1, <2>2, <2>3, QuietWorker DEF ParentPC, Calm
<1>3. CASE PrepareJoin(w)
  <2>1. /\ api' = api /\ netcfg' = netcfg /\ pc[w] = "prepare"
        /\ \/ Goto(w, "join") /\ loc' = loc /\ tok' = tok
           \/ Continue(w, "fail")
    BY <1>3 DEF PrepareJoin
  <2>2. CtlRest(w) /\ ApiRest(w)
    BY <1>0, <2>1, ControlRest, WriteRest
  <2>3. loc' = loc /\ pc'[w] \in {"join", "fail"}
    BY <1>0, <2>1, GotoFacts, ContinueFacts
  <2> QED
    BY <1>1, <2>1, <2>2, <2>3, QuietWorker DEF ParentPC, Calm
<1>4. CASE JoinPhase(w)
  <2> DEFINE o == [api[w] EXCEPT !.last = at[w]]
  <2>1. /\ netcfg' = netcfg /\ pc[w] = "join" /\ loc' = loc /\ tok' = tok
        /\ pc' = pc \/ Goto(w, "fail")
        /\ Annotate(w, o) \/ AnnotateLost(w) \/ api' = api
    BY <1>4 DEF JoinPhase
  <2>2. o.phase = api[w].phase
    BY <1>0, LastFields
  <2> HIDE DEF o
  <2>3. api'[w].phase = api[w].phase
    BY <1>0, <2>1, <2>2, AnnotateFacts
  <2>4. pc'[w] \in {"join", "fail"} /\ CtlRest(w) /\ ApiRest(w)
    <3>1. ApiRest(w)
      BY <1>0, <2>1, WriteRest
    <3>2. CASE pc' = pc
      BY <2>1, <3>1, <3>2 DEF CtlRest
    <3>3. CASE Goto(w, "fail")
      BY <1>0, <2>1, <3>1, <3>3, GotoFacts, ControlRest
    <3> QED
      BY <2>1, <3>2, <3>3
  <2> QED
    BY <1>1, <2>1, <2>3, <2>4, QuietWorker DEF ParentPC, Calm
<1>5. CASE MarkJoined(w)
  <2> DEFINE o == [api[w] EXCEPT !.joined = TRUE, !.last = -1]
  <2>1. /\ netcfg' = netcfg /\ pc[w] = "mark"
        /\ \/ Refetched(w, o) /\ ContinueWith(w, "ready", o)
           \/ RefetchFails(w) /\ Return(w, TRUE)
    BY <1>5 DEF MarkJoined
  <2>2. o.phase = api[w].phase
    BY <1>0 DEF Object
  <2> HIDE DEF o
  <2>3. CtlRest(w) /\ ApiRest(w) /\ (api'[w] = o \/ api'[w] = api[w])
    BY <1>0, <2>1, ControlRest, WriteRest, RefetchFacts
  <2>4. \/ pc'[w] = "ready" /\ loc'[w] = o
        \/ pc'[w] = "idle" /\ loc'[w] = NoObject
    <3>1. CASE ContinueWith(w, "ready", o)
      BY <1>0, <3>1, ContinueWithFacts
    <3>2. CASE Return(w, TRUE)
      BY <1>0, <3>2, ReturnFacts DEF Return, TypeOK
    <3> QED
      BY <2>1, <3>1, <3>2
  <2> QED
    BY <1>1, <2>1, <2>2, <2>3, <2>4, NoObjectFields, QuietWorker DEF ParentPC, Calm
\* The parent is Ready and has a join command.
<1>6. CASE SyncVPN(w)
  <2> DEFINE o == [api[w] EXCEPT !.vpnRef = TRUE]
  <2>1. /\ pc[w] = "sync" /\ netcfg' = netcfg
        /\ Refetched(w, o) \/ api' = api
        /\ Return(w, TRUE) \/ AfterSync(w, loc[w], fresh[w]) \/ AfterSync(w, o, TRUE)
    BY <1>6 DEF SyncVPN
  <2>2. o.phase = api[w].phase
    BY <1>0, SameVPNRef
  <2> HIDE DEF o
  <2>3. ApiRest(w) /\ (api'[w] = o \/ api'[w] = api[w])
    BY <1>0, <2>1, WriteRest, RefetchFacts
  <2>4. ASSUME NEW p \in {loc[w], o}, NEW newest, AfterSync(w, p, newest)
        PROVE  CtlRest(w) /\ (pc'[w] = "idle" \/ (pc'[w] = "prepare" /\ Published))
               /\ loc'[w] \in {NoObject, loc[w], o}
    <3>1. CASE \E r \in BOOLEAN : Return(w, r)
      BY <1>0, <3>1, ReturnFacts, ControlRest DEF Return, TypeOK
    <3>2. CASE ~\E r \in BOOLEAN : Return(w, r)
      <4>1. /\ Goto(w, "prepare") /\ loc' = [loc EXCEPT ![w] = p]
            /\ \E cmd : tok' = [tok EXCEPT ![w] = cmd]
            /\ api[CP].jc # "none"
        BY <2>4, <3>2 DEF AfterSync
      <4>2. loc'[w] = p /\ pc'[w] = "prepare" /\ CtlRest(w)
        BY <1>0, <4>1 DEF Goto, CtlRest, TypeOK
      <4> QED
        BY <4>1, <4>2 DEF Published
    <3> QED
      BY <3>1, <3>2
  <2>5. /\ CtlRest(w) /\ (pc'[w] = "idle" \/ (pc'[w] = "prepare" /\ Published))
        /\ loc'[w] \in {NoObject, loc[w], o}
    <3>1. CASE Return(w, TRUE)
      BY <1>0, <3>1, ReturnFacts, ControlRest DEF Return, TypeOK
    <3> QED
      BY <2>1, <2>4, <3>1
  <2>6. ASSUME Calm, Calm'
        PROVE  Recorded(w)'
    <3>1. Recorded(w)
      BY <2>6 DEF CalmInv
    <3>2. CP \in Node \ {w}
      BY <1>0 DEF Node
    <3>3. Published' = Published
      BY <2>3, <3>2 DEF ApiRest, Published
    <3>4. api'[w].phase = "Ready" \/ loc'[w].phase = "Ready"
             => api[w].phase = "Ready" \/ loc[w].phase = "Ready"
      BY <2>2, <2>3, <2>5, NoObjectFields
    <3> QED
      BY <2>1, <2>5, <3>1, <3>3, <3>4 DEF Recorded, ParentPC
  <2> QED
    BY <1>1, <2>1, <2>3, <2>5, <2>6, WorkerCalm DEF Calm
\* A Ready worker goes on to be recorded.
<1>7. CASE WorkerReady(w)
  <2> DEFINE o == [loc[w] EXCEPT !.phase = "Ready"]
  <2>1. /\ pc[w] = "ready" /\ netcfg' = netcfg
        /\ \/ Commit(w, o) /\ ContinueWith(w, "record", o)
           \/ Lost(w) /\ Return(w, TRUE)
    BY <1>7 DEF WorkerReady
  <2> HIDE DEF o
  <2>2. CtlRest(w) /\ ApiRest(w)
    BY <1>0, <2>1, ControlRest, WriteRest
  <2>3. CASE Commit(w, o) /\ ContinueWith(w, "record", o)
    <3>1. pc'[w] = "record"
      BY <1>0, <2>3, ContinueWithFacts
    <3>2. ASSUME Calm, Calm'
          PROVE  Recorded(w)'
      <4>1. Recorded(w) /\ CP \in Node \ {w}
        BY <1>0, <3>2 DEF CalmInv, Node
      <4>2. Published' = Published
        BY <2>2, <4>1 DEF ApiRest, Published
      <4> QED
        BY <2>1, <3>1, <4>1, <4>2 DEF Recorded, ParentPC
    <3> QED
      BY <1>1, <2>1, <2>2, <3>2, WorkerCalm DEF Calm
  <2>4. CASE Lost(w) /\ Return(w, TRUE)
    <3>1. pc'[w] = "idle" /\ loc'[w] = NoObject /\ api' = api
      BY <1>0, <2>4, ReturnFacts DEF Return, Lost, TypeOK
    <3> QED
      BY <1>1, <2>1, <2>2, <3>1, NoObjectFields, QuietWorker DEF ParentPC, Calm
  <2> QED
    BY <2>1, <2>3, <2>4
\* With the control plane there and no call failing, the address is recorded.
<1>8. CASE RecordAddress(w)
  <2> DEFINE able == KubectlWorks /\ netcfg.exists
  <2>1. /\ pc[w] = "record" /\ api' = api
        /\ \/ /\ Return(w, FALSE) /\ netcfg' = [netcfg EXCEPT !.used = @ \cup {w}]
           \/ FailsUnless(able) /\ netcfg' = netcfg /\ Continue(w, "fail")
    BY <1>8 DEF RecordAddress
  <2>2. CtlRest(w) /\ ApiRest(w)
    BY <1>0, <2>1, ControlRest, WriteRest
  <2>3. netcfg'.jc = netcfg.jc /\ netcfg.used \subseteq netcfg'.used
    BY <2>1 DEF TypeOK
  <2>4. ASSUME Calm, Calm'
        PROVE  Recorded(w)'
    <3>1. Recorded(w) /\ Published /\ CP \in Node \ {w}
      BY <1>0, <2>1, <2>4 DEF CalmInv, Recorded, ParentPC, Node
    <3>2. able
      BY <2>4, <3>1, ClusterAnswers DEF CalmInv
    <3>3. /\ netcfg' = [netcfg EXCEPT !.used = @ \cup {w}] /\ Return(w, FALSE)
      BY <2>1, <2>4, <3>2, NoneFailed DEF FailsUnless, Calm
    <3>4. w \in netcfg'.used
      BY <3>3 DEF TypeOK
    <3>5. Published'
      BY <2>1, <3>1 DEF Published
    <3>6. pc'[w] = "idle"
      BY <1>0, <3>3, ReturnFacts
    <3> QED
      BY <3>4, <3>5, <3>6 DEF Recorded, ParentPC
  <2> QED
    BY <1>1, <2>2, <2>3, <2>4, WorkerCalm DEF Calm
<1> QED
  BY <1>2, <1>3, <1>4, <1>5, <1>6, <1>7, <1>8 DEF ReconcileWorker

-----------------------------------------------------------------------------
(* The goroutine, the environment and all steps together.                  *)

\* The goroutine runs before anything is published, so the cluster it takes away has
\* nobody in it yet.
LEMMA JobCalm ==
    ASSUME TypeOK, Inv, CalmInv, Job
    PROVE  CalmInv'
<1> USE DEF ctlVars, remoteVars, secretVars
<1>1. /\ api' = api /\ pc' = pc /\ loc' = loc /\ tok' = tok /\ auth' = auth /\ copy' = copy
      /\ tunnel' = tunnel /\ teardown' = teardown /\ job.st = "running"
      /\ faults' = 0 => faults = 0
  BY NoneFailed DEF Job, JobPhase, JobEnds, JobFails
<1>2. CtlRest(CP) /\ ApiRest(CP)
  BY <1>1 DEF CtlRest, ApiRest
<1>3. CPGood
  <2> SUFFICES ASSUME Calm'
               PROVE  /\ Calm /\ CPSteady'
                      /\ Published => Published' /\ netcfg'.used = netcfg.used
    BY DEF CPGood
  <2>1. Calm /\ CPSteady
    BY <1>1 DEF CalmInv, Calm, Live
  <2>2. ~Published
    BY <1>1, <2>1 DEF Inv, JobOnly, Published, Calm
  <2> QED
    BY <1>1, <2>1, <2>2 DEF CPSteady, Control, Secured, Patched, Published
<1> QED
  BY <1>1, <1>2, <1>3, ControlPlaneCalm

\* Time passes over the token, which stays one.
LEMMA TimeCalm ==
    ASSUME TypeOK, Inv, CalmInv, TokenAges \/ TokenExpires
    PROVE  CalmInv'
<1> USE DEF ctlVars, secretVars
<1>0. CP \in Node /\ api[CP] \in Object
  BY CPFacts
<1>1. /\ pc' = pc /\ loc' = loc /\ tok' = tok /\ auth' = auth /\ copy' = copy
      /\ tunnel' = tunnel /\ teardown' = teardown /\ faults' = faults
  BY DEF TokenAges, TokenExpires
<1>2. /\ netcfg'.used = netcfg.used
      /\ netcfg.jc # "none" => netcfg'.jc # "none"
  BY DEF TokenAges, TokenExpires, Older, TypeOK
<1>3. /\ api'[CP].exists = api[CP].exists /\ api'[CP].deleting = api[CP].deleting
      /\ api'[CP].phase = api[CP].phase /\ api'[CP].netDone = api[CP].netDone
      /\ api'[CP].pkgs = api[CP].pkgs
      /\ api'[CP].jc = "none" <=> api[CP].jc = "none"
      /\ api'[CP].stamp = "recent" => api[CP].stamp = "recent"
  <2>1. CASE TokenAges
    <3> DEFINE o == [api[CP] EXCEPT !.jc = Older(@, "temp", "old"),
                                    !.stamp = Older(@, "recent", "due")]
    <3>1. api'[CP] = o
      BY <1>0, <2>1 DEF TokenAges, TypeOK
    <3>2. /\ o.exists = api[CP].exists /\ o.deleting = api[CP].deleting
          /\ o.phase = api[CP].phase /\ o.netDone = api[CP].netDone /\ o.pkgs = api[CP].pkgs
          /\ o.jc = Older(api[CP].jc, "temp", "old")
          /\ o.stamp = Older(api[CP].stamp, "recent", "due")
      BY <1>0 DEF Object
    <3> HIDE DEF o
    <3> QED
      BY <3>1, <3>2 DEF Older
  <2>2. CASE TokenExpires
    <3> DEFINE o == [api[CP] EXCEPT !.jc = Older(@, "old", "expired")]
    <3>1. api'[CP] = o
      BY <1>0, <2>2 DEF TokenExpires, TypeOK
    <3>2. /\ o.exists = api[CP].exists /\ o.deleting = api[CP].deleting
          /\ o.phase = api[CP].phase /\ o.netDone = api[CP].netDone /\ o.pkgs = api[CP].pkgs
          /\ o.jc = Older(api[CP].jc, "old", "expired") /\ o.stamp = api[CP].stamp
      BY <1>0 DEF Object
    <3> HIDE DEF o
    <3> QED
      BY <3>1, <3>2 DEF Older
  <2> QED
    BY <2>1, <2>2
<1>4. CtlRest(CP)
  BY <1>1 DEF CtlRest
<1>5. ApiRest(CP)
  BY <1>0 DEF TokenAges, TokenExpires, ApiRest, TypeOK
<1>6. CPGood
  BY <1>1, <1>2, <1>3 DEF CalmInv, CPGood, Calm, Live, CPSteady, Control, Secured, Patched,
     Complete, Rotated, Published
<1> QED
  BY <1>1, <1>4, <1>5, <1>6, ControlPlaneCalm

LEMMA UsersCalm ==
    ASSUME TypeOK, Inv, CalmInv, NEW n \in Node,
           UserEdits(n) \/ UserDeletes(n) \/ TearDown(n) \/ UserDeletesSecret
    PROVE  CalmInv'
<1> USE DEF ctlVars, remoteVars, secretVars
<1>0. CP \in Node /\ api[CP] \in Object /\ loc[CP] \in Object
  BY CPFacts
<1>1. /\ pc' = pc /\ loc' = loc /\ tok' = tok /\ faults' = faults /\ netcfg' = netcfg
      /\ teardown' \subseteq teardown
  BY DEF UserEdits, UserDeletes, TearDown, UserDeletesSecret
<1>2. ASSUME api' = api, copy' = copy, auth[CP] = "gone" => auth'[CP] = "gone",
             Calm => CP \in tunnel'
      PROVE  CalmInv'
  <2>1. Published' = Published /\ Calm' = Calm
    BY <1>1, <1>2 DEF Published, Calm, Live
  <2>2. CASE Calm
    <3>1. Connected' /\ CPSteady'
      BY <1>1, <1>2, <2>1, <2>2 DEF CalmInv, Connected, CPSteady, Control, Secured, Patched
    <3>2. \A w \in Worker : Recorded(w)'
      BY <1>1, <1>2, <2>1, <2>2 DEF CalmInv, Recorded
    <3> QED
      BY <3>1, <3>2 DEF CalmInv
  <2> QED
    BY <2>1, <2>2 DEF CalmInv
<1>3. CASE UserEdits(n)
  BY <1>2, <1>3 DEF UserEdits, CalmInv, Connected
<1>4. CASE TearDown(n)
  BY <1>2, <1>4 DEF TearDown, CalmInv, Connected
<1>5. CASE UserDeletesSecret
  <2>1. auth[CP] = "gone" => auth'[CP] = "gone"
    BY <1>0, <1>5 DEF UserDeletesSecret, TypeOK
  <2> QED
    BY <1>2, <1>5, <2>1 DEF UserDeletesSecret, CalmInv, Connected
<1>6. CASE UserDeletes(n)
  <2>0. CtlRest(n) /\ ApiRest(n)
    <3>1. \E o : api' = [api EXCEPT ![n] = o]
      BY <1>6 DEF UserDeletes
    <3> QED
      BY <1>1, <3>1, WriteRest DEF CtlRest
  <2>1. api'[n] = [api[n] EXCEPT !.deleting = TRUE] \/ api'[n] = NoObject
    BY <1>6 DEF UserDeletes, TypeOK
  <2>2. /\ [api[n] EXCEPT !.deleting = TRUE].deleting
        /\ [api[n] EXCEPT !.deleting = TRUE].phase = api[n].phase
    <3>1. api[n] \in Object
      BY DEF TypeOK
    <3> QED
      BY <3>1 DEF Object
  <2>3. CASE n = CP
    BY <2>1, <2>2, <2>3, NoObjectFields DEF CalmInv, Calm, Live
  <2>4. CASE n # CP
    <3>1. n \in Worker /\ auth' = auth /\ tunnel' = tunnel
      BY <1>6, <2>4 DEF UserDeletes, Node
    <3>2. api'[n].phase = "Ready" => api[n].phase = "Ready"
      BY <2>1, <2>2, NoObjectFields
    <3>3. SecretRest(n)
      BY <1>6, <3>1 DEF UserDeletes, SecretRest, TypeOK
    <3> QED
      BY <1>1, <2>0, <3>1, <3>2, <3>3, QuietWorker DEF Calm
  <2> QED
    BY <2>3, <2>4
<1> QED
  BY <1>3, <1>4, <1>5, <1>6

LEMMA CalmInit == Init => CalmInv
<1> SUFFICES ASSUME Init
             PROVE  CalmInv
  OBVIOUS
<1>0. /\ pc = [n \in Node |-> "idle"] /\ loc = [n \in Node |-> NoObject]
      /\ tunnel = Node /\ teardown = {}
      /\ api = [m \in Node |-> [NoObject EXCEPT !.exists = TRUE, !.vpnRef = (m = CP)]]
  BY Zenon DEF Init
<1>1. ASSUME NEW n \in Node
      PROVE  /\ pc[n] = "idle" /\ loc[n] = NoObject
             /\ api[n].phase = "" /\ api[n].jc = "none" /\ ~Rotated(api[n])
  <2>1. api[n] = [NoObject EXCEPT !.exists = TRUE, !.vpnRef = (n = CP)]
    BY <1>0, Zenon
  <2>2. PICK b : api[n] = [NoObject EXCEPT !.exists = TRUE, !.vpnRef = b]
    BY <2>1, Zenon
  <2>3. ~[NoObject EXCEPT !.exists = TRUE, !.vpnRef = b].pkgs
        /\ [NoObject EXCEPT !.exists = TRUE, !.vpnRef = b].stamp = "none"
    BY DEF NoObject
  <2> QED
    BY <1>0, <2>2, <2>3, InitFields DEF Rotated
<1>2. CP \in Node /\ Worker \subseteq Node
  BY DEF Node
<1>3. Connected
  BY <1>0, <1>2 DEF Connected
<1>4. CPSteady
  BY <1>1, <1>2, NothingRotated DEF CPSteady, Control, Secured, Patched, Complete,
     Published, CompletePC, ReadyPC
<1>5. \A w \in Worker : Recorded(w)
  BY <1>1, <1>2, NoObjectFields DEF Recorded, ParentPC
<1> QED
  BY <1>3, <1>4, <1>5 DEF CalmInv

LEMMA CalmStep == TypeOK /\ Inv /\ CalmInv /\ [Next]_vars => CalmInv'
<1> SUFFICES ASSUME TypeOK, Inv, CalmInv, [Next]_vars
             PROVE  CalmInv'
  OBVIOUS
<1>0. CP \in Node /\ (Calm => CPSteady /\ Connected)
  BY DEF Node, CalmInv
<1>1. CASE ReconcileCP
  <2>1. CPGood
    BY <1>0, <1>1, InitCalm, CompletionCalm, ReadyCalm DEF ReconcileCP
  <2> QED
    BY <1>1, <2>1, ControlPlaneRest, ControlPlaneCalm
<1>2. ASSUME NEW n \in Node, Reconcile(n), ~(n = CP /\ ReconcileCP),
             ~(n \in Worker /\ ReconcileWorker(n))
      PROVE  CalmInv'
  <2>1. \/ Start(n) \/ AddFinalizer(n) \/ ProtectSecrets(n) \/ MarkProvisioning(n) \/ Fail(n)
        \/ ResetHost(n) \/ RemovePeer(n) \/ ReleaseSecrets(n) \/ RemoveFinalizer(n)
    BY <1>2 DEF Reconcile
  <2>2. CASE n = CP
    <3>1. CPGood /\ CtlRest(CP) /\ ApiRest(CP)
      BY <1>0, <2>1, <2>2, CommonCalm, CommonRest
    <3>2. Calm' => tunnel' = tunnel /\ teardown' = teardown
      <4>1. CASE ResetHost(n) \/ RemovePeer(n) \/ ReleaseSecrets(n) \/ RemoveFinalizer(n)
        BY <2>2, <4>1, DeletionCalm DEF Calm
      <4>2. CASE ~(ResetHost(n) \/ RemovePeer(n) \/ ReleaseSecrets(n) \/ RemoveFinalizer(n))
        BY <2>1, <4>2 DEF Start, AddFinalizer, ProtectSecrets, MarkProvisioning, Fail,
           remoteVars
      <4> QED
        BY <4>1, <4>2
    <3> QED
      BY <3>1, <3>2, ControlPlaneCalm
  <2>3. CASE n # CP
    BY <2>1, <2>3, WorkerCommonCalm DEF Node
  <2> QED
    BY <2>2, <2>3
<1>3. ASSUME NEW n \in Node, Reconcile(n)
      PROVE  CalmInv'
  BY <1>1, <1>2, <1>3, ReconcileWorkerCalm
\* Something has failed.
<1>4. CASE Crash
  BY <1>4, NoneFailed DEF Crash, CalmInv, Calm
<1>5. CASE Environment
  BY <1>0, <1>4, <1>5, UsersCalm, TimeCalm DEF Environment
<1>6. CASE UNCHANGED vars
  <2>1. /\ api' = api /\ pc' = pc /\ loc' = loc /\ tok' = tok /\ auth' = auth /\ copy' = copy
        /\ tunnel' = tunnel /\ teardown' = teardown /\ faults' = faults /\ netcfg' = netcfg
    BY <1>6 DEF vars, ctlVars, remoteVars, secretVars
  <2>2. CtlRest(CP) /\ ApiRest(CP)
    BY <2>1 DEF CtlRest, ApiRest
  <2>3. CPGood
    BY <1>0, <2>1 DEF CPGood, Calm, Live, CPSteady, Control, Secured, Patched, Published
  <2> QED
    BY <2>1, <2>2, <2>3, ControlPlaneCalm
<1> QED
  BY <1>3, <1>5, <1>6, JobCalm DEF Next

LEMMA CalmInvariant == Spec => [](TypeOK /\ Inv /\ CalmInv)
<1>1. (TypeOK /\ Inv) /\ CalmInv /\ [Next]_vars => CalmInv'
  BY CalmStep
<1> QED
  BY <1>1, CalmInit, Invariant, PTL DEF Spec

\* A worker that says Ready is in the list of used addresses of its cluster, as long as
\* no call has failed: nothing writes that list over once a worker has been let in
\* (the record after setStatus in reconcileWorker, node-provision-created).
THEOREM ReadyWorkersRecorded == Spec => []ReadyWorkerRecorded
<1>1. TypeOK /\ Inv /\ CalmInv => ReadyWorkerRecorded
  BY DEF ReadyWorkerRecorded, CalmInv, Calm, Live, Recorded
<1> QED
  BY <1>1, CalmInvariant, PTL

\* The cluster whose package variants are created has a NetConfig with a join command,
\* as long as no call has failed: the first refresh comes before the packages and finds
\* the machine reachable (refreshJoinToken, patchRemoteNetConfigJoinCmd).
THEOREM PackagedClustersJoinable == Spec => []PackagedClusterJoinable
<1>1. TypeOK /\ Inv /\ CalmInv => PackagedClusterJoinable
  <2> SUFFICES ASSUME Inv, CalmInv, faults = 0, api[CP].pkgs, ~api[CP].deleting
               PROVE  netcfg.jc # "none"
    BY DEF PackagedClusterJoinable
  <2>1. Gone(CP)
    BY DEF Inv, ResourceInv, Node
  <2>2. api[CP].exists
    <3>1. ~NoObject.pkgs
      BY DEF NoObject
    <3> QED
      BY <2>1, <3>1 DEF Gone
  <2> QED
    BY <2>2 DEF CalmInv, Calm, Live, CPSteady, Patched, Rotated
<1> QED
  BY <1>1, CalmInvariant, PTL

=============================================================================
