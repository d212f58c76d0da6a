--------------------------- MODULE RemoteCluster ---------------------------
(***************************************************************************)
(* The RemoteCluster controller: one control plane, its workers, ten       *)
(* reconcile workers (so the resources are reconciled side by side, each   *)
(* one by one reconcile at a time), the goroutine that runs kubeadm on the *)
(* control plane's machine, the machines themselves, the NetConfig in the  *)
(* new cluster, and the credential secrets that deletion needs.            *)
(*                                                                         *)
(* Reads are current; a copy that is written back is refused once anyone   *)
(* has written since it was read (fresh).  A reconcile runs only when its  *)
(* resource is in the work queue, and GenerationChangedPredicate lets only *)
(* creations, spec changes and deletions put it there.                     *)
(***************************************************************************)
EXTENDS Integers, FiniteSets

CONSTANTS
    CP,               \* the control plane's RemoteCluster
    Worker,           \* the workers' RemoteClusters, same clusterName
    LastCP,           \* index of the control plane's last phase
    InitPhase,        \* the phase that runs kubeadm init
    LastWorker,       \* index of a worker's last phase, kubeadm join
    MaxFaults,        \* bound: failed calls and crashes
    MaxEdits          \* bound: writes by users

ASSUME ClusterAssumption ==
    /\ CP \notin Worker
    /\ LastCP \in Nat \ {0} /\ InitPhase \in 1..LastCP /\ LastWorker \in Nat \ {0}
    /\ MaxFaults \in Nat /\ MaxEdits \in Nat

VARIABLES
    api,              \* the resources in the API server
    queue,            \* whether a resource is in the work queue, or will be by a timer
    pc, loc, fresh,   \* each reconcile: its place, its copy, and is that the newest
    tok,              \* its local join command
    at,               \* JoinWorkerNode's index into the phases
    job, prog,        \* controlPlaneJobs and controlPlaneProgress of the control plane
    host,             \* each machine: the phases whose effects are on it
    netcfg,           \* the NodeProvisionNetConfig in the new cluster
    tunnel,           \* machines that answer at their VPN address
    teardown,         \* machines that will take their tunnel down in a moment
    repo,             \* whether the cluster's Porch repository and tokens exist
    auth, copy, vpn,  \* SSH secrets, the controller's copies of them, the VPN secret
    faults, edits     \* budgets spent

ctlVars    == <<queue, pc, loc, fresh, tok, at>>
jobVars    == <<job, prog>>
remoteVars == <<host, netcfg, tunnel, teardown, repo>>
secretVars == <<auth, copy, vpn>>
vars == <<api, ctlVars, jobVars, remoteVars, secretVars, faults, edits>>

Node == {CP} \cup Worker

Last(n) == IF n = CP THEN LastCP ELSE LastWorker

Phases(n) == 0..Last(n)

\* No join command, one that never expires (--ttl 0), one good for 24 hours,
\* one with an hour or less to go, one that has expired.
Token == {"none", "perm", "temp", "old", "expired"}

Object == [exists: BOOLEAN, finalizer: BOOLEAN, deleting: BOOLEAN,
           phase: {"", "Provisioning", "Ready", "Failed"},
           jc: Token,            \* status.joinCommand
           last: -1..LastCP + LastWorker,   \* annotation last-completed-phase, -1 if none
           cache: Token,         \* annotations cp-init-complete and join-cmd-cache
           netDone: BOOLEAN,     \* annotation node-provision-created
           pkgs: BOOLEAN,        \* annotation package-variants-created
           stamp: {"none", "recent", "due"},   \* annotation join-token-refreshed-at
           joined: BOOLEAN,      \* annotation worker-joined
           vpnRef: BOOLEAN]      \* spec names the VPN server's secret

NoObject == [exists |-> FALSE, finalizer |-> FALSE, deleting |-> FALSE, phase |-> "",
             jc |-> "none", last |-> -1, cache |-> "none", netDone |-> FALSE,
             pkgs |-> FALSE, stamp |-> "none", joined |-> FALSE, vpnRef |-> FALSE]

NoJob == [st |-> "none", at |-> 0]

NoNetConfig == [exists |-> FALSE, jc |-> "none", used |-> {}]

\* A secret: without our finalizer, with it, deleted but held by it, gone.
SecretState == {"free", "held", "dying", "gone"}

PC == {"idle", "finalizer", "protect", "provision", "init", "stamp", "repo",
       "netconfig", "netstamp", "publish", "clear", "token", "netjoin", "tokenstamp",
       "packages", "pkgstamp", "connect", "sync", "prepare", "join", "mark", "ready",
       "record", "fail", "reset", "unpeer", "release", "unfinalize"}

\* The user has applied the resources, the control plane's with the VPN server's
\* secret; the machines are up, in the VPN and bare.
Init ==
    /\ api = [n \in Node |-> [NoObject EXCEPT !.exists = TRUE, !.vpnRef = (n = CP)]]
    /\ queue = [n \in Node |-> TRUE]
    /\ pc = [n \in Node |-> "idle"]
    /\ loc = [n \in Node |-> NoObject]
    /\ fresh = [n \in Node |-> FALSE]
    /\ tok = [n \in Node |-> "none"]
    /\ at = [n \in Node |-> 0]
    /\ job = NoJob /\ prog = -1
    /\ host = [n \in Node |-> {}]
    /\ netcfg = NoNetConfig /\ tunnel = Node /\ teardown = {} /\ repo = FALSE
    /\ auth = [n \in Node |-> "free"] /\ copy = [n \in Node |-> FALSE] /\ vpn = "free"
    /\ faults = 0 /\ edits = 0

-----------------------------------------------------------------------------
(* Calls, writes and returns.                                              *)

Fault == faults < MaxFaults /\ faults' = faults + 1

NoFault == UNCHANGED faults

Goto(n, label) == pc' = [pc EXCEPT ![n] = label]

\* The reconcile returns; requeue: by an error, Requeue or RequeueAfter.
Return(n, requeue) ==
    /\ Goto(n, "idle")
    /\ queue' = [queue EXCEPT ![n] = @ \/ requeue]
    /\ loc' = [loc EXCEPT ![n] = NoObject]
    /\ fresh' = [fresh EXCEPT ![n] = FALSE]
    /\ tok' = [tok EXCEPT ![n] = "none"]
    /\ at' = [at EXCEPT ![n] = 0]

\* The reconcile goes on with what it has.
Continue(n, label) ==
    /\ Goto(n, label)
    /\ UNCHANGED <<queue, loc, fresh, tok, at>>

\* The reconcile goes on with the copy o, which is the newest version.
ContinueWith(n, label, o) ==
    /\ Goto(n, label)
    /\ loc' = [loc EXCEPT ![n] = o]
    /\ fresh' = [fresh EXCEPT ![n] = TRUE]
    /\ UNCHANGED <<queue, tok, at>>

\* A copy is written back: accepted only if nobody wrote since it was read.
Commit(n, o) ==
    /\ fresh[n] /\ api[n].exists
    /\ api' = [api EXCEPT ![n] = o]
    /\ NoFault

Lost(n) ==
    /\ \/ ~fresh[n] /\ NoFault
       \/ Fault
    /\ UNCHANGED api

\* patchAnnotation(s): read again, then a merge patch without a version.  The
\* reconcile's own copy is left behind, unless nothing changed.
Annotate(n, o) ==
    /\ api[n].exists
    /\ api' = [api EXCEPT ![n] = o]
    /\ fresh' = [fresh EXCEPT ![n] = @ /\ o = api[n]]
    /\ NoFault

AnnotateLost(n) ==
    /\ \/ ~api[n].exists /\ NoFault
       \/ Fault
    /\ UNCHANGED <<api, fresh>>

\* Get and Update right after each other, or RetryOnConflict around both.
Refetched(n, o) ==
    /\ api[n].exists
    /\ api' = [api EXCEPT ![n] = o]
    /\ NoFault

RefetchFails(n) ==
    /\ \/ ~api[n].exists /\ NoFault
       \/ Fault
    /\ UNCHANGED api

\* getSSHClient: a secret or its copy, and the machine answers.
Reachable(n) == (auth[n] # "gone" \/ copy[n]) /\ n \in tunnel

\* A call fails: for a reason in the state, or for one outside it.
FailsUnless(able) ==
    \/ ~able /\ NoFault
    \/ Fault

Unreachable(n) == FailsUnless(Reachable(n))

\* kubectl over an open connection to the control plane's machine.
KubectlWorks == CP \in tunnel /\ InitPhase \in host[CP]

-----------------------------------------------------------------------------
(* Reconcile: read, finalizer, secrets, dispatch on the phase.             *)

Dispatch(o) ==
    IF o.deleting
    THEN IF o.finalizer THEN "reset" ELSE "idle"
    ELSE IF o.finalizer THEN "protect" ELSE "finalizer"

Start(n) ==
    /\ pc[n] = "idle" /\ queue[n]
    /\ queue' = [queue EXCEPT ![n] = FALSE]
    /\ IF api[n].exists /\ Dispatch(api[n]) # "idle"
       THEN /\ loc' = [loc EXCEPT ![n] = api[n]]
            /\ fresh' = [fresh EXCEPT ![n] = TRUE]
            /\ Goto(n, Dispatch(api[n]))
       ELSE UNCHANGED <<loc, fresh, pc>>
    /\ UNCHANGED <<api, tok, at, jobVars, remoteVars, secretVars, faults, edits>>

AddFinalizer(n) ==
    /\ pc[n] = "finalizer"
    /\ \/ Commit(n, [loc[n] EXCEPT !.finalizer = TRUE])
       \/ Lost(n)
    /\ Return(n, TRUE)
    /\ UNCHANGED <<jobVars, remoteVars, secretVars, edits>>

Held(s) == IF s = "free" THEN "held" ELSE s

\* Where Reconcile goes once the secrets are seen to.
AfterProtect(n) ==
    IF loc[n].phase # "Ready" THEN "provision"
    ELSE IF n # CP THEN "idle"
    ELSE IF loc[n].netDone THEN "token" ELSE "netconfig"

\* The finalizer on the SSH secret, the copy of it, the finalizer on the VPN
\* secret: each is attempted and each failure is passed over.
ProtectSecrets(n) ==
    /\ pc[n] = "protect"
    /\ \E done \in SUBSET {"auth", "copy", "vpn"} :
         /\ IF done = {"auth", "copy", "vpn"} THEN NoFault ELSE Fault
         /\ auth' = IF "auth" \in done THEN [auth EXCEPT ![n] = Held(@)] ELSE auth
         /\ copy' = IF "copy" \in done /\ auth[n] # "gone" /\ api[n].exists
                    THEN [copy EXCEPT ![n] = TRUE] ELSE copy
         /\ vpn' = IF "vpn" \in done /\ loc[n].vpnRef THEN Held(vpn) ELSE vpn
    /\ IF AfterProtect(n) = "idle" THEN Return(n, FALSE)
       ELSE Continue(n, AfterProtect(n))
    /\ UNCHANGED <<api, jobVars, remoteVars, edits>>

\* setStatus(Provisioning); a refused write is logged and the copy keeps the phase.
MarkProvisioning(n) ==
    /\ pc[n] = "provision"
    /\ \/ Commit(n, [loc[n] EXCEPT !.phase = "Provisioning"])
       \/ Lost(n)
    /\ loc' = [loc EXCEPT ![n].phase = "Provisioning"]
    /\ Goto(n, IF n = CP THEN "init" ELSE "connect")
    /\ UNCHANGED <<queue, fresh, tok, at, jobVars, remoteVars, secretVars, edits>>

\* Mutant: the failed resource is not called again.
FailForGood(n) ==
    /\ pc[n] = "fail"
    /\ \/ Commit(n, [loc[n] EXCEPT !.phase = "Failed"])
       \/ Lost(n)
    /\ Return(n, FALSE)
    /\ UNCHANGED <<jobVars, remoteVars, secretVars, edits>>

\* fail: the write of Failed may be refused, and is not repeated.
Fail(n) ==
    /\ pc[n] = "fail"
    /\ \/ Commit(n, [loc[n] EXCEPT !.phase = "Failed"])
       \/ Lost(n)
    /\ Return(n, TRUE)
    /\ UNCHANGED <<jobVars, remoteVars, secretVars, edits>>

-----------------------------------------------------------------------------
(* reconcileControlPlane and the goroutine it polls.                       *)

AlreadyInitialised ==
    /\ pc[CP] = "init" /\ loc[CP].jc # "none"
    /\ Return(CP, TRUE)
    /\ UNCHANGED <<api, jobVars, remoteVars, secretVars, faults, edits>>

ToInit == pc[CP] = "init" /\ loc[CP].jc = "none"

\* kubeadm is done already: only what comes after it is repeated.
ResumeCompletion ==
    /\ ToInit /\ loc[CP].cache # "none"
    /\ tok' = [tok EXCEPT ![CP] = loc[CP].cache]
    /\ Goto(CP, "repo")
    /\ UNCHANGED <<api, queue, loc, fresh, at, jobVars, remoteVars, secretVars,
                   faults, edits>>

StartPhase(o) == IF o.last >= 0 THEN o.last + 1 ELSE 0

StartJob ==
    /\ ToInit /\ loc[CP].cache = "none" /\ job.st = "none"
    /\ \/ /\ Reachable(CP) /\ NoFault
          /\ job' = [st |-> "running", at |-> StartPhase(loc[CP])]
          /\ Return(CP, TRUE)
       \/ Unreachable(CP) /\ Continue(CP, "fail") /\ UNCHANGED job
    /\ UNCHANGED <<api, prog, remoteVars, secretVars, edits>>

\* A poll of the running goroutine writes down how far it has come.
FlushProgress ==
    /\ ToInit /\ loc[CP].cache = "none" /\ job.st = "running"
    /\ \/ prog # -1 /\ loc[CP].last # prog /\ api[CP].exists /\ NoFault
          /\ api' = [api EXCEPT ![CP].last = prog]
       \/ (prog = -1 \/ loc[CP].last = prog \/ ~api[CP].exists) /\ NoFault
          /\ UNCHANGED api
       \/ prog # -1 /\ loc[CP].last # prog /\ Fault /\ UNCHANGED api
    /\ Return(CP, TRUE)
    /\ UNCHANGED <<jobVars, remoteVars, secretVars, edits>>

\* The result leaves the map, and so does the progress, which is written down.
TakeResult ==
    /\ ToInit /\ loc[CP].cache = "none" /\ job.st \in {"ok", "err"}
    /\ job' = NoJob /\ prog' = -1
    /\ \/ prog # -1 /\ Annotate(CP, [api[CP] EXCEPT !.last = prog])
       \/ prog # -1 /\ AnnotateLost(CP)
       \/ prog = -1 /\ NoFault /\ UNCHANGED <<api, fresh>>
    /\ tok' = [tok EXCEPT ![CP] = IF job.st = "ok" THEN "perm" ELSE @]
    /\ Goto(CP, IF job.st = "ok" THEN "stamp" ELSE "fail")
    /\ UNCHANGED <<queue, loc, at, remoteVars, secretVars, edits>>

MarkInitComplete ==
    /\ pc[CP] = "stamp"
    /\ \/ Annotate(CP, [api[CP] EXCEPT !.last = -1, !.cache = tok[CP]])
       \/ AnnotateLost(CP)
    /\ Goto(CP, "repo")
    /\ UNCHANGED <<queue, loc, tok, at, jobVars, remoteVars, secretVars, edits>>

\* The goroutine: runPhases, ConfigureArgoCD and installNFSProvisioner in order,
\* then a join command.  Phase 0 resets the machine.
Effect(done, i) == IF i = 0 THEN {0} ELSE done \cup {i}

\* Phase i of the control plane has its effects; phase 0 takes the cluster away.
CPPhaseLands(i) ==
    /\ host' = [host EXCEPT ![CP] = Effect(@, i)]
    /\ netcfg' = IF i = 0 THEN NoNetConfig ELSE netcfg

JobPhase ==
    /\ job.st = "running" /\ job.at <= LastCP /\ CP \in tunnel
    /\ CPPhaseLands(job.at)
    /\ prog' = job.at
    /\ job' = [job EXCEPT !.at = @ + 1]
    /\ UNCHANGED <<api, ctlVars, tunnel, teardown, repo, secretVars, faults, edits>>

JobEnds ==
    /\ job.st = "running" /\ job.at > LastCP /\ KubectlWorks
    /\ job' = [st |-> "ok", at |-> 0]
    /\ UNCHANGED <<api, ctlVars, prog, remoteVars, secretVars, faults, edits>>

\* Mutant: onPhaseComplete is called for the phase that failed.
JobFailsReported ==
    /\ job.st = "running"
    /\ Fault /\ prog' = job.at
    /\ job' = [st |-> "err", at |-> 0]
    /\ UNCHANGED <<api, ctlVars, remoteVars, secretVars, edits>>

\* A command fails, or it was carried out and only its answer is lost.
JobFails ==
    /\ job.st = "running"
    /\ \/ /\ ~(CP \in tunnel /\ (job.at > LastCP => KubectlWorks))
          /\ NoFault /\ UNCHANGED <<host, netcfg>>
       \/ Fault /\ UNCHANGED <<host, netcfg>>
       \/ job.at <= LastCP /\ CP \in tunnel /\ Fault /\ CPPhaseLands(job.at)
    /\ job' = [st |-> "err", at |-> 0]
    /\ UNCHANGED <<api, ctlVars, prog, tunnel, teardown, repo, secretVars, edits>>

-----------------------------------------------------------------------------
(* completeControlPlane.                                                   *)

\* The connection it opens, then the repository and its tokens.
EnsureRepo ==
    /\ pc[CP] = "repo"
    /\ \/ Reachable(CP) /\ NoFault /\ repo' = TRUE /\ Continue(CP, "netconfig")
       \/ Unreachable(CP) /\ UNCHANGED repo /\ Continue(CP, "fail")
    /\ UNCHANGED <<api, jobVars, host, netcfg, tunnel, teardown, secretVars, edits>>

\* Mutant: the NetConfig is best effort.
CreateNetConfigBestEffort ==
    /\ pc[CP] = "netconfig"
    /\ \/ /\ Reachable(CP) /\ KubectlWorks /\ NoFault
          /\ netcfg' = [exists |-> TRUE, jc |-> loc[CP].jc, used |-> {CP}]
       \/ Fault /\ UNCHANGED netcfg
    /\ Continue(CP, "netstamp")
    /\ UNCHANGED <<api, jobVars, host, tunnel, teardown, repo, secretVars, edits>>

\* handleCreateUpdateNodeProvisionConfig "create", here and on the Ready path: the
\* VPN secret is copied, the object applied, and its status written over with the
\* join command in status, which completeControlPlane has not written yet.
CreateNetConfig ==
    LET able == Reachable(CP) /\ KubectlWorks /\ (loc[CP].vpnRef => vpn # "gone") IN
    /\ pc[CP] = "netconfig"
    /\ \/ /\ able /\ NoFault
          /\ netcfg' = [exists |-> TRUE, jc |-> loc[CP].jc, used |-> {CP}]
          /\ Continue(CP, "netstamp")
       \/ /\ \/ ~able /\ NoFault /\ UNCHANGED netcfg
             \/ Fault /\ UNCHANGED netcfg
             \/ able /\ Fault /\ netcfg' = [netcfg EXCEPT !.exists = TRUE]
          /\ Continue(CP, "fail")
    /\ UNCHANGED <<api, jobVars, host, tunnel, teardown, repo, secretVars, edits>>

StampNetConfig ==
    /\ pc[CP] = "netstamp"
    /\ \/ Annotate(CP, [api[CP] EXCEPT !.netDone = TRUE])
       \/ AnnotateLost(CP)
    /\ Goto(CP, IF loc[CP].phase = "Ready" THEN "token" ELSE "publish")
    /\ UNCHANGED <<queue, loc, tok, at, jobVars, remoteVars, secretVars, edits>>

\* RetryOnConflict around a read and setStatus(Ready) with the join command.
PublishJoin ==
    LET o == [api[CP] EXCEPT !.phase = "Ready", !.jc = tok[CP]] IN
    /\ pc[CP] = "publish"
    /\ \/ Refetched(CP, o) /\ ContinueWith(CP, "clear", o)
       \/ RefetchFails(CP) /\ Return(CP, TRUE)
    /\ UNCHANGED <<jobVars, remoteVars, secretVars, edits>>

ClearInit ==
    /\ pc[CP] = "clear"
    /\ \/ api[CP].exists /\ api' = [api EXCEPT ![CP].cache = "none"] /\ NoFault
       \/ RefetchFails(CP)
    /\ Return(CP, TRUE)
    /\ UNCHANGED <<jobVars, remoteVars, secretVars, edits>>

-----------------------------------------------------------------------------
(* The Ready control plane: join token, then package variants.             *)

\* Mutant: a cluster that was never refreshed is taken for a fresh one.
NeedsRefreshOnlyDue(o) == o.jc # "none" /\ o.stamp = "due"

NeedsRefresh(o) == o.jc # "none" /\ o.stamp # "recent"

SkipRefresh ==
    /\ pc[CP] = "token" /\ ~NeedsRefresh(loc[CP])
    /\ Continue(CP, "packages")
    /\ UNCHANGED <<api, jobVars, remoteVars, secretVars, faults, edits>>

\* A new token is minted and recorded in the status; no failure stops the reconcile.
RefreshToken ==
    LET o == [api[CP] EXCEPT !.jc = "temp"]
        able == Reachable(CP) /\ KubectlWorks IN
    /\ pc[CP] = "token" /\ NeedsRefresh(loc[CP])
    /\ \/ able /\ Refetched(CP, o) /\ ContinueWith(CP, "netjoin", o)
       \/ ~able /\ NoFault /\ UNCHANGED api /\ Continue(CP, "packages")
       \/ RefetchFails(CP) /\ Continue(CP, "packages")
    /\ UNCHANGED <<jobVars, remoteVars, secretVars, edits>>

\* patchRemoteNetConfigJoinCmd, passed over when it fails.
PatchNetJoin ==
    /\ pc[CP] = "netjoin"
    /\ \/ KubectlWorks /\ netcfg.exists /\ NoFault /\ netcfg' = [netcfg EXCEPT !.jc = "temp"]
       \/ ~(KubectlWorks /\ netcfg.exists) /\ NoFault /\ UNCHANGED netcfg
       \/ Fault /\ UNCHANGED netcfg
    /\ Continue(CP, "tokenstamp")
    /\ UNCHANGED <<api, jobVars, host, tunnel, teardown, repo, secretVars, edits>>

StampRefresh ==
    /\ pc[CP] = "tokenstamp"
    /\ \/ Annotate(CP, [api[CP] EXCEPT !.stamp = "recent"])
       \/ AnnotateLost(CP)
    /\ Goto(CP, "packages")
    /\ UNCHANGED <<queue, loc, tok, at, jobVars, remoteVars, secretVars, edits>>

\* reconcilePackageVariants, unless it was done before; then the next refresh is
\* what the resource waits for.
Packages ==
    /\ pc[CP] = "packages"
    /\ \/ loc[CP].pkgs /\ NoFault /\ Return(CP, TRUE)
       \/ ~loc[CP].pkgs /\ NoFault /\ Continue(CP, "pkgstamp")
       \/ ~loc[CP].pkgs /\ Fault /\ Continue(CP, "fail")
    /\ UNCHANGED <<api, jobVars, remoteVars, secretVars, edits>>

\* The first time it returns without asking to be called again.
MarkPackages ==
    /\ pc[CP] = "pkgstamp"
    /\ \/ Refetched(CP, [api[CP] EXCEPT !.pkgs = TRUE]) /\ Return(CP, FALSE)
       \/ RefetchFails(CP) /\ Return(CP, TRUE)
    /\ UNCHANGED <<jobVars, remoteVars, secretVars, edits>>

-----------------------------------------------------------------------------
(* reconcileWorker and JoinWorkerNode.                                     *)

Connect(w) ==
    /\ pc[w] = "connect"
    /\ \/ Reachable(w) /\ NoFault /\ Continue(w, "sync")
       \/ Unreachable(w) /\ Continue(w, "fail")
    /\ UNCHANGED <<api, jobVars, remoteVars, secretVars, edits>>

\* Mutant: worker-joined is not looked at.
AfterSyncRejoins(w, o, newest) ==
    LET cmd == IF api[CP].exists /\ api[CP].phase = "Ready" THEN api[CP].jc ELSE "none" IN
    IF cmd = "none" THEN Return(w, TRUE)
    ELSE /\ Goto(w, "prepare")
         /\ loc' = [loc EXCEPT ![w] = o]
         /\ tok' = [tok EXCEPT ![w] = cmd]
         /\ fresh' = [fresh EXCEPT ![w] = newest]
         /\ UNCHANGED <<queue, at>>

\* Mutant: the join command that was put by for a retry is as good as a published one.
AfterSyncEarly(w, o, newest) ==
    LET cmd == IF api[CP].jc # "none" THEN api[CP].jc ELSE api[CP].cache IN
    IF o.joined THEN Return(w, FALSE)
    ELSE IF cmd = "none" THEN Return(w, TRUE)
    ELSE /\ Goto(w, "prepare")
         /\ loc' = [loc EXCEPT ![w] = o]
         /\ tok' = [tok EXCEPT ![w] = cmd]
         /\ fresh' = [fresh EXCEPT ![w] = newest]
         /\ UNCHANGED <<queue, at>>

\* Where a worker with copy o goes, its parent just listed.
AfterSync(w, o, newest) ==
    LET cmd == IF api[CP].exists /\ api[CP].phase = "Ready" THEN api[CP].jc ELSE "none" IN
    IF o.joined THEN Return(w, FALSE)
    ELSE IF cmd = "none" THEN Return(w, TRUE)
    ELSE /\ Goto(w, "prepare")
         /\ loc' = [loc EXCEPT ![w] = o]
         /\ tok' = [tok EXCEPT ![w] = cmd]
         /\ fresh' = [fresh EXCEPT ![w] = newest]
         /\ UNCHANGED <<queue, at>>

\* The parent is looked up, and the VPN server's secret copied from its spec to
\* the worker's: a spec change, so the worker is called again.
SyncVPN(w) ==
    LET missing == api[CP].exists /\ api[CP].vpnRef /\ ~loc[w].vpnRef
        o == [api[w] EXCEPT !.vpnRef = TRUE] IN
    /\ pc[w] = "sync"
    /\ \/ ~missing /\ NoFault /\ UNCHANGED api
          /\ AfterSync(w, loc[w], fresh[w])
       \/ missing /\ Refetched(w, o) /\ AfterSync(w, o, TRUE)
       \/ missing /\ ~api[w].exists /\ NoFault /\ UNCHANGED api /\ Return(w, TRUE)
       \/ Fault /\ UNCHANGED api /\ Return(w, TRUE)
    /\ UNCHANGED <<jobVars, remoteVars, secretVars, edits>>

\* A connection to the control plane, and the phase to resume from.
PrepareJoin(w) ==
    /\ pc[w] = "prepare"
    /\ \/ /\ Reachable(CP) /\ w \in tunnel /\ NoFault
          /\ at' = [at EXCEPT ![w] = StartPhase(loc[w])]
          /\ Goto(w, "join")
          /\ UNCHANGED <<queue, loc, fresh, tok>>
       \/ FailsUnless(Reachable(CP) /\ w \in tunnel) /\ Continue(w, "fail")
    /\ UNCHANGED <<api, jobVars, remoteVars, secretVars, edits>>

\* kubeadm join needs the cluster, a token that works and a machine not yet joined.
CanRun(w, i) ==
    /\ w \in tunnel
    /\ i = LastWorker => /\ InitPhase \in host[CP]
                         /\ tok[w] # "expired"
                         /\ LastWorker \notin host[w]

Lands(n, i) == [host EXCEPT ![n] = Effect(@, i)]

JoinPhase(w) ==
    LET i == at[w] IN
    /\ pc[w] = "join" /\ i <= LastWorker
    /\ \/ /\ CanRun(w, i) /\ host' = Lands(w, i)
          /\ (Annotate(w, [api[w] EXCEPT !.last = i]) \/ AnnotateLost(w))
          /\ at' = [at EXCEPT ![w] = i + 1]
          /\ UNCHANGED pc
       \/ /\ \/ ~CanRun(w, i) /\ NoFault /\ UNCHANGED host
             \/ Fault /\ UNCHANGED host
             \/ CanRun(w, i) /\ Fault /\ host' = Lands(w, i)
          /\ Goto(w, "fail")
          /\ UNCHANGED <<api, fresh, at>>
    /\ UNCHANGED <<queue, loc, tok, jobVars, netcfg, tunnel, teardown, repo, secretVars,
                   edits>>

\* The Node is found by its address and labelled.
NameNode(w) ==
    LET able == KubectlWorks /\ LastWorker \in host[w] IN
    /\ pc[w] = "join" /\ at[w] > LastWorker
    /\ \/ able /\ NoFault /\ Continue(w, "mark")
       \/ FailsUnless(able) /\ Continue(w, "fail")
    /\ UNCHANGED <<api, jobVars, remoteVars, secretVars, edits>>

MarkJoined(w) ==
    LET o == [api[w] EXCEPT !.joined = TRUE, !.last = -1] IN
    /\ pc[w] = "mark"
    /\ \/ Refetched(w, o) /\ ContinueWith(w, "ready", o)
       \/ RefetchFails(w) /\ Return(w, TRUE)
    /\ UNCHANGED <<jobVars, remoteVars, secretVars, edits>>

\* Mutant: the reconcile is over once the worker is Ready.
WorkerReadyReturns(w) ==
    /\ pc[w] = "ready"
    /\ \/ Commit(w, [loc[w] EXCEPT !.phase = "Ready"]) /\ Return(w, FALSE)
       \/ Lost(w) /\ Return(w, TRUE)
    /\ UNCHANGED <<jobVars, remoteVars, secretVars, edits>>

WorkerReady(w) ==
    LET o == [loc[w] EXCEPT !.phase = "Ready"] IN
    /\ pc[w] = "ready"
    /\ \/ Commit(w, o) /\ ContinueWith(w, "record", o)
       \/ Lost(w) /\ Return(w, TRUE)
    /\ UNCHANGED <<jobVars, remoteVars, secretVars, edits>>

\* handleCreateUpdateNodeProvisionConfig "update".
RecordAddress(w) ==
    LET able == KubectlWorks /\ netcfg.exists IN
    /\ pc[w] = "record"
    /\ \/ /\ able /\ NoFault /\ Return(w, FALSE)
          /\ netcfg' = [netcfg EXCEPT !.used = @ \cup {w}]
       \/ FailsUnless(able) /\ UNCHANGED netcfg /\ Continue(w, "fail")
    /\ UNCHANGED <<api, jobVars, host, tunnel, teardown, repo, secretVars, edits>>

-----------------------------------------------------------------------------
(* handleDelete.                                                           *)

\* resetNodeViaSSH; the machine takes its tunnel down shortly after.
ResetHost(n) ==
    /\ pc[n] = "reset"
    /\ \/ /\ Reachable(n) /\ NoFault
          /\ host' = [host EXCEPT ![n] = {}]
          /\ netcfg' = IF n = CP THEN NoNetConfig ELSE netcfg
          /\ teardown' = teardown \cup {n}
       \/ Unreachable(n) /\ UNCHANGED <<host, netcfg, teardown>>
    /\ Continue(n, "unpeer")
    /\ UNCHANGED <<api, jobVars, tunnel, repo, secretVars, edits>>

\* removeVPNPeer, with the server's secret the resource or its parent names, and
\* deleteClusterResources, which goes by the name of the cluster.
RemovePeer(n) ==
    LET ref == loc[n].vpnRef \/ (n # CP /\ api[CP].exists /\ api[CP].vpnRef) IN
    /\ pc[n] = "unpeer"
    /\ \/ /\ NoFault /\ repo' = FALSE
          /\ tunnel' = IF ref /\ vpn # "gone" THEN tunnel \ {n} ELSE tunnel
       \/ Fault /\ repo' = FALSE /\ UNCHANGED tunnel
       \/ /\ Fault /\ UNCHANGED repo
          /\ tunnel' = IF ref /\ vpn # "gone" THEN tunnel \ {n} ELSE tunnel
    /\ loc' = [loc EXCEPT ![n].vpnRef = ref]
    /\ Goto(n, "release")
    /\ UNCHANGED <<api, queue, fresh, tok, at, jobVars, host, netcfg, teardown,
                   secretVars, edits>>

Released(s) == IF s = "held" THEN "free" ELSE IF s = "dying" THEN "gone" ELSE s

ReleaseSecrets(n) ==
    /\ pc[n] = "release"
    /\ \E done \in SUBSET {"auth", "vpn"} :
         /\ IF done = {"auth", "vpn"} THEN NoFault ELSE Fault
         /\ auth' = IF "auth" \in done THEN [auth EXCEPT ![n] = Released(@)] ELSE auth
         /\ vpn' = IF "vpn" \in done /\ loc[n].vpnRef THEN Released(vpn) ELSE vpn
    /\ Continue(n, "unfinalize")
    /\ UNCHANGED <<api, jobVars, remoteVars, copy, edits>>

\* Mutant: a refused removal is not tried again.
RemoveFinalizerOnce(n) ==
    /\ pc[n] = "unfinalize"
    /\ \/ Commit(n, NoObject) /\ copy' = [copy EXCEPT ![n] = FALSE]
       \/ Lost(n) /\ UNCHANGED copy
    /\ Return(n, FALSE)
    /\ UNCHANGED <<jobVars, remoteVars, auth, vpn, edits>>

\* With the finalizer goes the resource, and the copy of the secret it owns.
RemoveFinalizer(n) ==
    /\ pc[n] = "unfinalize"
    /\ \/ Commit(n, NoObject) /\ copy' = [copy EXCEPT ![n] = FALSE] /\ Return(n, FALSE)
       \/ Lost(n) /\ UNCHANGED copy /\ Return(n, TRUE)
    /\ UNCHANGED <<jobVars, remoteVars, auth, vpn, edits>>

-----------------------------------------------------------------------------
(* Users, crashes and the passing of time.                                 *)

Edit == edits < MaxEdits /\ edits' = edits + 1

\* A change of the spec that none of the steps depends on.
UserEdits(n) ==
    /\ Edit /\ api[n].exists
    /\ queue' = [queue EXCEPT ![n] = TRUE]
    /\ fresh' = [fresh EXCEPT ![n] = FALSE]
    /\ UNCHANGED <<api, pc, loc, tok, at, jobVars, remoteVars, secretVars, faults>>

UserDeletes(n) ==
    /\ Edit /\ api[n].exists /\ ~api[n].deleting
    /\ api' = [api EXCEPT ![n] = IF @.finalizer THEN [@ EXCEPT !.deleting = TRUE]
                                 ELSE NoObject]
    /\ copy' = [copy EXCEPT ![n] = @ /\ api[n].finalizer]
    /\ queue' = [queue EXCEPT ![n] = TRUE]
    /\ fresh' = [fresh EXCEPT ![n] = FALSE]
    /\ UNCHANGED <<pc, loc, tok, at, jobVars, remoteVars, auth, vpn, faults>>

Deleted(s) == IF s = "free" THEN "gone" ELSE "dying"

UserDeletesSecret ==
    /\ Edit
    /\ \/ /\ vpn \in {"free", "held"} /\ vpn' = Deleted(vpn)
          /\ UNCHANGED auth
       \/ /\ \E n \in Node : /\ auth[n] \in {"free", "held"}
                             /\ auth' = [auth EXCEPT ![n] = Deleted(@)]
          /\ UNCHANGED vpn
    /\ UNCHANGED <<api, ctlVars, jobVars, remoteVars, copy, faults>>

\* The controller stops, whatever its commands had done by then has been done, and
\* it starts again with empty maps and every resource in its queue.
Crash ==
    /\ Fault
    /\ \E landed \in SUBSET {w \in Worker : pc[w] = "join" /\ at[w] <= LastWorker
                                             /\ CanRun(w, at[w])} :
         \/ /\ host' = [n \in Node |-> IF n \in landed THEN Effect(host[n], at[n])
                                       ELSE host[n]]
            /\ UNCHANGED netcfg
         \/ /\ job.st = "running" /\ job.at <= LastCP /\ CP \in tunnel /\ landed = {}
            /\ CPPhaseLands(job.at)
    /\ job' = NoJob /\ prog' = -1
    /\ pc' = [n \in Node |-> "idle"] /\ loc' = [n \in Node |-> NoObject]
    /\ fresh' = [n \in Node |-> FALSE] /\ tok' = [n \in Node |-> "none"]
    /\ at' = [n \in Node |-> 0]
    /\ queue' = [n \in Node |-> api[n].exists]
    /\ UNCHANGED <<api, tunnel, teardown, repo, secretVars, edits>>

TearDown(n) ==
    /\ n \in teardown
    /\ tunnel' = tunnel \ {n} /\ teardown' = teardown \ {n}
    /\ UNCHANGED <<api, ctlVars, jobVars, host, netcfg, repo, secretVars, faults, edits>>

\* Twenty-three hours after a refresh: longer than any reconcile takes.
Older(t, from, to) == IF t = from THEN to ELSE t

TokenAges ==
    /\ \A n \in Node : pc[n] = "idle"
    /\ "temp" \in {api[CP].jc, netcfg.jc}
    /\ api' = [api EXCEPT ![CP].jc = Older(@, "temp", "old"),
                          ![CP].stamp = Older(@, "recent", "due")]
    /\ netcfg' = [netcfg EXCEPT !.jc = Older(@, "temp", "old")]
    /\ UNCHANGED <<ctlVars, jobVars, host, tunnel, teardown, repo, secretVars, faults, edits>>

\* The hour that is left is enough for a reconcile that is due, and for the calls
\* that fail in it to be repeated, but not for a machine that cannot be reached.
TokenExpires ==
    /\ \A n \in Node : pc[n] = "idle"
    /\ queue[CP] => ~Reachable(CP)
    /\ "old" \in {api[CP].jc, netcfg.jc}
    /\ api' = [api EXCEPT ![CP].jc = Older(@, "old", "expired")]
    /\ netcfg' = [netcfg EXCEPT !.jc = Older(@, "old", "expired")]
    /\ UNCHANGED <<ctlVars, jobVars, host, tunnel, teardown, repo, secretVars, faults, edits>>

-----------------------------------------------------------------------------

ReconcileCP ==
    \/ AlreadyInitialised \/ ResumeCompletion \/ StartJob \/ FlushProgress
    \/ TakeResult \/ MarkInitComplete
    \/ EnsureRepo \/ CreateNetConfig \/ StampNetConfig \/ PublishJoin \/ ClearInit
    \/ SkipRefresh \/ RefreshToken \/ PatchNetJoin \/ StampRefresh
    \/ Packages \/ MarkPackages

ReconcileWorker(w) ==
    \/ Connect(w) \/ SyncVPN(w) \/ PrepareJoin(w) \/ JoinPhase(w) \/ NameNode(w)
    \/ MarkJoined(w) \/ WorkerReady(w) \/ RecordAddress(w)

Reconcile(n) ==
    \/ Start(n) \/ AddFinalizer(n) \/ ProtectSecrets(n) \/ MarkProvisioning(n) \/ Fail(n)
    \/ ResetHost(n) \/ RemovePeer(n) \/ ReleaseSecrets(n) \/ RemoveFinalizer(n)
    \/ n = CP /\ ReconcileCP
    \/ n \in Worker /\ ReconcileWorker(n)

Job == JobPhase \/ JobEnds \/ JobFails

Environment ==
    \/ \E n \in Node : UserEdits(n) \/ UserDeletes(n) \/ TearDown(n)
    \/ UserDeletesSecret \/ Crash \/ TokenAges \/ TokenExpires

Next == (\E n \in Node : Reconcile(n)) \/ Job \/ Environment

Spec == Init /\ [][Next]_vars

\* The work queue serves every resource in it, timers run out, and the goroutine's
\* commands return.
FairSpec == Spec /\ (\A n \in Node : WF_vars(Reconcile(n))) /\ WF_vars(Job)

-----------------------------------------------------------------------------
(* Properties.                                                             *)

TypeOK ==
    /\ api \in [Node -> Object] /\ loc \in [Node -> Object]
    /\ queue \in [Node -> BOOLEAN] /\ fresh \in [Node -> BOOLEAN]
    /\ pc \in [Node -> PC] /\ tok \in [Node -> Token]
    /\ at \in [Node -> 0..LastCP + LastWorker + 1]
    /\ job \in [st: {"none", "running", "ok", "err"}, at: 0..LastCP + LastWorker + 1]
    /\ prog \in -1..LastCP
    /\ host \in [Node -> SUBSET (0..LastCP + LastWorker)]
    /\ netcfg \in [exists: BOOLEAN, jc: Token, used: SUBSET Node]
    /\ tunnel \subseteq Node /\ teardown \subseteq Node /\ repo \in BOOLEAN
    /\ auth \in [Node -> SecretState] /\ copy \in [Node -> BOOLEAN] /\ vpn \in SecretState
    /\ faults \in 0..MaxFaults /\ edits \in 0..MaxEdits

\* A control plane that says Ready, or has a join command for its workers to use,
\* has every phase on its machine and a NetConfig in its cluster, whatever was
\* repeated, refused or interrupted on the way (completeControlPlane).
ReadyIsProvisioned ==
    (api[CP].phase = "Ready" \/ api[CP].jc # "none") /\ ~api[CP].deleting =>
        host[CP] = Phases(CP) /\ netcfg.exists

\* The progress a retry resumes from never runs ahead of the machine: what it
\* says is done is done (last-completed-phase-cp and -worker).
ProgressBehindHost ==
    \A n \in Node : api[n].exists /\ ~api[n].deleting => 0..api[n].last \subseteq host[n]

\* A worker marked joined, which no reconcile will join again, has joined.
JoinedIsMember ==
    \A w \in Worker : api[w].joined /\ ~api[w].deleting => LastWorker \in host[w]

\* A worker that says Ready has its address in the cluster's NetConfig, where the
\* allocation of addresses looks, unless a call has failed (RecordAddress comes
\* after the status and is not repeated; a create writes the list over).
ReadyWorkerRecorded ==
    \A w \in Worker :
        faults = 0 /\ api[w].phase = "Ready" /\ ~api[w].deleting /\ pc[w] # "record"
        /\ api[CP].exists /\ ~api[CP].deleting => w \in netcfg.used

\* Once the join command is published, or kubeadm join marked done, no phase runs
\* on the machine again: above all not the Cleanup, which resets it.
ProvisionedHostStable ==
    [][\A n \in Node :
         (api[n].jc # "none" \/ api[n].joined) /\ ~api[n].deleting => host'[n] = host[n]]_vars

\* What can keep a control plane from its join command for good.
CutOff == api[CP].deleting \/ ~api[CP].exists \/ ~Reachable(CP) \/ vpn = "gone"

\* Failures, crashes and lost progress do not keep a control plane from being
\* initialised in the end.
InitCompletes == api[CP].exists ~> (api[CP].jc # "none" \/ CutOff)

\* A resource being deleted goes away, reachable machine or not.
DeletionCompletes == \A n \in Node : api[n].deleting ~> ~api[n].exists

\* completeControlPlane creates the NetConfig without a join command, which is all
\* that the NodeProvision controller of the new cluster has to go by.  Unless a call
\* has failed, the first refresh put one there before the package variants were
\* created, after which the resource is not reconciled again.
PackagedClusterJoinable ==
    faults = 0 /\ api[CP].pkgs /\ ~api[CP].deleting => netcfg.jc # "none"

\* The kubeadm token in the status is rotated before it expires (needsTokenRefresh,
\* refreshJoinToken) as long as the machine can be reached and the package variants
\* are not created; the reconcile that creates them schedules no other, so after it
\* nothing rotates the token.
JoinTokenRotated ==
    api[CP].phase = "Ready" /\ ~api[CP].deleting /\ ~api[CP].pkgs /\ Reachable(CP)
        => api[CP].jc # "expired"

\* What a resource stands for, in the terms of ClusterLifecycle.
StageOf(o, done, label) ==
    IF ~o.exists THEN "absent" ELSE IF o.deleting THEN "leaving"
    ELSE IF done THEN label ELSE "new"

ClusterStage == StageOf(api[CP], api[CP].jc # "none", "open")

ClusterComplete == host[CP] = Phases(CP) /\ netcfg.exists

WorkerStage == [w \in Worker |-> StageOf(api[w], api[w].joined, "joined")]

Members == {w \in Worker : LastWorker \in host[w]}

Lifecycle == INSTANCE ClusterLifecycle WITH
    cluster <- ClusterStage, complete <- ClusterComplete,
    worker <- WorkerStage, joined <- Members

\* The controller keeps what ClusterLifecycle promises, whatever fails, crashes or
\* overlaps: a cluster is complete before it has a join command and until it is
\* deleted, no machine joins before that, and one whose worker is marked stays.
ImplementsClusterLifecycle == Lifecycle!LifecycleSpec
=============================================================================
