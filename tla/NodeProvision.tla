--------------------------- MODULE NodeProvision ---------------------------
(***************************************************************************)
(* The NodeProvision controller on its cloud path (AWS and GCP): one       *)
(* NodeProvision resource, the single reconcile worker of the manager, the *)
(* cloud's instances, the VPN server's peers and the NetConfig record of   *)
(* them, the Kubernetes Node and the two credential secrets.               *)
(*                                                                         *)
(* Each step of a reconcile that touches shared state is an action; pc is  *)
(* the place in the reconcile, loc the in-memory copy `np' and locFresh    *)
(* whether its resourceVersion is still the server's.                      *)
(***************************************************************************)
EXTENDS ApiCache, FiniteSets

CONSTANTS
    Instance,        \* instance ids the cloud can hand out
    IP,              \* addresses of the VPN range this resource can get
    None,            \* an empty string field
    Provider,        \* "AWS" or "GCP"
    Prepull,         \* image pre-pull: "off", "filtered" (none for this node), "job"
    MaxFaults,       \* bound: failed calls and crashes
    MaxEdits,        \* bound: writes to the resource or the Node by others
    MaxCreates,      \* bound: times the user creates the resource
    SecretDeletable  \* whether the user may delete the credentials secret

ASSUME ConstantsAssumption ==
    /\ None \notin Instance \cup IP
    /\ Provider \in {"AWS", "GCP"}
    /\ Provider = "GCP" => \A i, j \in Instance : i = j    \* the VM is named after np
    /\ Prepull \in {"off", "filtered", "job"}
    /\ MaxFaults \in Nat /\ MaxEdits \in Nat /\ MaxCreates \in Nat
    /\ SecretDeletable \in BOOLEAN

VARIABLES
    pc, loc, locFresh,        \* the reconcile in progress
    alloc, launched,          \* its locals: vpnIP and result.InstanceID
    inst, instIP,             \* the cloud: instance states and their VPN IPs
    srv,                      \* VPN server: addresses with a peer of this node
    ncPeers, usedIPs,         \* NetConfig status: VPNPeers, UsedIPAddresses
    node,                     \* the Kubernetes Node
    job,                      \* the pre-pull Job
    userSecret, ctrlSecret,   \* existence of the user's secret, of the copy
    faults, edits, creates    \* budgets spent

ctlVars    == <<pc, loc, locFresh, alloc, launched>>
cloudVars  == <<inst, instIP>>
vpnVars    == <<srv, ncPeers, usedIPs>>
k8sVars    == <<node, job>>
secretVars == <<userSecret, ctrlSecret>>
worldVars  == <<cloudVars, vpnVars, k8sVars, secretVars>>
vars == <<apiVars, ctlVars, worldVars, faults, edits, creates>>

Phase == {"Empty", "Validating", "ConfiguringVPN", "CreatingInstance",
          "WaitingForInstance", "Bootstrapping", "RegisteringNode",
          "PrePullingImages", "Ready", "Failed", "Deleting"}

Object == [exists: BOOLEAN, finalizer: BOOLEAN, deleting: BOOLEAN,
           resolved: BOOLEAN,             \* spec defaults filled in
           phase: Phase,
           iid: Instance \cup {None},     \* status.instanceId
           vpnIP: IP \cup {None},         \* status.vpnIP and status.ipAddress
           named: BOOLEAN]                \* status.nodeName is set

NoObject == [exists |-> FALSE, finalizer |-> FALSE, deleting |-> FALSE,
             resolved |-> FALSE, phase |-> "Empty", iid |-> None,
             vpnIP |-> None, named |-> FALSE]

NoNode == [exists |-> FALSE, finalizer |-> FALSE, deleting |-> FALSE, ip |-> None]

PC == {"idle", "addFinalizer", "advance", "resolve", "validating", "configureVPN",
       "connectVPN", "register", "launch", "record", "persist", "fail",
       "poll", "join", "joined", "prepull", "markReady", "cleanup", "release",
       "retry", "delete", "deleteNode", "terminate", "clearIID", "unfinalize"}

Init ==
    /\ store = NoObject /\ cached = NoObject /\ stream = <<>>
    /\ pc = "idle" /\ loc = NoObject /\ locFresh = FALSE
    /\ alloc = None /\ launched = None
    /\ inst = [i \in Instance |-> "none"]
    /\ instIP = [i \in Instance |-> None]
    /\ srv = {} /\ ncPeers = {} /\ usedIPs = {}
    /\ node = NoNode /\ job = "none"
    /\ userSecret = TRUE /\ ctrlSecret = FALSE
    /\ faults = 0 /\ edits = 0 /\ creates = 0

-----------------------------------------------------------------------------
(* How a reconcile talks to the API server, and how it ends.               *)

\* A call fails for a reason of its own (timeout, refused connection, cloud error).
Fault == faults < MaxFaults /\ faults' = faults + 1

\* r.Get: the cache answers.
Read ==
    /\ loc' = cached
    /\ locFresh' = CacheCurrent

\* Mutant: a status merge patch, which carries no resourceVersion.
CommitUnlocked(o) ==
    /\ store.exists
    /\ Write([store EXCEPT !.phase = o.phase, !.iid = o.iid, !.vpnIP = o.vpnIP,
                           !.named = o.named, !.finalizer = o.finalizer,
                           !.exists = o.exists])
    /\ UNCHANGED faults

\* A copy that is written back: accepted only at the newest resourceVersion.
Commit(o) ==
    /\ locFresh
    /\ Write(o)
    /\ UNCHANGED faults

\* The write is refused as a conflict, or the call fails.
Lost ==
    /\ \/ ~locFresh /\ UNCHANGED faults
       \/ locFresh /\ Fault
    /\ UNCHANGED apiVars

\* A step that can also fail and then writes nothing.
NoFault == UNCHANGED faults

Goto(label) == pc' = label /\ UNCHANGED <<alloc, launched>>

Keep == UNCHANGED <<loc, locFresh>>

\* The reconcile returns: its locals are gone.
Return ==
    /\ pc' = "idle"
    /\ loc' = NoObject /\ locFresh' = FALSE
    /\ alloc' = None /\ launched' = None

-----------------------------------------------------------------------------
(* Reconcile: read the resource, copy the credentials, dispatch.           *)

\* Mutant: whatever failed or is being deleted is torn down.
DispatchTearDown(np) ==
    CASE np.finalizer /\ (np.deleting \/ np.phase = "Failed") -> "delete"
      [] np.finalizer /\ np.phase \in {"Empty", "Validating"} -> "resolve"
      [] ~np.finalizer /\ ~np.deleting -> "addFinalizer"
      [] OTHER -> "idle"

\* Mutant: the finalizer is put off until there is something to release.
DispatchLateFinalizer(np) ==
    CASE np.finalizer /\ np.deleting -> "delete"
      [] ~np.deleting /\ np.phase \in {"Empty", "Validating"} -> "resolve"
      [] ~np.deleting /\ ~np.finalizer -> "addFinalizer"
      [] OTHER -> "idle"

\* The branch Reconcile takes; "idle" is a return that does nothing more.
Dispatch(np) ==
    CASE np.deleting /\ np.finalizer -> "delete"
      [] np.deleting /\ ~np.finalizer -> "idle"
      [] ~np.deleting /\ ~np.finalizer -> "addFinalizer"
      [] OTHER ->
         CASE np.phase \in {"Empty", "Validating"} ->
                IF ~userSecret THEN "idle"
                ELSE IF np.iid # None THEN "advance" ELSE "resolve"
           [] np.phase \in {"ConfiguringVPN", "CreatingInstance"} ->
                IF np.iid # None THEN "advance" ELSE "idle"
           [] np.phase = "WaitingForInstance" -> IF userSecret THEN "poll" ELSE "idle"
           [] np.phase \in {"Bootstrapping", "RegisteringNode"} -> "join"
           [] np.phase = "PrePullingImages" -> "prepull"
           [] np.phase = "Failed" -> "cleanup"
           [] OTHER -> "idle"

Managed(np) == np.finalizer /\ ~np.deleting

\* ensureControllerCredsSecret, whose failure is logged and passed over.  A copy
\* made for a resource that is gone has no owner left and is collected.
CopySecret(np) ==
    IF Managed(np) /\ userSecret
    THEN \/ ctrlSecret' = (ctrlSecret \/ store.exists) /\ NoFault
         \/ ~ctrlSecret /\ UNCHANGED ctrlSecret /\ Fault
    ELSE UNCHANGED <<ctrlSecret, faults>>

Start ==
    /\ pc = "idle"
    /\ cached.exists
    /\ CopySecret(cached)
    /\ pc' = Dispatch(cached)
    /\ IF pc' = "idle" THEN UNCHANGED <<loc, locFresh>> ELSE Read
    /\ UNCHANGED <<apiVars, alloc, launched, cloudVars, vpnVars, k8sVars,
                   userSecret, edits, creates>>

AddFinalizer ==
    /\ pc = "addFinalizer"
    /\ \/ Commit([loc EXCEPT !.finalizer = TRUE])
       \/ Lost
    /\ Return
    /\ UNCHANGED <<worldVars, edits, creates>>

\* An instance id is recorded already: no second launch.
AdvanceToWaiting ==
    /\ pc = "advance"
    /\ \/ Commit([loc EXCEPT !.phase = "WaitingForInstance"])
       \/ Lost
    /\ Return
    /\ UNCHANGED <<worldVars, edits, creates>>

-----------------------------------------------------------------------------
(* reconcileAWSProvisioning, reconcileGCPProvisioning.                     *)

\* The defaults are merge-patched into the spec, without a version check.
ResolveDefaults ==
    /\ pc = "resolve"
    /\ \/ /\ ~loc.resolved /\ store.exists
          /\ Write([store EXCEPT !.resolved = TRUE])
          /\ Return /\ NoFault
       \/ /\ loc.resolved
          /\ Goto("validating") /\ Keep /\ NoFault /\ UNCHANGED apiVars
       \/ /\ \/ ~loc.resolved /\ ~store.exists /\ NoFault
             \/ Fault
          /\ Goto("fail") /\ Keep /\ UNCHANGED apiVars
    /\ UNCHANGED <<worldVars, edits, creates>>

\* A progress marker: if its write is lost the resource is read again and the
\* reconcile goes on with what it got, without repeating the idempotency guard.
ProgressMarker(phase, next) ==
    \/ /\ Commit([loc EXCEPT !.phase = phase])
       /\ loc' = [loc EXCEPT !.phase = phase] /\ locFresh' = TRUE
       /\ Goto(next)
    \/ /\ Lost
       /\ IF cached.exists THEN Read /\ Goto(next) ELSE Return

MarkValidating ==
    /\ pc = "validating"
    /\ ProgressMarker("Validating", "configureVPN")
    /\ UNCHANGED <<worldVars, edits, creates>>

\* requireNetConfig may fail, which requeues; then the second marker.
MarkConfiguringVPN ==
    /\ pc = "configureVPN"
    /\ \/ ProgressMarker("ConfiguringVPN", "connectVPN")
       \/ Fault /\ Return /\ UNCHANGED apiVars
    /\ UNCHANGED <<worldVars, edits, creates>>

\* The SSH connection to the VPN server may fail; then the third marker.
ConnectVPN ==
    /\ pc = "connectVPN"
    /\ \/ ProgressMarker("CreatingInstance", "register")
       \/ Fault /\ Return /\ UNCHANGED apiVars
    /\ UNCHANGED <<worldVars, edits, creates>>

FreeIP == IP \ (usedIPs \cup srv)

\* AllocateVPNIP and RegisterVPNPeer; an error between registering the peer and
\* building the result returns no result at all.
RegisterPeer ==
    /\ pc = "register"
    /\ \/ \E ip \in FreeIP :
            /\ srv' = srv \cup {ip}
            /\ \/ pc' = "launch" /\ alloc' = ip /\ NoFault
               \/ pc' = "fail" /\ alloc' = None /\ Fault
       \/ /\ \/ FreeIP = {} /\ NoFault
             \/ Fault
          /\ pc' = "fail" /\ UNCHANGED <<alloc, srv>>
    /\ Keep
    /\ UNCHANGED <<apiVars, launched, cloudVars, ncPeers, usedIPs, k8sVars,
                   secretVars, edits, creates>>

\* EC2 hands out a new id; a GCP VM is named after the resource, and the API
\* refuses the name while a VM has it.
Launchable(i) == inst[i] = "none" \/ (Provider = "GCP" /\ inst[i] = "terminated")

LaunchInstance ==
    /\ pc = "launch"
    /\ \/ \E i \in Instance :
            /\ Launchable(i)
            /\ inst' = [inst EXCEPT ![i] = "pending"]
            /\ instIP' = [instIP EXCEPT ![i] = alloc]
            /\ launched' = i /\ NoFault
       \/ /\ \/ (\A i \in Instance : ~Launchable(i)) /\ NoFault
             \/ Fault
          /\ UNCHANGED <<inst, instIP, launched>>
    /\ pc' = "record"
    /\ Keep
    /\ UNCHANGED <<apiVars, alloc, vpnVars, k8sVars, secretVars, edits, creates>>

\* updateNetConfigStatus, not fatal; then the resource is read again before its
\* status is written, or the failure path is taken with the address in memory.
RecordAllocation ==
    /\ pc = "record"
    /\ \/ usedIPs' = usedIPs \cup {alloc} /\ ncPeers' = ncPeers \cup {alloc} /\ NoFault
       \/ UNCHANGED <<usedIPs, ncPeers>> /\ Fault
    /\ IF launched = None
       THEN loc' = [loc EXCEPT !.vpnIP = alloc] /\ UNCHANGED locFresh /\ Goto("fail")
       ELSE IF cached.exists THEN Read /\ Goto("persist") ELSE Return
    /\ UNCHANGED <<apiVars, cloudVars, srv, k8sVars, secretVars, edits, creates>>

\* The write that makes the instance known.
PersistInstanceID ==
    /\ pc = "persist"
    /\ \/ Commit([loc EXCEPT !.phase = "WaitingForInstance", !.iid = launched,
                             !.vpnIP = alloc])
       \/ Lost
    /\ Return
    /\ UNCHANGED <<worldVars, edits, creates>>

\* failNodeProvision
Fail ==
    /\ pc = "fail"
    /\ \/ Commit([loc EXCEPT !.phase = "Failed"])
       \/ Lost
    /\ Return
    /\ UNCHANGED <<worldVars, edits, creates>>

-----------------------------------------------------------------------------
(* reconcileWaitingForInstance, reconcileJoining, reconcileNPImagePrepull. *)

InstanceUp(i) == i # None /\ inst[i] \in {"running", "joined"}

PollInstance ==
    /\ pc = "poll"
    /\ \/ InstanceUp(loc.iid) /\ Commit([loc EXCEPT !.phase = "Bootstrapping"])
       \/ InstanceUp(loc.iid) /\ Lost
       \/ ~InstanceUp(loc.iid) /\ NoFault /\ UNCHANGED apiVars
    /\ Return
    /\ UNCHANGED <<worldVars, edits, creates>>

\* Mutant: the Node is looked up by what only stamping puts on it.
NodeFoundByLabel == node.exists /\ node.finalizer /\ node.ip = loc.vpnIP

NodeFound == node.exists /\ loc.vpnIP # None /\ node.ip = loc.vpnIP

AwaitNode ==
    /\ pc = "join" /\ ~NodeFound
    /\ \/ Commit([loc EXCEPT !.phase = "RegisteringNode"])
       \/ Lost
    /\ Return
    /\ UNCHANGED <<worldVars, edits, creates>>

\* Mutant: the labels without the finalizer.
LabelledOnly(n) == n

Stamped(n) == [n EXCEPT !.finalizer = TRUE]

\* Labels and the management finalizer go onto the Node before anything is
\* recorded in the resource.
StampNode ==
    /\ pc = "join" /\ NodeFound
    /\ \/ /\ node' = Stamped(node)
          /\ loc' = [loc EXCEPT !.named = TRUE] /\ UNCHANGED locFresh
          /\ Goto("joined") /\ NoFault
       \/ Fault /\ Return /\ UNCHANGED node
    /\ UNCHANGED <<apiVars, cloudVars, vpnVars, job, secretVars, edits, creates>>

\* Mutant: a phase nobody handles on this path.
PhaseAfterJoinUnhandled == "VerifyingHealth"

PhaseAfterJoin == IF Prepull = "off" THEN "Ready" ELSE "PrePullingImages"

\* A NetConfig that cannot be read skips the pre-pull phase.
RecordJoin ==
    /\ pc = "joined"
    /\ \/ Commit([loc EXCEPT !.phase = PhaseAfterJoin])
       \/ Prepull # "off" /\ locFresh /\ Write([loc EXCEPT !.phase = "Ready"]) /\ Fault
       \/ Lost
    /\ Return
    /\ UNCHANGED <<worldVars, edits, creates>>

\* markNodeProvisionReady starts by reading the resource again.
BeginMarkReady ==
    IF cached.exists THEN Read /\ Goto("markReady") ELSE Return

PrepullImages ==
    /\ pc = "prepull"
    /\ \/ Prepull # "job" /\ BeginMarkReady /\ UNCHANGED job /\ NoFault
       \/ Prepull = "job" /\ job = "complete" /\ BeginMarkReady /\ UNCHANGED job /\ NoFault
       \/ Prepull = "job" /\ job = "none" /\ Return /\ NoFault
            /\ job' = IF store.exists THEN "running" ELSE "none"
       \/ Prepull = "job" /\ job = "failed" /\ Return /\ NoFault /\ job' = "none"
       \/ Prepull = "job" /\ job = "running" /\ Return /\ NoFault /\ UNCHANGED job
       \/ Fault /\ Return /\ UNCHANGED job
    /\ UNCHANGED <<apiVars, cloudVars, vpnVars, node, secretVars, edits, creates>>

MarkReady ==
    /\ pc = "markReady"
    /\ \/ Commit([loc EXCEPT !.phase = "Ready"])
       \/ Lost
    /\ Return
    /\ UNCHANGED <<worldVars, edits, creates>>

-----------------------------------------------------------------------------
(* cleanupVPNPeer, called by the Failed branch and by handleDelete.        *)

\* Where the caller goes on: handleDelete to the finalizer, the Failed branch to
\* a fresh read that must still say Failed.
AfterCleanup ==
    IF loc.deleting THEN Goto("unfinalize") /\ Keep
    ELSE IF cached.exists /\ cached.phase = "Failed" THEN Read /\ Goto("retry")
    ELSE Return

\* The address whose peer is removed: the record kept under this node's name, or
\* else the one in the resource's status.
CleanupTargets == IF ncPeers # {} THEN ncPeers ELSE {loc.vpnIP}

\* The peer leaves the server (a failure there is logged only); or the server
\* cannot be reached and the caller goes on regardless.
CleanupServer ==
    /\ pc = "cleanup"
    /\ \/ \E ip \in CleanupTargets :
            /\ alloc' = ip /\ pc' = "release"
            /\ \/ srv' = srv \ {ip} /\ NoFault
               \/ ip \in srv /\ UNCHANGED srv /\ Fault
            /\ UNCHANGED launched /\ Keep
       \/ Fault /\ AfterCleanup /\ UNCHANGED srv
    /\ UNCHANGED <<apiVars, cloudVars, ncPeers, usedIPs, k8sVars, secretVars,
                   edits, creates>>

\* Every record under this name goes, and the one address.
CleanupNetConfig ==
    /\ pc = "release"
    /\ \/ ncPeers' = {} /\ usedIPs' = usedIPs \ {alloc} /\ NoFault
       \/ UNCHANGED <<ncPeers, usedIPs>> /\ Fault
    /\ AfterCleanup
    /\ UNCHANGED <<apiVars, cloudVars, srv, k8sVars, secretVars, edits, creates>>

ResetAfterFailure ==
    /\ pc = "retry"
    /\ \/ Commit([loc EXCEPT !.phase = "Empty", !.vpnIP = None])
       \/ Lost
    /\ Return
    /\ UNCHANGED <<worldVars, edits, creates>>

-----------------------------------------------------------------------------
(* handleDelete.                                                           *)

\* The phase write may be lost; the copy in memory keeps it.
BeginDelete ==
    /\ pc = "delete"
    /\ \/ Commit([loc EXCEPT !.phase = "Deleting"]) /\ locFresh' = TRUE
       \/ Lost /\ UNCHANGED locFresh
    /\ loc' = [loc EXCEPT !.phase = "Deleting"]
    /\ Goto("deleteNode")
    /\ UNCHANGED <<worldVars, edits, creates>>

\* Mutant: the not-found answer is not taken for a confirmation.
NodeNeverNamed == ~loc.named

NodeGone == ~loc.named \/ ~node.exists

\* Strip the finalizer, delete, and come back later to see the Node gone.
DeleteNode ==
    /\ pc = "deleteNode" /\ ~NodeGone
    /\ \/ node' = NoNode /\ NoFault
       \/ node' = [node EXCEPT !.deleting = TRUE] /\ node.finalizer /\ Fault
       \/ node' = [node EXCEPT !.finalizer = FALSE] /\ ~node.deleting /\ Fault
    /\ Return
    /\ UNCHANGED <<apiVars, cloudVars, vpnVars, job, secretVars, edits, creates>>

ConfirmNodeGone ==
    /\ pc = "deleteNode" /\ NodeGone
    /\ Goto(IF loc.iid = None THEN "cleanup" ELSE "terminate")
    /\ Keep
    /\ UNCHANGED <<apiVars, worldVars, faults, edits, creates>>

\* Mutant: the failure is logged and the deletion goes on.
TerminateErrorLogged ==
    loc' = [loc EXCEPT !.iid = None] /\ UNCHANGED locFresh /\ Goto("clearIID")

\* A failed termination ends the reconcile with an error.
TerminateError == Return

\* Termination, with the user's secret or the controller's copy.  The id is
\* cleared in memory only once the call has succeeded.
TerminateInstance ==
    /\ pc = "terminate"
    /\ \/ /\ userSecret \/ ctrlSecret
          /\ inst' = [inst EXCEPT ![loc.iid] = "terminated"]
          /\ loc' = [loc EXCEPT !.iid = None] /\ UNCHANGED locFresh
          /\ Goto("clearIID") /\ NoFault
       \/ /\ \/ ~userSecret /\ ~ctrlSecret /\ NoFault
             \/ Fault
          /\ TerminateError /\ UNCHANGED inst
    /\ UNCHANGED <<apiVars, instIP, vpnVars, k8sVars, secretVars, edits, creates>>

ClearInstanceID ==
    /\ pc = "clearIID"
    /\ \/ Commit(loc) /\ locFresh' = TRUE
       \/ Lost /\ UNCHANGED locFresh
    /\ Goto("cleanup")
    /\ UNCHANGED <<loc, worldVars, edits, creates>>

\* Removing the last finalizer of a deleted object deletes it, and what it owns.
\* The call updates metadata and spec only: status stays as it was stored.
RemoveFinalizer ==
    /\ pc = "unfinalize"
    /\ \/ /\ Commit([store EXCEPT !.finalizer = FALSE, !.exists = FALSE])
          /\ ctrlSecret' = FALSE /\ job' = "none"
       \/ Lost /\ UNCHANGED <<ctrlSecret, job>>
    /\ Return
    /\ UNCHANGED <<cloudVars, vpnVars, node, userSecret, edits, creates>>

-----------------------------------------------------------------------------
(* The rest of the world.                                                  *)

\* Someone else writes the resource: the reconcile's copy is now out of date.
WriteByOther(o) ==
    /\ Write(o)
    /\ locFresh' = FALSE
    /\ UNCHANGED <<pc, loc, alloc, launched, faults>>

UserCreates ==
    /\ ~store.exists /\ creates < MaxCreates
    /\ creates' = creates + 1
    /\ \E full \in BOOLEAN :    \* a spec with or without its optional fields
          WriteByOther([NoObject EXCEPT !.exists = TRUE, !.resolved = full])
    /\ UNCHANGED <<worldVars, edits>>

UserEdits ==
    /\ store.exists /\ edits < MaxEdits
    /\ edits' = edits + 1
    /\ WriteByOther(store)
    /\ UNCHANGED <<worldVars, creates>>

UserDeletes ==
    /\ store.exists /\ ~store.deleting
    /\ WriteByOther(IF store.finalizer THEN [store EXCEPT !.deleting = TRUE]
                    ELSE [store EXCEPT !.deleting = TRUE, !.exists = FALSE])
    /\ UNCHANGED <<worldVars, edits, creates>>

UserDeletesSecret ==
    /\ SecretDeletable /\ userSecret
    /\ userSecret' = FALSE
    /\ UNCHANGED <<apiVars, ctlVars, cloudVars, vpnVars, k8sVars, ctrlSecret,
                   faults, edits, creates>>

\* kubectl delete node: a finalizer turns it into a request.
UserDeletesNode ==
    /\ node.exists /\ ~node.deleting /\ edits < MaxEdits
    /\ edits' = edits + 1
    /\ node' = IF node.finalizer THEN [node EXCEPT !.deleting = TRUE] ELSE NoNode
    /\ UNCHANGED <<apiVars, ctlVars, cloudVars, vpnVars, job, secretVars,
                   faults, creates>>

CacheDelivers ==
    /\ Deliver
    /\ UNCHANGED <<ctlVars, worldVars, faults, edits, creates>>

\* The manager dies in mid-reconcile and another one starts.
Crash ==
    /\ pc # "idle"
    /\ Fault /\ Return /\ Relist
    /\ UNCHANGED <<worldVars, edits, creates>>

InstanceBoots(i) ==
    /\ inst[i] = "pending"
    /\ inst' = [inst EXCEPT ![i] = "running"]
    /\ UNCHANGED <<apiVars, ctlVars, instIP, vpnVars, k8sVars, secretVars,
                   faults, edits, creates>>

\* cloud-init brings the tunnel up and kubeadm join registers the Node.
NodeRegisters(i) ==
    /\ inst[i] = "running" /\ instIP[i] \in srv /\ ~node.exists
    /\ inst' = [inst EXCEPT ![i] = "joined"]
    /\ node' = [NoNode EXCEPT !.exists = TRUE, !.ip = instIP[i]]
    /\ UNCHANGED <<apiVars, ctlVars, instIP, vpnVars, job, secretVars,
                   faults, edits, creates>>

JobFinishes ==
    /\ job = "running"
    /\ \/ job' = "complete" /\ NoFault
       \/ job' = "failed" /\ Fault
    /\ UNCHANGED <<apiVars, ctlVars, cloudVars, vpnVars, node, secretVars,
                   edits, creates>>

\* ttlSecondsAfterFinished passes before the controller looks.
JobExpires ==
    /\ job \in {"complete", "failed"}
    /\ job' = "none" /\ Fault
    /\ UNCHANGED <<apiVars, ctlVars, cloudVars, vpnVars, node, secretVars,
                   edits, creates>>

-----------------------------------------------------------------------------
Provisioning ==
    \/ ResolveDefaults \/ MarkValidating \/ MarkConfiguringVPN \/ ConnectVPN
    \/ RegisterPeer \/ LaunchInstance \/ RecordAllocation \/ PersistInstanceID
    \/ Fail

Joining ==
    \/ PollInstance \/ AwaitNode \/ StampNode \/ RecordJoin \/ PrepullImages
    \/ MarkReady

Releasing == CleanupServer \/ CleanupNetConfig \/ ResetAfterFailure

Deleting ==
    \/ BeginDelete \/ DeleteNode \/ ConfirmNodeGone \/ TerminateInstance
    \/ ClearInstanceID \/ RemoveFinalizer

Reconcile ==
    \/ Start \/ AddFinalizer \/ AdvanceToWaiting
    \/ Provisioning \/ Joining \/ Releasing \/ Deleting

User == UserCreates \/ UserEdits \/ UserDeletes \/ UserDeletesSecret \/ UserDeletesNode

Cloud ==
    \/ \E i \in Instance : InstanceBoots(i) \/ NodeRegisters(i)
    \/ JobFinishes \/ JobExpires

Next == Reconcile \/ User \/ CacheDelivers \/ Crash \/ Cloud

Spec == Init /\ [][Next]_vars

\* The work queue keeps calling Reconcile, the watch keeps delivering, and the
\* cloud does what it was asked to; users owe nothing.
Fairness ==
    /\ WF_vars(Reconcile)
    /\ WF_vars(CacheDelivers)
    /\ WF_vars(\E i \in Instance : InstanceBoots(i))
    /\ WF_vars(\E i \in Instance : NodeRegisters(i))
    /\ WF_vars(JobFinishes)

FairSpec == Spec /\ Fairness
-----------------------------------------------------------------------------
(* Properties.                                                             *)

\* Type invariant of the controller, the cloud, the VPN server and the cluster.
TypeOK ==
    /\ store \in Object /\ cached \in Object /\ stream \in Seq(Object)
    /\ pc \in PC /\ loc \in Object /\ locFresh \in BOOLEAN
    /\ alloc \in IP \cup {None} /\ launched \in Instance \cup {None}
    /\ inst \in [Instance -> {"none", "pending", "running", "joined", "terminated"}]
    /\ instIP \in [Instance -> IP \cup {None}]
    /\ srv \subseteq IP /\ ncPeers \subseteq IP /\ usedIPs \subseteq IP
    /\ node \in [exists: BOOLEAN, finalizer: BOOLEAN, deleting: BOOLEAN,
                 ip: IP \cup {None}]
    /\ job \in {"none", "running", "complete", "failed"}
    /\ userSecret \in BOOLEAN /\ ctrlSecret \in BOOLEAN
    /\ faults \in 0..MaxFaults /\ edits \in 0..MaxEdits
    /\ creates \in 0..MaxCreates

\* "Secrets and the finalizer must not be removed until the instance is confirmed
\* gone", for the instance the status names: whatever failed, crashed or was read
\* from a stale cache, handleDelete lets the resource go only after that instance
\* was terminated.
RecordedInstanceTerminated ==
    ~store.exists /\ store.iid # None => inst[store.iid] = "terminated"

\* The Node a live resource calls Ready is in the cluster under the management
\* finalizer, whatever stale copy a reconcile of it held in between
\* (reconcileJoining stamps, then records).
ReadyNodeStamped ==
    store.exists /\ ~store.deleting /\ store.phase = "Ready"
        => node.exists /\ node.finalizer

\* No reconcile of a stale copy takes an instance away from a resource nobody
\* deletes, nor from one created anew under the name of a deleted one: termination
\* happens in handleDelete only, and for the resource that is being deleted.
TerminatesOnlyDeleted ==
    [][\A i \in Instance :
         inst[i] # "terminated" /\ inst'[i] = "terminated"
            => store.exists /\ store.deleting]_vars

\* An instance is started only for a resource that exists and cannot go without
\* handleDelete: a reconcile that began on an old copy of a deleted, or of a since
\* recreated, resource gets no further than that.
LaunchesOnlyManaged ==
    [][\A i \in Instance :
         inst[i] # "pending" /\ inst'[i] = "pending"
            => store.exists /\ store.finalizer]_vars

\* A resource that reached Ready is never provisioned again: markers and failures
\* of a reconcile that began on an older copy do not overwrite it.
ReadyIsFinal ==
    [][store.exists /\ store.phase = "Ready" /\ store'.exists
            => store'.phase \in {"Ready", "Deleting"}]_vars

\* The resource as its user sees it, and the machines as the cloud bills them.
ResourceState ==
    IF ~store.exists THEN "absent"
    ELSE IF ~store.finalizer THEN "new"
    ELSE IF store.deleting THEN "deleting" ELSE "managed"

MachineState == [i \in Instance |-> IF inst[i] = "none" THEN "off"
                                    ELSE IF inst[i] = "terminated" THEN "gone"
                                    ELSE "on"]

Lifecycle == INSTANCE NodeLifecycle WITH
    resource <- ResourceState, held <- store.iid, machine <- MachineState

\* The controller with its stale copies, lost writes and crashes implements the
\* lifecycle: every step is one of it or shows nothing (Reconcile, handleDelete).
ImplementsLifecycle == Lifecycle!LifecycleSpec

\* handleDelete gets through, whatever finite number of calls fail, as long as a
\* credentials secret is there to terminate with.
DeletionCompletes == (store.exists /\ store.deleting) ~> ~store.exists

\* Once the instance is recorded, polling and joining bring the resource to Ready,
\* unless its tunnel was torn down or an earlier duplicate holds the Node's name.
RecordedReachesReady ==
    (store.exists /\ store.phase = "WaitingForInstance")
        ~> \/ store.phase = "Ready" \/ store.deleting
           \/ store.vpnIP \notin srv
           \/ node.exists /\ node.ip # store.vpnIP

\* "This prevents a duplicate launch when a prior reconcile created the instance
\* but failed to persist the status update."
SingleLaunch ==
    \A i, j \in Instance :
        inst[i] \in {"pending", "running", "joined"}
        /\ inst[j] \in {"pending", "running", "joined"} => i = j

\* "requeue briefly so the in-flight reconcile (or a controller restart recovery)
\* can complete": the phases that are never re-entered are left.
CreationRecovers ==
    (store.exists /\ store.phase \in {"ConfiguringVPN", "CreatingInstance"})
        ~> (store.phase \notin {"ConfiguringVPN", "CreatingInstance"} \/ store.deleting)

\* "a parallel reconcile may have already reset the phase, in which case we do
\* nothing": a launched instance that is being brought up keeps the tunnel it was
\* configured with, under the address the status gives.
InstanceKeepsTunnel ==
    /\ store.exists /\ ~store.deleting /\ store.iid # None
    /\ store.phase \in {"WaitingForInstance", "Bootstrapping", "RegisteringNode",
                       "PrePullingImages", "Ready"}
    => store.vpnIP \in srv /\ instIP[store.iid] = store.vpnIP
=============================================================================
