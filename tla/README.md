# PublicCloud-VM-Provisioner in TLA+

A specification of the controllers of this repository: what the code does step
by step, what it is meant to guarantee, what TLC checks on small instances and
what is proved for all of them. Paths are relative to the repository and start
with `src/`; `N` stands for
`src/internal/controller/ml/nodeprovision_controller.go`, `R` for
`src/internal/controller/remotecluster_controller.go`.

## 1. The system

One manager process (`src/cmd/main.go`) runs three controllers and a credential
manager. A **RemoteCluster** turns a machine reachable over SSH into a
Kubernetes control plane or one of its workers. A **NodeProvision** adds a node
to such a cluster: an EC2 instance, a Compute Engine VM or an on-prem machine.
The **NodeProvisionNetConfig** holds what a new node needs: the join command, the
VPN server, the VPN addresses in use and the WireGuard peers. All nodes talk
through that WireGuard server, which the controllers configure over SSH.

### Inventory

| Component | State it keeps | Operations | Talks to |
|---|---|---|---|
| NodeProvision controller, cloud path (`N` 188-879, 1084-1707) | the resource (phase, instance id, address, node name, finalizer), the copied credentials secret | Reconcile: finalizer, copy of the secret, provisioning, polling, joining, pre-pull, retry after failure; handleDelete | API server through a cache, cloud, VPN server, Node, Job, secrets |
| NodeProvision controller, on-prem path (`N` 888-1078) | `onPremJobs`, `onPremProgress`: one goroutine and one result channel per node | start, poll, record, cleanupOnPremNode | on-prem provisioner |
| VPN allocation (`src/provider/onprem/provisioner.go` 394-606, 740-794; `N` 1720-1854, 2227-2281) | `wg0` and `wg0.conf` on the server; `usedIPAddresses` and `vpnPeers` of the NetConfig | AllocateVPNIP, RegisterVPNPeer, updateNetConfigStatus, cleanupVPNPeer | VPN server over SSH, NetConfig |
| On-prem provisioner (the same file, 45-381) | none of its own | NewInClusterProvisioner: allocate, register, install, join | the machine over SSH |
| EC2 and GCP providers (`src/provider/aws/ec2.go`, `src/provider/gcp/compute.go`) | instances in the cloud | provision, wait, terminate; AWS defaults | cloud APIs, VPN allocation |
| Credential manager (`src/provider/aws/credmanager.go`, `mfa.go`) | the cache of sessions; sessions persisted in the secret | Get, Evict, Start, refresh | STS, secret |
| RemoteCluster controller (`src/internal/controller/remotecluster_controller.go`) | phase, join command, annotations for resuming | control-plane goroutine, worker join, token refresh, NetConfig create and update, best-effort deletion | machines over SSH, NetConfig, Porch |
| kubeadm phases (`src/pkg/kubeadm/kubeadm.go`) | the index of the last completed phase | runPhases, InitializeControlPlane, JoinWorkerNode | machines over SSH |
| Cloud-init (`src/provider/aws/cloudinit.go`) | the booting instance | tunnel, runtime, kubeadm join | VPN server, API server |
| NetConfig controller, SSH client, runtime installation, Argo CD | none | a scaffold; I/O | |

### What is hard here

* Every read goes through an informer's cache and may be several versions old,
  the reconcile's own last write included. Full updates are refused at an old
  resourceVersion; merge patches are not.
* Between a side effect (an instance, a peer, a Node's finalizer) and the write
  that records it lie a failure, a conflict or a crash.
* On-prem bootstraps run in goroutines beside the worker and beside each other,
  all on one WireGuard server, in several SSH calls each.
* The RemoteCluster controller, with ten workers of its own, writes the same
  NetConfig lists with `kubectl`. kubeadm runs for minutes in a goroutine, whose
  progress and result reach annotations late or never.
* Sessions expire while two threads, STS and restarts compete over them.

`PROJECT.json` lists each hazard at its line, with the properties that catch it.

### What makes each part correct

* *NodeProvision, cloud:* the recorded instance is terminated before the resource
  goes; an instance is started only for a resource that handleDelete will see; a
  live resource keeps its instance and, while it comes up, its tunnel; one
  instance per resource; Ready is final and the Node of a Ready resource is under
  the finalizer; deletion gets through; a recorded instance gets to Ready.
* *VPN allocation:* one address, one peer, on the server and after its restart; a
  registration takes no tunnel away; records are not lost.
* *Credentials:* never expired ones in hand; sessions renewed before they expire;
  nothing renewed for a deleted secret.
* *On-prem jobs:* one goroutine per node; its result is recorded once and not
  lost; nothing outlives the resource.
* *RemoteCluster:* no phase is skipped, and none is repeated on a machine whose
  join command is published; a Ready worker's address is recorded; Ready means
  provisioned, with a NetConfig and a token that is rotated; initialisation and
  deletion get through.

## 2. Modules

| Module | What it is |
|---|---|
| `ApiCache` | One resource behind an informer: `store`, `cached`, `stream`, and Write, Deliver, Relist. |
| `NodeProvision` | The cloud path, one action per step of a reconcile that touches shared state. Extends `ApiCache`. |
| `MCNodeProvision` | Symmetry sets for TLC. |
| `NodeProvisionProofs` | Inductive invariant and theorems about `NodeProvision`. |
| `NodeLifecycle` | What the cloud path promises about machines, abstractly; `NodeProvision` implements it. |
| `NodeLifecycleProofs` | The refinement, proved. Extends `NodeProvisionProofs`. |
| `NodeReadyProofs` | A Ready resource has its Node and stays Ready, proved. Extends `NodeLifecycleProofs`. |
| `VPNAllocation` | Attempts, the server, the NetConfig (the resource of `ApiCache`) and cleanup. |
| `MCVPNAllocation` | Its small instances. |
| `VPNAllocationProofs` | Invariant and theorems about `VPNAllocation`. |
| `CredentialManager` | The credential cache with time; the secret is the resource of `ApiCache`. |
| `CredentialManagerProofs` | Invariant and theorems about `CredentialManager`. |
| `RemoteCluster` | A cluster's control plane and workers: a reconcile of each, the kubeadm goroutine, the machines, the NetConfig, the secrets. |
| `RemoteClusterProofs` | Invariant and theorems about `RemoteCluster`. |
| `ClusterLifecycle` | What the RemoteCluster controller promises about a cluster and its workers, abstractly; `RemoteCluster` implements it. |
| `ClusterLifecycleProofs` | The refinement, proved. Extends `RemoteClusterProofs`. |
| `RemoteReadyProofs` | Theorems about the join token and the NetConfig of a Ready control plane. Extends `RemoteClusterProofs`. |

### ApiCache

The cache receives the versions in order, at most `MaxLag` behind. A
resourceVersion is only ever compared for equality with the copy being written,
so a reader carries one bit, whether its copy is still the newest, instead of a
number; any other write resets it. Every write is modelled as a new version, the
ones that change nothing too, which is the worst case for whoever holds a copy.

### NodeProvision

`pc` is the place in Reconcile, `loc` the in-memory `np`, `locFresh` whether it
would be accepted; `alloc` and `launched` are the locals `vpnIP` and
`result.InstanceID`. `Start` is the read at the top of Reconcile with the copy
of the credentials and the dispatch on the phase. Then

* provisioning: `ResolveDefaults`, `MarkValidating`, `MarkConfiguringVPN`,
  `ConnectVPN` (the three markers are `ProgressMarker`: a refused write is
  followed by a read and the reconcile goes on), `RegisterPeer`,
  `LaunchInstance`, `RecordAllocation`, `PersistInstanceID`, or `Fail`;
* joining: `PollInstance`, `AwaitNode`, `StampNode`, `RecordJoin`,
  `PrepullImages`, `MarkReady`;
* retry after a failure: `CleanupServer`, `CleanupNetConfig`, `ResetAfterFailure`;
* deletion: `BeginDelete`, `DeleteNode`, `ConfirmNodeGone`, `TerminateInstance`,
  `ClearInstanceID`, the same cleanup, `RemoveFinalizer`.

Around them: the user creates, edits and deletes the resource, deletes the secret
or the Node; the cache delivers; the manager crashes; instances boot and register
Nodes; the Job finishes or expires. There is one worker (the controller sets no
MaxConcurrentReconciles), so one reconcile at a time; what interleaves with it is
everything else.

Abstractions: `status.vpnIP` and `status.ipAddress` always hold the same and are
one field. The phases Pending, Provisioning, Joining and VerifyingHealth are not
written on this path. The NetConfig is read as it is (its own lag is the subject
of `VPNAllocation`), as are Node, Job and secrets. A failed call did nothing, with
the exceptions the actions show. An instance ends only by termination: spot
preemption is not modelled. For GCP the VM has the resource's name, so
`Instance` has one element and can be launched again after its termination.

### NodeLifecycle

The abstract specification knows a resource (absent, new, managed, deleting), the
machine it answers for and the machines (off, on, gone). It says when a machine
may start (only for a protected resource), stop (only for one being deleted),
when the resource may let go of it (once it is gone) and when the resource may
disappear (new, or being deleted with nothing left it answers for). It has no
caches, no phases, no reconciles and no failures.

`ImplementsLifecycle` in `NodeProvision` instantiates it under the mapping
`ResourceState` (`store.exists`, `finalizer`, `deleting`), `held <- store.iid` and
`MachineState`. One concrete step is at most one abstract step: the write of the
id is Hold; a lost write, a marker or a stale read is a stutter. It deliberately
allows Hold to replace an earlier machine: that is finding 1, in the abstract.

### VPNAllocation

Each key pair is one attempt; `pc[k]` is where it is. An on-prem attempt has its
own thread, a cloud attempt occupies the worker. `Allocate`, `CheckPeer`,
`SetPeer`, `PersistPeer` are the SSH calls of allocateVPNIP and registerVPNPeer;
`checkBlind` and `setBlind` remember that the server could not be read.
`ReadForRecord`/`PatchRecord` are updateNetConfigStatus: a cached read and a merge
patch that replaces each changed list. `BeginCleanup` to `PatchRelease` are
cleanupVPNPeer. The RemoteCluster controller appends a worker's address or sets
the list anew. `wg set` moves an allowed address to the peer set last, which is
what WireGuard does.

Abstractions: each script run over SSH is atomic. Lists are sets, and the order in
which Go hands out map entries is a choice. The range is `1..LastIP`; addresses
start after the network's first one. `Starts(used)` are the addresses the search may
begin at (the last one the map yields) and `NextFree` the next free one upwards, as
a set that is empty when there is none. Only the first matching record is removed
by key, which one is a choice.

### CredentialManager

A session is what is left of its life, and `Tick` takes one unit off every copy.
Both threads run `Fetch`, `GetSessionToken`, `AssumeRole`, `PatchSecret`, `Put`;
the worker enters through `Get` and uses the result in `Use`, the loop through
`Scan`. `tracked` is whether the cached entry has an expiry. A one-time code is
accepted once per unit of time.

Abstractions: one secret, one region; session tokens that users put into the
secret themselves are not modelled; a refused deletion stands for the place where
an entry is evicted.

### RemoteCluster

Every RemoteCluster has its own reconcile: `pc[n]` is its place, `loc[n]` its copy,
`fresh[n]` whether the server would accept that copy, `tok[n]` the local join
command. A reconcile runs only while its resource is in `queue`, and
`GenerationChangedPredicate` lets creations, spec changes and deletions alone put
it there; a return asks for another or does not, as in the code. Then

* all: `Start`, `AddFinalizer`, `ProtectSecrets` (finalizer and copy of the SSH
  secret, finalizer of the VPN secret, each best effort), `MarkProvisioning`, `Fail`;
* control plane: `StartJob`, `FlushProgress`, `TakeResult` for the goroutine
  (`JobPhase`, `JobEnds`, `JobFails`), `ResumeCompletion` after a restart,
  `MarkInitComplete`, `EnsureRepo`, `CreateNetConfig`, `StampNetConfig`,
  `PublishJoin`, `ClearInit`; once Ready `RefreshToken`, `PatchNetJoin`,
  `StampRefresh`, `Packages`, `MarkPackages`;
* worker: `Connect`, `SyncVPN`, `PrepareJoin`, `JoinPhase`, `NameNode`, `MarkJoined`,
  `WorkerReady`, `RecordAddress`;
* deletion: `ResetHost`, `RemovePeer`, `ReleaseSecrets`, `RemoveFinalizer`.

`host[n]` is the set of kubeadm phases whose effects are on the machine. Phase 0 is
the Cleanup that resets it, so a repeated phase 0 undoes all others. A failing
command may have had its effect (`JobFails`, `JoinPhase`), and a crash may find the
command it interrupts carried out.

Abstractions: reads are current, a copy that is written back is refused once
anyone has written since it was read, and annotation patches are never refused.
Each resource is created once. Which phase is which matters for the first, for
kubeadm init and for kubeadm join only. The worker's DaemonSet list and label
steps, package variants and the kubeconfig timer are calls that succeed or fail.
Time leaps by the 23 hours after which a token is due and by the hour it has then
left. The hour is not over while a reconcile is running, nor while one of a control
plane that can be reached is queued: it is assumed to be enough for a reconcile and
for the calls that fail in it to be repeated. A machine that cannot be reached lets
the token expire, and `JoinTokenRotated` says nothing of it.

### ClusterLifecycle

The abstract specification knows a cluster (new, open, leaving, absent), whether it
is complete, each worker (new, joined, leaving, absent) and the machines that have
run the join. A cluster is set up and taken down at will until it opens, opens only
when it is complete, and stays complete while it is open; no machine joins before
the cluster has opened; a worker is marked only when its machine has joined, and that
machine does not leave while the worker is marked; only what is new or leaving
disappears. There are no reconciles, phases, annotations, tokens, goroutines or
failures.

`ImplementsClusterLifecycle` in `RemoteCluster` instantiates it: a cluster is open when
its control plane has a join command in its status, complete when its machine has
every phase and the NetConfig exists; a worker is joined when the annotation says so,
and its machine has run the join when the last phase is on it. What goes on at the
machines of a cluster that is being deleted is left open in the abstract (SetUp and
MoveMachines), as it is in the code, where a worker may still be joining while the
control plane is reset.

## 3. Runs

| Run | Question | Answer |
|---|---|---|
| `aws_safety` | Is the recorded instance always terminated, is nothing live torn down, is Ready final, through failures, crashes, lag and edits? | yes |
| `gcp_safety` | The same with the Job, a deletable secret, and a second resource of the same name. | yes |
| `aws_live` | Does a deletion get through, does a recorded instance reach Ready? | yes, under fairness |
| `aws_launch` | Does the idempotency guard exclude a second instance? | no: finding 1 |
| `aws_tunnel` | Does the retry leave an instance that is coming up alone? | no: finding 2 |
| `aws_stuck` | Is CreatingInstance always left? | no, without any failure: finding 3 |
| `vpn` | Does wg0.conf give each address once; do the cluster's own tunnels survive? | yes |
| `vpn_drop` | Does recording an address keep the other ones? | no: finding 4 |
| `vpn_steal` | Does a registration never take an address? | no: finding 5 |
| `creds` | Are credentials in hand valid, sessions fresh, deleted secrets forgotten? | yes |
| `creds_expired` | Are sessions fresh in MFA mode without a role, too? | no: finding 6 |
| `remote` | Does Ready mean provisioned, is no published machine touched again, does the controller implement `ClusterLifecycle`, do workers find a token that works, do initialisation and deletion get through? | yes |

### Bounds

`MaxFaults` counts failed calls and crashes, `MaxEdits` the writes by others,
`MaxCreates` the times the resource is created, `MaxLag` how far the cache is
behind.

* `aws_safety`: 2 instances, 2 addresses, lag 2, 2 faults, 1 edit. Two faults let
  one hit the work and another its repair; with lag 2 the cache can miss both the
  reconcile's own last write and someone else's; a second instance shows the
  duplicate. Instances and addresses are interchangeable (symmetry; the run
  checks no liveness).
* `gcp_safety`: two creations, so that old copies of the first resource meet the
  second one. `aws_live`: no symmetry, one instance, lag 1, 1 fault.
* `vpn`: a cloud and an on-prem attempt, two nodes of the cluster at addresses 1
  and 3 of 4, so that there is a gap, an end and a lowest address that is not the
  first; 2 faults, because a static tunnel takes two unreadable answers.
* `creds`: life 7, grace 5, interval 2, calls up to 1: in the code's minutes,
  grace 5 and interval 2 are the real values and a life of at least 15 is longer
  than all of them, as 7 is. The constants satisfy `2 * MaxCall + Interval <
  Grace`: a scan, a refresh that fails against the other thread's one-time code
  and a second one fit into the grace window.

* `remote`: a control plane and one worker, phases 0 and 1 on each (the reset, and
  the one that makes the cluster or joins it), 1 fault, 1 edit. A single fault is
  every way one call, write or answer can be lost, or one crash, anywhere in the
  sequence; a worker beside the control plane lets each act on what the other is
  about to change. The proofs cover any number of phases, workers and faults.

Deadlock is not checked: once the resource is gone and the user's budget is
spent, or all attempts are used, nothing more has to happen. It is checked in the
two `creds` runs, where time never stops.

### Fairness

`WF(Reconcile)`: the work queue holds a key until Reconcile returned, errors and
RequeueAfter bring it back, and the manager's resync covers the returns that ask
for nothing. `WF(CacheDelivers)`: a watch is resumed until it delivers. Booting,
registering and the Job are fair: the cloud does what it accepted. Users owe
nothing, and no failure is fair; `MaxFaults` makes failures finite, so the liveness
properties say what happens once calls succeed again. In `CredentialManager`,
threads proceed, the ticker fires and time passes.

In `RemoteCluster`, `WF(Reconcile(n))` for each resource (the queue serves every key
in it; a resource that is not queued is not reconciled, which is the point of
modelling `queue`) and `WF(Job)` for the goroutine. Time and users owe nothing.
`InitCompletes` excuses a control plane that is being deleted, cannot be reached,
or whose VPN secret is gone. Its `DeletionCompletes` excuses nothing.

`NodeProvision`'s `DeletionCompletes` is checked with a secret to terminate with: without one
handleDelete refuses to go on, on purpose. `RecordedReachesReady` excuses the two
ways out that the findings show: a tunnel that was torn down and a duplicate that
holds the Node's name.

### Findings

1. `aws_launch` (`N`:389-390). The status update with the instance id can be
   lost, with no phase stored that would stop the next reconcile from launching
   again.
2. `aws_tunnel` (`N`:313). The Failed branch releases the peer of the copy it
   began with, and only then reads whether the resource still is Failed.
3. `aws_stuck` (`N`:489). "Re-fetch to ensure we have the latest ResourceVersion"
   reads the cache, which may not have seen the marker the same reconcile just
   wrote. The id is dropped; CreatingInstance is never left.
4. `vpn_drop` (`N`:2225). The patch carries no resourceVersion and replaces the
   list computed from a cached copy.
5. `vpn_steal` (`src/provider/onprem/provisioner.go`:548). Conflict check and
   `wg set` are two calls; goroutines of two nodes pass the check together.
6. `creds_expired` (`src/provider/aws/credmanager.go`:157). The reused MFA
   session comes back without its expiry and is cached as if it never expired.

Each property of a passing run has a variant of one definition (the operators
marked "Mutant" in the modules) that breaks it: what the property would catch.

Beyond the runs, the models reach the following. For most of it no text of the
code promises the opposite, so that there is nothing to hold it to:

* Ready, then Failed: `MarkProvisioning` writes Provisioning, and the next
  reconcile returns at once because the join command is there (R:1385). The
  control plane is never Ready again, and no worker joins it.
* The reconcile that creates the package variants asks for no other, and an
  annotation change wakes nobody: after it nothing rotates the token
  (`JoinTokenRotated` and `PackagedClusterJoinable` hold up to there). The comment
  at R:257 expects the refresh to go on.
* The first deletion takes the finalizer from a VPN secret that others still
  need (R:1549), and the deletion of a worker takes the cluster's repository.
* A worker that is Ready and whose address could not be recorded is never
  recorded: the retry finds it joined (`ReadyWorkerRecorded` without failures).
* kubeadm join is not guarded: repeated on a machine that has joined, it fails
  for good.
* An instance that was never recorded is not terminated (follows finding 1).

## 4. Proofs

`NodeProvisionProofs` proves, for every set of instances and addresses, every
lag and every number of faults, edits and creations, from `ConstantsAssumption`
(`None` is neither an id nor an address, budgets are naturals, a GCP resource has
one VM name) and `MaxLagAssumption`:

* `TypeCorrect == Spec => []TypeOK`;
* `RecordedInstanceIsTerminated == Spec => []RecordedInstanceTerminated`;
* `LaunchesForManaged == Spec => LaunchesOnlyManaged`.

The argument. `RecordedInstanceTerminated` is not inductive: what a deletion
does depends on the copy it works with. The invariant says

* `LocalsInv` (with `TypeInv`): the locals are set where they are used, and a
  deletion works on a copy that is being deleted and has the finalizer;
* `CacheCoherent`: the last version under way is the stored one;
* `FreshInv`: a copy the server would accept agrees with the stored resource in
  existence, finalizer, deletion, and, before termination, the instance id;
* `ManagedInv`: as long as *any* version somebody may still read is managed (has
  the finalizer, is not being deleted), the stored resource exists and has its
  finalizer. This is what makes stale reads harmless, and `WorkInv` follows for a
  reconcile that began with one;
* `DeleteInv`: a deletion whose writes would be accepted has left no such version
  behind, so that the removal of the finalizer keeps `ManagedInv`;
* `FinalizerInv`: without a finalizer no instance is recorded;
* `TerminatedInv`: past the termination, and as long as the copy would be
  accepted, an id that is still stored is that of a terminated instance.

Two lemmas say what a write and a delivery add to the versions somebody can read;
one lemma per action (or group of actions that change the same variables) shows
its step, and the theorems combine them. `LaunchesForManaged` follows from
`WorkInv` at the one action that starts an instance.

### The lifecycle

`NodeLifecycleProofs` extends that module and proves, from the same assumptions,

* `LifecycleImplemented == Spec => ImplementsLifecycle`;
* `OnlyDeletedTerminates == Spec => TerminatesOnlyDeleted`.

`Inv` is not enough: a deletion of a stale copy may terminate, and a reconcile of
one may record, what belongs to a resource created since. `Settled` says why
neither happens:

* `DoomedInv`, `KnownInv`: an id in a copy that is being deleted, anywhere, is that
  of the stored resource, itself being deleted, or of a terminated instance; and
  no copy has an id nobody launched;
* `SeenInv`: while a deletion holds the newest copy no version names another
  instance, and past the termination none names a living one;
* `OrderInv`, `WorkSeesInv`: versions reach the cache in order, so a reconcile that
  found the resource managed has no earlier, deleted resource still before it;
* `IdInv`, `LaunchedInv`, `EndingInv`: what is written agrees with what is stored, and
  a launched instance is up until it is recorded.

One lemma per action maps its step to a lifecycle action or to a stutter.

### The Node of a Ready resource

`NodeReadyProofs` adds `ReadyMeansStamped == Spec => []ReadyNodeStamped`. What can go
wrong is that handleDelete, with a stale copy of an earlier resource, takes the
Node of the one that has its name now. Call a version *advanced* if it is managed
and in PrePullingImages or Ready. Then

* `AdvancedStamped`: while any readable version is advanced the Node is stamped;
* `ReadyOrder`: an advanced version never comes after a deleted one, since the
  reconcile that writes it has left those behind (`WorkSeesInv`);
* `UnseenByDelete`: so a deletion, which began with a deleted version, has no
  advanced one before it, and may take the Node;
* `UntouchedEmpty`: without the finalizer the phase is still empty, which makes every
  Ready resource a managed one.

It also proves `ReadyStaysReady == Spec => ReadyIsFinal`. Two kinds of write could
throw a Ready resource back: one of a reconcile that read a copy from before, and
one after a second read, which `ProgressMarker` and `Fail` make without looking at the
phase again. Call a version *late* from Bootstrapping on: its instance was seen
running. `LateInv` says

* `LateOrder`: of two versions still in view, a late one is followed by a late one
  until it is deleted, it follows only a late one or the wait for the instance, and
  nothing late and alive follows one that is being deleted;
* `LatePlaces`: a provisioning sees no late version and a deletion no living one
  (`ViewInv`); a copy the server would accept has the stored phase (`FreshCopyInv`);
  and the phase of the copy is the one it was dispatched on (`CopyPhaseInv`).

`KeepsReadyStep` then goes through the actions: each write either carries a late
phase, or is refused, or is of a resource being deleted. That versions arrive in
order is used for three relations here (`OrderInv`, `ReadyOrder`, `LateOrder`), each
an instance of `Ordered(R)` with the lemmas `WritePairs`, `ReadPairs` and `OrderPairs`.
None of it depends on `MaxLag`.

### VPN allocation

`VPNAllocationProofs`, from `VPNConstantsAssumption` and `MaxLagAssumption`, for
every set of nodes, attempts and static peers and every range:

* `TypeCorrect == Spec => []TypeOK`;
* `StaticTunnelsSurvive == Spec => StaticTunnelTakenBlindly`;
* `ConfIsFunctional == Spec => []ConfGivesAddressOnce`.

The invariant says that an address in an attempt that has seen the server since,
in the worker's hands or in a status is not that of a static peer on the server.
It is inductive because a static peer's address can fall but never be taken up
again (`StaticOnlyFalls`). Removal by address can therefore not find a static peer.

### Credentials

`CredentialManagerProofs`, from `CredentialConstantsAssumption`: `TypeCorrect`, and
for every set of modes without `"mfa"` (finding 6 is about that one)

* `CredentialsInHandValid == ... Spec => []GivenCredentialsValid`;
* `SessionsRenewedInTime == ... Spec => []CachedSessionFresh`.

`HandInv` says that what a thread has in hand was worth a grace period when its
call began. `FreshInv` bounds the life of a cached session at each point of the
loop's round by the time since the last tick (`due`) and in the call (`busy`);
the assumption `Interval + 2 * MaxCall < Grace` is exactly what closes the round,
the second `MaxCall` being the refresh that found the one-time code used.

### Remote clusters

`RemoteClusterProofs`, from `ClusterAssumption`, for any number of workers, phases,
faults and edits: `TypeCorrect`, `ReadyControlPlaneProvisioned`
(`ReadyIsProvisioned`), `ProgressSound` (`ProgressBehindHost`),
`JoinedWorkersAreMembers` (`JoinedIsMember`) and `PublishedHostUntouched`
(`ProvisionedHostStable`). The invariant:

* `Gone`, `CopyCurrent`: only live resources are worked for, and a copy the server
  would accept agrees with it in what matters;
* `ResourceInv`: progress in the annotation is on the machine;
* `JobOnly`: the goroutine runs only before anything that follows it, so that a
  published or initialised control plane has none, and has done every phase
  before its own;
* `Completion`: each step after the goroutine has all phases on the machine, and
  the NetConfig before the publication;
* `Joining`: the same for a worker's phases.

`ClusterLifecycleProofs` adds `ClusterLifecycleImplemented == Spec =>
ImplementsClusterLifecycle`. Most of what the abstract cluster asks of a step can be
read off `Inv` before and after it: a resource whose stage moves to open or joined is,
by `Completion` or `Joining` after the step, one whose machine is as it should be.
What `Inv` does not say is why the other moves do not happen, and `OpenInv` does:

* `Worked(n)`: a resource without the finalizer has nothing to lose, so the deletion
  by a user that removes it at once removes a new one; and a reconcile beyond
  AddFinalizer, even one with a copy that is out of date, does not write the
  finalizer away;
* `InHand`: from the end of kubeadm to the publication the reconcile holds a join
  command, on the way around a restart (`ResumeCompletion`) too, so that the status
  never says Ready with none;
* `Invited(w)`: a worker that prepares or runs its phases was given its join command by
  a cluster that had opened, and a cluster is never new again.

The proof sorts the steps by what they do to their resource: `Steady` leaves it at its
stage, `Grows` adds a promise (`PublishJoin`, `RefreshToken`, `MarkJoined`), `Removed`
takes it away. `MachinesStay` and `MachinesMove` then turn a step into one of the
abstract cluster, depending on whether a machine or the NetConfig changed with it.

`RemoteReadyProofs` adds `TokenRotated` (`JoinTokenRotated`). Its invariant
`TokenInv` says that a live control plane without package variants is in the queue
whenever it is not being reconciled, so that `TokenExpires` cannot happen to it while
it can be reached;
that a copy the server would accept knows whether the variants are there; and that
no token in the annotations, a copy or a reconcile's hands, from which one could be
published, has expired. `ReachableStep` shows that a machine that is cut off stays
so, and with it out of what the property speaks of.

It also adds `ReadyWorkersRecorded` (`ReadyWorkerRecorded`) and
`PackagedClustersJoinable` (`PackagedClusterJoinable`), the two that hold as long as no
call has failed. That premise hides an argument: a call also fails when a machine
cannot be reached or a secret is gone, so one must show that nothing but the budget of
failures makes it fail. `CalmInv` speaks of a live control plane without a failure so far:

* `Connected`: its machine is in the VPN and no deletion takes it out;
* `Secured`: the controller's copy of the SSH secret is there from the time anybody
  needs it, or the user's secret was gone before;
* `Control`: the NetConfig is created, which writes its list over, only before the join
  command is published, and the Ready path finds it stamped;
* `Patched`: after the first refresh the NetConfig has a join command;
* `Recorded(w)`: a worker gets on only in a published cluster, and once it says
  Ready it is in `netcfg.used` or at the step that puts it there.

### What is only model-checked

The temporal properties, which need fairness and are out of the prover's reach here:
`DeletionCompletes` (twice), `RecordedReachesReady`, `InitCompletes` and
`DeletedSecretForgotten`. Every invariant, every action property and every refinement
that a passing run checks is a theorem.

## 5. Not modelled

* The phases of an on-prem resource and the job and progress maps of its
  goroutine (`N` 888-1035). Its allocation, registration and record are in
  `VPNAllocation`. Reading the code shows three hazards that are listed without a
  property: a resource created again under its name finds the old entry and only
  requeues (N:899); a lost Bootstrapping marker leaves ConfiguringVPN for good
  (N:952); a result that was taken and could not be recorded is lost (N:1032).
* refreshLocalJoinToken of the NodeProvision controller; registry credentials, the
  SSH key secret, spot preemption.
* AWS defaults (VPC, subnet, security group, AMI, key pair) beyond "resolved or
  not"; the requests that are sent to the clouds.
* Package variants' contents, the kubeconfig timer, Argo CD, the scripts of the
  kubeadm phases and of the runtime installation, SSH itself: each is a call that
  succeeds or fails.
* The NetConfig controller, a scaffold; generated code; deployment manifests.
* Two managers at once (leader election is on in the deployment).

## 6. Plan

1. `OnPremBootstrap`: job and progress maps, result channel, phases of the
   resource on this path, restart, deletion under a running goroutine, a resource
   re-created under its name. It composes with `VPNAllocation` through the
   attempt's steps.
2. `VPNAllocation`: several attempts per node, scripts that share `wg0.conf.tmp`,
   peers that no record names.
3. Node finalizers after a lost write, and an SSH key secret that outlives its use.
4. Proofs of what the first item adds.
