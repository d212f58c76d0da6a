-------------------------- MODULE ClusterLifecycle --------------------------
(***************************************************************************)
(* What the RemoteCluster controller promises about a cluster and its      *)
(* workers, with neither reconciles, phases, annotations, goroutines nor   *)
(* failures: the cluster is complete before it is open to workers and      *)
(* stays so until somebody deletes it, machines join it only when it is    *)
(* open, and a worker that is marked as joined is never thrown out.        *)
(* RemoteCluster implements it.                                            *)
(***************************************************************************)

CONSTANT Worker

VARIABLES
    cluster,     \* "new", "open", "leaving", "absent"
    complete,    \* whether everything that makes it a cluster is in place
    worker,      \* each worker: "new", "joined", "leaving", "absent"
    joined       \* the workers whose machines have run the join

lifecycleVars == <<cluster, complete, worker, joined>>

LifecycleInit ==
    /\ cluster = "new" /\ complete = FALSE
    /\ worker = [w \in Worker |-> "new"] /\ joined = {}

-----------------------------------------------------------------------------
\* Until it is open the cluster may be set up and taken down again and again, and
\* what was under way goes on for a while after it was deleted.
SetUp ==
    /\ cluster # "open"
    /\ complete' \in BOOLEAN
    /\ UNCHANGED <<cluster, worker, joined>>

Open ==
    /\ cluster = "new" /\ complete
    /\ cluster' = "open"
    /\ UNCHANGED <<complete, worker, joined>>

\* Machines join, if the cluster has been open, or are reset for another try or
\* because their worker is deleted; not those of marked workers.
MoveMachines ==
    /\ joined' \in SUBSET Worker
    /\ cluster = "new" => joined' \subseteq joined
    /\ \A w \in Worker : worker[w] = "joined" => (w \in joined' <=> w \in joined)
    /\ UNCHANGED <<cluster, complete, worker>>

MarkJoined(w) ==
    /\ worker[w] = "new" /\ w \in joined
    /\ worker' = [worker EXCEPT ![w] = "joined"]
    /\ UNCHANGED <<cluster, complete, joined>>

\* A resource that was not worked for disappears at once.
DeleteCluster ==
    /\ \/ cluster \in {"new", "open"} /\ cluster' = "leaving"
       \/ cluster \in {"new", "leaving"} /\ cluster' = "absent"
    /\ UNCHANGED <<complete, worker, joined>>

DeleteWorker(w) ==
    /\ \/ worker[w] \in {"new", "joined"} /\ worker' = [worker EXCEPT ![w] = "leaving"]
       \/ worker[w] \in {"new", "leaving"} /\ worker' = [worker EXCEPT ![w] = "absent"]
    /\ UNCHANGED <<cluster, complete, joined>>

LifecycleNext ==
    \/ SetUp \/ Open \/ DeleteCluster \/ MoveMachines
    \/ \E w \in Worker : MarkJoined(w) \/ DeleteWorker(w)

LifecycleSpec == LifecycleInit /\ [][LifecycleNext]_lifecycleVars
=============================================================================
