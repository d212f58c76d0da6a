--------------------------- MODULE NodeLifecycle ---------------------------
(***************************************************************************)
(* What the NodeProvision controller promises about the machines it pays   *)
(* for, with neither caches, phases, reconciles nor failures: which        *)
(* machine a resource answers for, when a machine may be started and       *)
(* stopped, and when the resource may go.  NodeProvision implements it.    *)
(***************************************************************************)

CONSTANTS
    Instance,    \* the machines
    None         \* no machine

VARIABLES
    resource,    \* "absent", "new" (not yet protected), "managed", "deleting"
    held,        \* the machine the resource answers for
    machine      \* each machine: "off", "on", or "gone"

lifecycleVars == <<resource, held, machine>>

LifecycleInit ==
    /\ resource = "absent"
    /\ held = None
    /\ machine = [i \in Instance |-> "off"]

Protected == resource \in {"managed", "deleting"}

\* Nothing is left behind that the resource answers for.
Released == held # None => machine[held] = "gone"

-----------------------------------------------------------------------------
Create ==
    /\ resource = "absent"
    /\ resource' = "new" /\ held' = None
    /\ UNCHANGED machine

Protect ==
    /\ resource = "new"
    /\ resource' = "managed"
    /\ UNCHANGED <<held, machine>>

\* A machine runs for a resource that cannot go unnoticed.
StartMachine(i) ==
    /\ Protected
    /\ machine[i] # "on"
    /\ machine' = [machine EXCEPT ![i] = "on"]
    /\ UNCHANGED <<resource, held>>

\* The resource answers for a running machine, perhaps instead of an earlier one.
Hold(i) ==
    /\ Protected
    /\ machine[i] = "on"
    /\ held' = i
    /\ UNCHANGED <<resource, machine>>

RequestDeletion ==
    /\ resource = "managed"
    /\ resource' = "deleting"
    /\ UNCHANGED <<held, machine>>

\* Machines are stopped only for a resource that is being deleted.
StopMachine(i) ==
    /\ resource = "deleting"
    /\ machine[i] = "on"
    /\ machine' = [machine EXCEPT ![i] = "gone"]
    /\ UNCHANGED <<resource, held>>

\* The resource stops answering for a machine once it is gone.
LetGo ==
    /\ resource = "deleting"
    /\ held # None /\ Released
    /\ held' = None
    /\ UNCHANGED <<resource, machine>>

Disappear ==
    /\ resource \in {"new", "deleting"}
    /\ Released
    /\ resource' = "absent"
    /\ UNCHANGED <<held, machine>>

LifecycleNext ==
    \/ Create \/ Protect \/ RequestDeletion \/ LetGo \/ Disappear
    \/ \E i \in Instance : StartMachine(i) \/ Hold(i) \/ StopMachine(i)

LifecycleSpec == LifecycleInit /\ [][LifecycleNext]_lifecycleVars
=============================================================================
