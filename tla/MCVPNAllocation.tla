-------------------------- MODULE MCVPNAllocation --------------------------
(* VPNAllocation on small instances: one attempt for each of two nodes.    *)
EXTENDS VPNAllocation, TLC

CONSTANTS k1, k2, n1, n2, cp, w

MCOwner == (k1 :> n1) @@ (k2 :> n2)

\* The control plane has the first address, a worker of the cluster the third, so
\* that the range has a gap and its last address can be given out first.
MCStaticIP == (cp :> 1) @@ (w :> 3)
=============================================================================
