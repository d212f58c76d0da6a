-------------------------- MODULE MCNodeProvision --------------------------
(* NodeProvision on small instances: ids and addresses are model values.   *)
EXTENDS NodeProvision, TLC

\* Instances and addresses are interchangeable.
Symmetry == Permutations(Instance) \cup Permutations(IP)
=============================================================================
