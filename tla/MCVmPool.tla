------------------------------ MODULE MCVmPool ------------------------------
(* Instances of VmPool for TLC: symmetry of clients and instances. *)
EXTENDS VmPoolRefinements, TLC

Symmetry == Permutations(Client) \cup Permutations(Instance)

=============================================================================
