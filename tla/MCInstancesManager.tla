-------------------------- MODULE MCInstancesManager --------------------------
(* Instances of InstancesManager for TLC. *)
EXTENDS InstancesManager, TLC

Symmetry == Permutations(Caller) \cup Permutations(Key) \cup Permutations(Pool)

=============================================================================
