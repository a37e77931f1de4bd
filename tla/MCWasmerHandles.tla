-------------------------- MODULE MCWasmerHandles --------------------------
(* Instances of WasmerHandles for TLC. *)
EXTENDS WasmerCalls, TLC

Symm == Permutations(Slots) \cup Permutations(Namespaces) \cup Permutations(Data)

=============================================================================
