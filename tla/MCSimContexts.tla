---------------------------- MODULE MCSimContexts ----------------------------
(* Instances of SimContexts for TLC: transactions are interchangeable. *)
EXTENDS SimContexts, TLC

Symmetry == Permutations(Tx)

=============================================================================
