----------------------------- MODULE WasmerCalls -----------------------------
(***************************************************************************)
(* The calls of the functions that an open instance exports: the objects   *)
(* they need are those of WasmerHandles, and their arguments and results   *)
(* are converted as in WasmerValues.                                       *)
(***************************************************************************)
EXTENDS WasmerHandles, WasmerValues

Callable == \E i \in Slots : inst[i].pc = "open"

(* An argument that an exported function takes reaches the contract as the  *)
(* same number, except that int and uint, which depend on the platform, are *)
(* cut to the width of the parameter (getExportsFromInstance).              *)
ArgumentsExact == Callable => ArgumentsKept

(* What a contract returns is read back as the same number, by the method   *)
(* for its type and by the wider one, and as an argument of another call    *)
(* reaches a parameter of its type, and no other, unchanged (value.go).     *)
ValuesExact == Callable => ValuesKept

=============================================================================
